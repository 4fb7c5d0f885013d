------------------------ MODULE KernelMappingProofs ------------------------
(* What the mapping pass achieves while nothing goes wrong: proofs about   *)
(* the address space it builds, over those of KernelLoaderProofs.          *)
EXTENDS KernelLoaderProofs, WellFoundedInduction

-----------------------------------------------------------------------------
(* The walk of the tables.                                                 *)

(* The table, or at last the frame, a walk under root r reaches for page p *)
(* before level n.                                                         *)
TableAt(m, r, p, n) ==
    CASE n = 1 -> r
      [] n = 2 -> Step(m, r, p, 1)
      [] n = 3 -> Step(m, Step(m, r, p, 1), p, 2)
      [] n = 4 -> Step(m, Step(m, Step(m, r, p, 1), p, 2), p, 3)
      [] n = 5 -> Step(m, Step(m, Step(m, Step(m, r, p, 1), p, 2), p, 3), p, 4)

(* The tables are a tree: the root is referenced nowhere, and a frame once *)
(* at most.                                                                *)
Tree(m, r) ==
    /\ m \in [Addr -> Word] /\ r \in Frame
    /\ \A a \in Addr : m[a] # Pte(r)
    /\ \A a, b \in Addr, f \in Frame : m[a] = Pte(f) /\ m[b] = Pte(f) => a = b

LEMMA TableSteps ==
    ASSUME NEW m, NEW r, NEW p
    PROVE  /\ TableAt(m, r, p, 1) = r
           /\ \A n \in 1 .. 4 : TableAt(m, r, p, n + 1) = Step(m, TableAt(m, r, p, n), p, n)
           /\ Translate(m, r, p) = IF m[EntryAddr(r, p, 1)][1] = "large" THEN p
                                   ELSE TableAt(m, r, p, 5)
  <1>1. /\ TableAt(m, r, p, 1) = r
        /\ TableAt(m, r, p, 2) = Step(m, r, p, 1)
        /\ TableAt(m, r, p, 3) = Step(m, Step(m, r, p, 1), p, 2)
        /\ TableAt(m, r, p, 4) = Step(m, Step(m, Step(m, r, p, 1), p, 2), p, 3)
        /\ TableAt(m, r, p, 5) = Step(m, Step(m, Step(m, Step(m, r, p, 1), p, 2), p, 3), p, 4)
    BY DEF TableAt
  <1>2. \A n \in 1 .. 4 : TableAt(m, r, p, n + 1) = Step(m, TableAt(m, r, p, n), p, n)
    <2> SUFFICES ASSUME NEW n \in 1 .. 4
                 PROVE  TableAt(m, r, p, n + 1) = Step(m, TableAt(m, r, p, n), p, n)
      OBVIOUS
    <2>1. CASE n = 1
      BY <1>1, <2>1
    <2>2. CASE n = 2
      BY <1>1, <2>2
    <2>3. CASE n = 3
      BY <1>1, <2>3
    <2>4. CASE n = 4
      BY <1>1, <2>4
    <2>5. QED
      BY <2>1, <2>2, <2>3, <2>4
  <1>3. QED
    BY <1>1, <1>2 DEF Translate

(* What a walk reaches is the root, or referenced by the table before.     *)
LEMMA Reached ==
    ASSUME NEW m, NEW r, Tree(m, r), NEW p \in Page, NEW n \in 1 .. 5, TableAt(m, r, p, n) # NoFrame
    PROVE  /\ TableAt(m, r, p, n) \in Frame
           /\ \/ n = 1 /\ TableAt(m, r, p, n) = r
              \/ /\ n # 1 /\ n - 1 \in 1 .. 4 /\ TableAt(m, r, p, n - 1) \in Frame
                 /\ EntryAddr(TableAt(m, r, p, n - 1), p, n - 1) \in Addr
                 /\ m[EntryAddr(TableAt(m, r, p, n - 1), p, n - 1)] = Pte(TableAt(m, r, p, n))
  <1>1. m \in [Addr -> Word] /\ r \in Frame
    BY DEF Tree
  <1>2. ASSUME NEW k \in 1 .. 4, TableAt(m, r, p, k) \in Frame, TableAt(m, r, p, k + 1) # NoFrame
        PROVE  /\ TableAt(m, r, p, k + 1) \in Frame
               /\ EntryAddr(TableAt(m, r, p, k), p, k) \in Addr
               /\ m[EntryAddr(TableAt(m, r, p, k), p, k)] = Pte(TableAt(m, r, p, k + 1))
    <2> DEFINE t == TableAt(m, r, p, k)
               a == EntryAddr(t, p, k)
    <2>1. TableAt(m, r, p, k + 1) = Step(m, t, p, k) /\ t # NoFrame
      BY <1>2, TableSteps, LoaderAssumption DEF Frame, NoFrame
    <2>2. a \in Addr /\ m[a] \in Word
      BY <1>1, <1>2, Entries
    <2> HIDE DEF t
    <2>3. m[a][1] = "pte" /\ TableAt(m, r, p, k + 1) = m[a][2]
      BY <1>2, <2>1 DEF Step
    <2>4. m[a][2] \in Frame /\ m[a] = Pte(m[a][2])
      <3> HIDE DEF a
      <3>1. QED
        BY <2>2, <2>3, WordKinds DEF Pte
    <2>5. QED
      BY <2>2, <2>3, <2>4 DEF t
  <1>3. ASSUME NEW k \in 1 .. 4, TableAt(m, r, p, k + 1) # NoFrame PROVE TableAt(m, r, p, k) # NoFrame
    <2>1. TableAt(m, r, p, k + 1) = Step(m, TableAt(m, r, p, k), p, k)
      BY TableSteps
    <2>2. QED
      BY <1>3, <2>1 DEF Step
  <1> DEFINE T(k) == TableAt(m, r, p, k)
  <1>4. T(1) \in Frame /\ T(1) = r
    BY <1>1, TableSteps
  <1>5. \A k \in 1 .. 4 : T(k + 1) # NoFrame => T(k) # NoFrame
    BY <1>3
  <1>6. \A k \in 1 .. 4 : T(k) \in Frame /\ T(k + 1) # NoFrame => T(k + 1) \in Frame
    BY <1>2
  <1>7. T(n) # NoFrame
    OBVIOUS
  <1> HIDE DEF T
  <1>8. /\ T(2) # NoFrame => T(2) \in Frame
        /\ T(3) # NoFrame => T(3) \in Frame /\ T(2) \in Frame
        /\ T(4) # NoFrame => T(4) \in Frame /\ T(3) \in Frame
        /\ T(5) # NoFrame => T(5) \in Frame /\ T(4) \in Frame
    <2>1. T(2) # NoFrame => T(2) \in Frame
      BY <1>4, <1>6
    <2>2. T(3) # NoFrame => T(3) \in Frame /\ T(2) \in Frame
      BY <1>5, <1>6, <2>1
    <2>3. T(4) # NoFrame => T(4) \in Frame /\ T(3) \in Frame
      BY <1>5, <1>6, <2>2
    <2>4. T(5) # NoFrame => T(5) \in Frame /\ T(4) \in Frame
      BY <1>5, <1>6, <2>3
    <2>5. QED
      BY <2>1, <2>2, <2>3, <2>4
  <1>9. CASE n = 1
    BY <1>4, <1>9 DEF T
  <1>10. CASE n # 1
    <2>1. n - 1 \in 1 .. 4 /\ (n - 1) + 1 = n
      BY <1>10
    <2>2. T(n) \in Frame /\ T(n - 1) \in Frame
      <3>1. n = 2 \/ n = 3 \/ n = 4 \/ n = 5
        BY <1>10
      <3>2. QED
        BY <1>4, <1>7, <1>8, <3>1
    <2>3. QED
      BY <1>2, <1>7, <1>10, <2>1, <2>2 DEF T
  <1>11. QED
    BY <1>9, <1>10

(* A frame is reached by one path only.                                    *)
LEMMA UniquePath ==
    ASSUME NEW m, NEW r, Tree(m, r), NEW p \in Page, NEW q \in Page,
           NEW k \in 1 .. 5, NEW n \in 1 .. 5,
           TableAt(m, r, p, k) = TableAt(m, r, q, n), TableAt(m, r, p, k) # NoFrame
    PROVE  n = k /\ Prefix(p, k) = Prefix(q, k)
  <1> DEFINE T(x, l) == TableAt(m, r, x, l)
             C(l) == \A j \in 1 .. 5 : T(p, l) = T(q, j) /\ T(p, l) # NoFrame
                                           => j = l /\ Prefix(p, l) = Prefix(q, l)
  <1>1. ASSUME NEW x \in Page, NEW l \in 1 .. 5, T(x, l) # NoFrame
        PROVE  /\ T(x, l) \in Frame
               /\ l = 1 => T(x, l) = r
               /\ l # 1 => /\ l - 1 \in 1 .. 4 /\ T(x, l - 1) \in Frame
                           /\ EntryAddr(T(x, l - 1), x, l - 1) \in Addr
                           /\ m[EntryAddr(T(x, l - 1), x, l - 1)] = Pte(T(x, l))
    BY <1>1, Reached
  <1>2. \A f \in Frame : f # NoFrame
    BY LoaderAssumption DEF Frame, NoFrame
  <1>3. p \in Nat /\ q \in Nat
    BY PrefixBound
  <1>4. C(1)
    <2> SUFFICES ASSUME NEW j \in 1 .. 5, T(p, 1) = T(q, j), T(p, 1) # NoFrame
                 PROVE  j = 1 /\ Prefix(p, 1) = Prefix(q, 1)
      OBVIOUS
    <2>1. T(p, 1) = r
      BY TableSteps
    <2>2. j = 1
      <3> SUFFICES ASSUME j # 1 PROVE FALSE
        OBVIOUS
      <3>1. EntryAddr(T(q, j - 1), q, j - 1) \in Addr /\ m[EntryAddr(T(q, j - 1), q, j - 1)] = Pte(T(q, j))
        BY <1>1, <2>1
      <3>2. QED
        BY <2>1, <3>1 DEF Tree
    <2>3. Prefix(p, 1) = 0
      BY PrefixBound
    <2>4. Prefix(q, 1) = 0
      BY PrefixBound
    <2>5. QED
      BY <2>2, <2>3, <2>4
  <1>5. ASSUME NEW l \in 1 .. 4, C(l) PROVE C(l + 1)
    <2> SUFFICES ASSUME NEW j \in 1 .. 5, T(p, l + 1) = T(q, j), T(p, l + 1) # NoFrame
                 PROVE  j = l + 1 /\ Prefix(p, l + 1) = Prefix(q, l + 1)
      OBVIOUS
    <2>1. l + 1 \in 1 .. 5 /\ l + 1 # 1 /\ (l + 1) - 1 = l
      OBVIOUS
    <2>2. /\ T(p, l) \in Frame /\ EntryAddr(T(p, l), p, l) \in Addr
          /\ m[EntryAddr(T(p, l), p, l)] = Pte(T(p, l + 1)) /\ T(p, l + 1) \in Frame
      BY <1>1, <2>1
    <2>3. j # 1
      <3> SUFFICES ASSUME j = 1 PROVE FALSE
        OBVIOUS
      <3>1. T(q, j) = r
        BY TableSteps
      <3>2. QED
        BY <2>2, <3>1 DEF Tree
    <2>4. /\ j - 1 \in 1 .. 4 /\ T(q, j - 1) \in Frame /\ EntryAddr(T(q, j - 1), q, j - 1) \in Addr
          /\ m[EntryAddr(T(q, j - 1), q, j - 1)] = Pte(T(p, l + 1))
      BY <1>1, <2>3
    <2>5. EntryAddr(T(p, l), p, l) = EntryAddr(T(q, j - 1), q, j - 1)
      BY <2>2, <2>4 DEF Tree
    <2> HIDE DEF T, C
    <2>6. /\ Index(p, l) \in 0 .. Fan - 1
          /\ EntryAddr(T(p, l), p, l) = T(p, l) * Fan + Index(p, l)
      BY <2>2, Entries
    <2>7. /\ Index(q, j - 1) \in 0 .. Fan - 1
          /\ EntryAddr(T(q, j - 1), q, j - 1) = T(q, j - 1) * Fan + Index(q, j - 1)
      BY <2>4, Entries
    <2>8. T(p, l) \in Nat /\ T(q, j - 1) \in Nat
      BY <2>2, <2>4, LoaderAssumption DEF Frame
    <2>9. T(p, l) = T(q, j - 1) /\ Index(p, l) = Index(q, j - 1)
      BY ONLY <2>5, <2>6, <2>7, <2>8, SameEntry
    <2>10. j - 1 = l /\ Prefix(p, l) = Prefix(q, l)
      <3>1. j - 1 \in 1 .. 5 /\ T(p, l) # NoFrame
        BY <1>2, <2>2, <2>4
      <3>2. QED
        BY <1>5, <2>9, <3>1 DEF C
    <2>11. j = l + 1 /\ Index(p, l) = Index(q, l)
      BY <2>9, <2>10
    <2>12. Prefix(p, l + 1) = Prefix(p, l) * Fan + Index(p, l)
      BY <1>3, Digits
    <2>13. Prefix(q, l + 1) = Prefix(q, l) * Fan + Index(q, l)
      BY <1>3, Digits
    <2>14. QED
      BY <2>10, <2>11, <2>12, <2>13
  <1> HIDE DEF C
  <1>6. C(1) /\ C(2) /\ C(3) /\ C(4) /\ C(5)
    <2>1. C(1 + 1)
      BY <1>4, <1>5
    <2>2. C(2 + 1)
      BY <1>5, <2>1
    <2>3. C(3 + 1)
      BY <1>5, <2>2
    <2>4. C(4 + 1)
      BY <1>5, <2>3
    <2>5. QED
      BY <1>4, <2>1, <2>2, <2>3, <2>4
  <1>7. C(k)
    <2>1. k = 1 \/ k = 2 \/ k = 3 \/ k = 4 \/ k = 5
      OBVIOUS
    <2>2. QED
      BY <1>6, <2>1
  <1>8. QED
    BY <1>7 DEF C

(* Writes elsewhere do not change a walk.                                  *)
LEMMA WalkKept ==
    ASSUME NEW m, NEW r, Tree(m, r), NEW m2, NEW p \in Page,
           \A a \in Addr : FrameOf(a) = r \/ (\E b \in Addr : m[b] = Pte(FrameOf(a))) => m2[a] = m[a]
    PROVE  /\ \A n \in 1 .. 5 : TableAt(m2, r, p, n) = TableAt(m, r, p, n)
           /\ Translate(m2, r, p) = Translate(m, r, p)
  <1> DEFINE T(n) == TableAt(m, r, p, n)
             U(n) == TableAt(m2, r, p, n)
  <1>1. T(1) = r /\ U(1) = r /\ r \in Frame
    BY TableSteps DEF Tree
  <1>2. ASSUME NEW n \in 1 .. 4, U(n) = T(n) PROVE U(n + 1) = T(n + 1)
    <2>1. T(n + 1) = Step(m, T(n), p, n)
      BY TableSteps
    <2>2. U(n + 1) = Step(m2, T(n), p, n)
      BY <1>2, TableSteps
    <2>3. CASE T(n) = NoFrame
      BY <2>1, <2>2, <2>3 DEF Step
    <2>4. CASE T(n) # NoFrame
      <3> DEFINE a == EntryAddr(T(n), p, n)
      <3>1. /\ T(n) \in Frame
            /\ (n = 1 /\ T(n) = r) \/ (\E b \in Addr : m[b] = Pte(T(n)))
        BY <2>4, Reached
      <3>2. a \in Addr /\ FrameOf(a) = T(n)
        BY <3>1, Entries
      <3> HIDE DEF T, U
      <3>3. m2[a] = m[a]
        BY <3>1, <3>2
      <3>4. QED
        BY <2>1, <2>2, <3>3 DEF Step
    <2>5. QED
      BY <2>3, <2>4
  <1>3. m2[EntryAddr(r, p, 1)] = m[EntryAddr(r, p, 1)]
    BY <1>1, Entries
  <1> HIDE DEF T, U
  <1>4. U(1) = T(1) /\ U(2) = T(2) /\ U(3) = T(3) /\ U(4) = T(4) /\ U(5) = T(5)
    <2>1. U(1 + 1) = T(1 + 1)
      BY <1>1, <1>2
    <2>2. U(2 + 1) = T(2 + 1)
      BY <1>2, <2>1
    <2>3. U(3 + 1) = T(3 + 1)
      BY <1>2, <2>2
    <2>4. U(4 + 1) = T(4 + 1)
      BY <1>2, <2>3
    <2>5. QED
      BY <1>1, <2>1, <2>2, <2>3, <2>4
  <1>5. \A n \in 1 .. 5 : U(n) = T(n)
    <2>1. \A n \in 1 .. 5 : n = 1 \/ n = 2 \/ n = 3 \/ n = 4 \/ n = 5
      OBVIOUS
    <2>2. QED
      BY <1>4, <2>1
  <1>6. Translate(m, r, p) = IF m[EntryAddr(r, p, 1)][1] = "large" THEN p ELSE T(5)
    BY TableSteps DEF T
  <1>7. Translate(m2, r, p) = IF m2[EntryAddr(r, p, 1)][1] = "large" THEN p ELSE U(5)
    BY TableSteps DEF U
  <1>8. QED
    BY <1>3, <1>4, <1>5, <1>6, <1>7 DEF T, U

(* A new, empty table on the path of page q maps nothing.                  *)
LEMMA WalkThroughNew ==
    ASSUME NEW m, NEW r, Tree(m, r), NEW q \in Page, NEW l \in 1 .. 3,
           NEW t \in Frame, TableAt(m, r, q, l) = t,
           NEW here, here = EntryAddr(t, q, l), m[here] = Zero,
           NEW s \in Frame, s # r, \A a \in Addr : m[a] # Pte(s), s # t,
           NEW m2, TableEntered(m, m2, here, s), NEW p \in Page
    PROVE  Translate(m2, r, p) = Translate(m, r, p)
  <1> DEFINE T(n) == TableAt(m, r, p, n)
             U(n) == TableAt(m2, r, p, n)
             C(n) == U(n) = T(n) \/ (n = l + 1 /\ U(n) = s /\ T(n) = NoFrame)
  <1>1. T(1) = r /\ U(1) = r /\ r \in Frame
    BY TableSteps DEF Tree
  <1>2. /\ here \in Addr /\ FrameOf(here) = t /\ t # NoFrame /\ s # NoFrame
        /\ m2[here] = Pte(s)
        /\ \A a \in Addr : FrameOf(a) = s => m2[a] = Zero
        /\ \A a \in Addr : a # here /\ FrameOf(a) # s => m2[a] = m[a]
    <2>1. here \in Addr /\ FrameOf(here) = t
      BY Entries
    <2>2. t # NoFrame /\ s # NoFrame
      BY LoaderAssumption DEF Frame, NoFrame
    <2>3. QED
      BY <2>1, <2>2 DEF TableEntered
  <1>3. ASSUME NEW n \in 1 .. 4, C(n) PROVE C(n + 1)
    <2>1. T(n + 1) = Step(m, T(n), p, n)
      BY TableSteps
    <2>2. U(n + 1) = Step(m2, U(n), p, n)
      BY TableSteps
    <2>3. CASE U(n) = T(n) /\ T(n) = NoFrame
      BY <2>1, <2>2, <2>3 DEF Step
    <2>4. CASE U(n) = T(n) /\ T(n) # NoFrame
      <3> DEFINE a == EntryAddr(T(n), p, n)
      <3>1. /\ T(n) \in Frame
            /\ (n = 1 /\ T(n) = r) \/ (\E b \in Addr : m[b] = Pte(T(n)))
        BY <2>4, Reached
      <3>2. a \in Addr /\ FrameOf(a) = T(n) /\ T(n) # s
        BY <3>1, Entries
      <3>3. CASE a # here
        <4> HIDE DEF T, U
        <4>1. m2[a] = m[a]
          BY <1>2, <3>2, <3>3
        <4>2. QED
          BY <2>1, <2>2, <2>4, <4>1 DEF Step
      <3>4. CASE a = here
        <4>1. T(n) = TableAt(m, r, q, l)
          BY <1>2, <3>2, <3>4
        <4>2. l \in 1 .. 5 /\ n \in 1 .. 5
          OBVIOUS
        <4>3. n = l
          BY <2>4, <4>1, <4>2, UniquePath
        <4> HIDE DEF T, U
        <4>4. T(n + 1) = NoFrame
          BY <2>1, <2>4, <3>4 DEF Step, Zero
        <4>5. U(n + 1) = s
          BY <1>2, <2>2, <2>4, <3>4 DEF Step, Pte
        <4>6. QED
          BY <4>3, <4>4, <4>5
      <3>5. QED
        BY <3>3, <3>4
    <2>5. CASE n = l + 1 /\ U(n) = s /\ T(n) = NoFrame
      <3> DEFINE a == EntryAddr(s, p, n)
      <3>1. a \in Addr /\ FrameOf(a) = s
        BY Entries
      <3> HIDE DEF T, U
      <3>2. m2[a] = Zero
        BY <1>2, <3>1
      <3>3. U(n + 1) = NoFrame
        BY <1>2, <2>2, <2>5, <3>2 DEF Step, Zero
      <3>4. T(n + 1) = NoFrame
        BY <2>1, <2>5 DEF Step
      <3>5. QED
        BY <3>3, <3>4
    <2>6. QED
      BY <1>3, <2>3, <2>4, <2>5
  <1>4. U(5) = T(5)
    <2>1. C(1)
      BY <1>1
    <2> HIDE DEF C
    <2>2. C(1 + 1)
      BY <1>3, <2>1
    <2>3. C(2 + 1)
      BY <1>3, <2>2
    <2>4. C(3 + 1)
      BY <1>3, <2>3
    <2>5. C(4 + 1)
      BY <1>3, <2>4
    <2>6. QED
      BY <2>5 DEF C
  <1>5. m2[EntryAddr(r, p, 1)][1] = "large" <=> m[EntryAddr(r, p, 1)][1] = "large"
    <2>1. EntryAddr(r, p, 1) \in Addr /\ FrameOf(EntryAddr(r, p, 1)) = r
      BY <1>1, Entries
    <2>2. CASE EntryAddr(r, p, 1) = here
      BY <1>2, <2>2 DEF Zero, Pte
    <2>3. CASE EntryAddr(r, p, 1) # here
      BY <1>2, <2>1, <2>3
    <2>4. QED
      BY <2>2, <2>3
  <1>6. Translate(m, r, p) = IF m[EntryAddr(r, p, 1)][1] = "large" THEN p ELSE T(5)
    BY TableSteps DEF T
  <1>7. Translate(m2, r, p) = IF m2[EntryAddr(r, p, 1)][1] = "large" THEN p ELSE U(5)
    BY TableSteps DEF U
  <1> HIDE DEF T, U
  <1>8. QED
    BY <1>4, <1>5, <1>6, <1>7

(* An entry in the last table of page q maps q, and only q.                *)
LEMMA WalkToLeaf ==
    ASSUME NEW m, NEW r, Tree(m, r), NEW q \in Page, NEW t \in Frame, TableAt(m, r, q, 4) = t,
           NEW here, here = EntryAddr(t, q, 4), m[here] = Zero,
           NEW f \in Frame, NEW m2, m2[here] = Pte(f),
           \A a \in Addr : a # here => m2[a] = m[a], NEW p \in Page
    PROVE  /\ p # q => Translate(m2, r, p) = Translate(m, r, p)
           /\ m[EntryAddr(r, q, 1)][1] # "large" => Translate(m2, r, q) = f
           /\ m[EntryAddr(r, q, 1)][1] # "large" => Translate(m, r, q) = NoFrame
  <1>1. /\ TableAt(m, r, p, 1) = r /\ TableAt(m2, r, p, 1) = r /\ r \in Frame
        /\ TableAt(m, r, q, 1) = r /\ TableAt(m2, r, q, 1) = r
    BY TableSteps DEF Tree
  <1>2. here \in Addr /\ FrameOf(here) = t /\ t # NoFrame /\ r # NoFrame
    <2>1. here \in Addr /\ FrameOf(here) = t
      BY Entries
    <2>2. t # NoFrame /\ r # NoFrame
      BY <1>1, LoaderAssumption DEF Frame, NoFrame
    <2>3. QED
      BY <2>1, <2>2
  <1>3. m2[here] = Pte(f) /\ \A a \in Addr : a # here => m2[a] = m[a]
    OBVIOUS
  <1>4. ASSUME NEW x \in Page, NEW n \in 1 .. 4, TableAt(m2, r, x, n) = TableAt(m, r, x, n),
               x # q \/ n # 4
        PROVE  TableAt(m2, r, x, n + 1) = TableAt(m, r, x, n + 1)
    <2> DEFINE u == TableAt(m, r, x, n)
               a == EntryAddr(u, x, n)
    <2>1. TableAt(m, r, x, n + 1) = Step(m, u, x, n)
      BY TableSteps
    <2>2. TableAt(m2, r, x, n + 1) = Step(m2, u, x, n)
      BY <1>4, TableSteps
    <2>3. CASE u = NoFrame
      BY <2>1, <2>2, <2>3 DEF Step
    <2>4. CASE u # NoFrame
      <3>1. u \in Frame /\ n \in 1 .. 5
        BY <2>4, Reached
      <3>2. /\ a \in Addr /\ FrameOf(a) = u /\ a = u * Fan + Index(x, n) /\ Index(x, n) \in 0 .. Fan - 1
        BY <3>1, Entries
      <3>3. a # here
        <4> SUFFICES ASSUME a = here PROVE FALSE
          OBVIOUS
        <4>1. u = TableAt(m, r, q, 4) /\ u = t
          BY <1>2, <3>2
        <4>2. 4 \in 1 .. 5
          OBVIOUS
        <4>3. 4 = n /\ Prefix(x, n) = Prefix(q, n)
          BY <2>4, <3>1, <4>1, <4>2, UniquePath
        <4>4. /\ here = t * Fan + Index(q, 4) /\ Index(q, 4) \in 0 .. Fan - 1 /\ t \in Nat
          BY Entries, LoaderAssumption DEF Frame
        <4>5. Index(x, 4) = Index(q, 4)
          <5>1. t * Fan + Index(x, 4) = t * Fan + Index(q, 4) /\ Index(x, 4) \in 0 .. Fan - 1
            BY <3>2, <4>1, <4>3, <4>4
          <5>2. QED
            BY ONLY <4>4, <5>1, SameEntry
        <4>6. x \in Nat /\ q \in Nat
          BY PrefixBound
        <4>7. Prefix(x, 4 + 1) = Prefix(x, 4) * Fan + Index(x, 4)
          BY <4>6, Digits
        <4>8. Prefix(q, 4 + 1) = Prefix(q, 4) * Fan + Index(q, 4)
          BY <4>6, Digits
        <4>9. Prefix(x, 5) = Prefix(q, 5)
          BY <4>3, <4>5, <4>7, <4>8
        <4>10. x = q
          BY <4>9 DEF Prefix
        <4>11. QED
          BY <1>4, <4>3, <4>10
      <3> HIDE DEF u
      <3>4. QED
        BY <1>3, <2>1, <2>2, <3>2, <3>3 DEF Step
    <2>5. QED
      BY <2>3, <2>4
  <1>5. ASSUME NEW x \in Page
        PROVE  /\ TableAt(m2, r, x, 4) = TableAt(m, r, x, 4)
               /\ x # q => TableAt(m2, r, x, 5) = TableAt(m, r, x, 5)
    <2> DEFINE C(n) == TableAt(m2, r, x, n) = TableAt(m, r, x, n)
    <2>1. C(1)
      BY TableSteps
    <2>2. \A n \in 1 .. 4 : C(n) /\ (x # q \/ n # 4) => C(n + 1)
      BY <1>4
    <2> HIDE DEF C
    <2>3. C(1 + 1)
      BY <2>1, <2>2
    <2>4. C(2 + 1)
      BY <2>2, <2>3
    <2>5. C(3 + 1)
      BY <2>2, <2>4
    <2>6. x # q => C(4 + 1)
      BY <2>2, <2>5
    <2>7. QED
      BY <2>5, <2>6 DEF C
  <1>6. m[EntryAddr(r, p, 1)] = m2[EntryAddr(r, p, 1)] /\ m[EntryAddr(r, q, 1)] = m2[EntryAddr(r, q, 1)]
    <2>1. r # t
      <3> SUFFICES ASSUME r = t PROVE FALSE
        OBVIOUS
      <3>1. TableAt(m, r, p, 1) = TableAt(m, r, q, 4) /\ TableAt(m, r, p, 1) # NoFrame
            /\ 1 \in 1 .. 5 /\ 4 \in 1 .. 5
        BY <1>1, <1>2
      <3>2. 4 = 1
        BY <3>1, UniquePath
      <3>3. QED
        BY <3>2
    <2>2. EntryAddr(r, p, 1) \in Addr /\ FrameOf(EntryAddr(r, p, 1)) = r
      BY <1>1, Entries
    <2>3. EntryAddr(r, q, 1) \in Addr /\ FrameOf(EntryAddr(r, q, 1)) = r
      BY <1>1, Entries
    <2>4. QED
      BY <1>2, <1>3, <2>1, <2>2, <2>3
  <1>7. TableAt(m2, r, q, 5) = f /\ TableAt(m, r, q, 5) = NoFrame
    <2>1. TableAt(m2, r, q, 4) = t
      BY <1>5
    <2>2. TableAt(m2, r, q, 4 + 1) = Step(m2, t, q, 4)
      BY <2>1, TableSteps
    <2>3. TableAt(m, r, q, 4 + 1) = Step(m, t, q, 4)
      BY TableSteps
    <2>4. Step(m2, t, q, 4) = f
      BY <1>2, <1>3 DEF Step, Pte
    <2>5. Step(m, t, q, 4) = NoFrame
      BY <1>2 DEF Step, Zero
    <2>6. QED
      BY <2>2, <2>3, <2>4, <2>5
  <1>8. Translate(m, r, p) = IF m[EntryAddr(r, p, 1)][1] = "large" THEN p ELSE TableAt(m, r, p, 5)
    BY ONLY TableSteps
  <1>9. Translate(m2, r, p) = IF m2[EntryAddr(r, p, 1)][1] = "large" THEN p ELSE TableAt(m2, r, p, 5)
    BY ONLY TableSteps
  <1>10. Translate(m2, r, q) = IF m2[EntryAddr(r, q, 1)][1] = "large" THEN q ELSE TableAt(m2, r, q, 5)
    BY ONLY TableSteps
  <1>11. Translate(m, r, q) = IF m[EntryAddr(r, q, 1)][1] = "large" THEN q ELSE TableAt(m, r, q, 5)
    BY ONLY TableSteps
  <1>12. QED
    BY <1>5, <1>6, <1>7, <1>8, <1>9, <1>10, <1>11
-----------------------------------------------------------------------------
(* The invariant of a pass in which nothing has gone wrong.                *)
FileBuffer == elf .. elf + FileFrames - 1

(* What the loader relies on, if nothing went wrong, of the words in       *)
(* memory: the frames nobody has and the file are as they were, and an     *)
(* entry is one of the loader's that leads to a frame of the loader's.     *)
WordsInv ==
    /\ \A a \in Addr : mem[a][1] # "np"
    /\ \A a \in Addr : owner[FrameOf(a)] = "free" => mem[a] = <<"junk", 0>>
    /\ \A a \in Addr : FrameOf(a) \in FileBuffer =>
           mem[a] = <<"elf", a - elf * Fan>> \/ (a = elf * Fan /\ mem[a] = <<"junk", 0>>)
    /\ \A a \in Addr, f \in Frame : mem[a] = Pte(f) =>
           step # "pml4" /\ owner[FrameOf(a)] = "loader" /\ owner[f] = "loader" /\ f \notin FileBuffer

(* The PML4 in use: the firmware's lower half, and entries of the loader.  *)
RootInv ==
    /\ \A j \in 0 .. (Fan \div 2) - 1 : mem[cr3 * Fan + j] = <<"large", 0>>
    /\ \A j \in (Fan \div 2) .. Fan - 1 : mem[cr3 * Fan + j][1] # "large"
    /\ step # "pml4" => OwnTables /\ cr3 \notin FileBuffer

(* The frames of the segment that are not mapped yet.                      *)
Pending == IF step = "walk" THEN addr .. addr + (PageEnd(segment) - page)
           ELSE IF step = "test" THEN addr + 1 .. addr + (PageEnd(segment) - page)
           ELSE {}

PendingInv == \A f \in Pending : f \notin FileBuffer /\ f # cr3 /\ \A a \in Addr : mem[a] # Pte(f)

(* The words of frame f are those of page p of segment h.                  *)
ImageOf(h, p, f) ==
    \A j \in 0 .. Fan - 1 :
        LET b == (p - PageStart(h)) * Fan + j
            skip == h.offset % Fan
        IN  /\ skip <= b /\ b < skip + h.filesz /\ h.offset + (b - skip) > 0
                  => mem[f * Fan + j] = <<"elf", h.offset + (b - skip)>>
            /\ skip + h.filesz <= b /\ b < skip + h.memsz => mem[f * Fan + j] = Zero

Loaded(k, p) == \E f \in Frame : <<p, f>> \in claimed /\ ImageOf(headers[k], p, f)

LoadedInv ==
    /\ \A k \in 1 .. seg : IsLoad(headers[k]) =>
           /\ PageStart(headers[k]) <= PageEnd(headers[k])
           /\ \A p \in PageStart(headers[k]) .. PageEnd(headers[k]) : Loaded(k, p)
    /\ step \in {"walk", "test"} =>
           /\ \A p \in PageStart(segment) .. page - 1 : Loaded(seg + 1, p)
           /\ \A p \in page .. PageEnd(segment) : ImageOf(segment, p, addr + (p - page))
    /\ step = "test" => <<page, addr>> \in claimed

Claims == claimed = {<<p, Vmap[p]>> : p \in {q \in KernelPages : Vmap[q] # NoFrame}}

Intact == WordsInv /\ Tree(mem, cr3) /\ RootInv /\ PendingInv /\ LoadedInv /\ Claims

(* While nothing has gone wrong, the mapping is intact, and no page of it  *)
(* faults.                                                                 *)
SoundInv == Sound => Intact /\ step # "fault"

FaultInv == trouble = {} /\ step = "wild" =>
                \/ map[1] = elf
                \/ level = 1 /\ page \notin KernelPages
                \/ mem[Here] = Zero /\ map[level + 1] = NoFrame

EnteredInv == step = "entered" => ~HasSegment

MapInv == WalkInv /\ SoundInv /\ FaultInv /\ EnteredInv

-----------------------------------------------------------------------------
(* The tree of tables, kept and grown.                                     *)
LEMMA TreeKept ==
    ASSUME NEW m, NEW r, Tree(m, r), NEW m2 \in [Addr -> Word],
           \A a \in Addr, f \in Frame : m2[a] = Pte(f) => m[a] = Pte(f)
    PROVE  Tree(m2, r)
  BY DEF Tree

LEMMA TreeGrown ==
    ASSUME NEW m, NEW r, Tree(m, r), NEW m2 \in [Addr -> Word], NEW here, NEW s \in Frame,
           s # r, \A a \in Addr : m[a] # Pte(s),
           \A a \in Addr, f \in Frame : m2[a] = Pte(f) => m[a] = Pte(f) \/ (a = here /\ f = s)
    PROVE  Tree(m2, r)
  <1>1. /\ r \in Frame /\ \A a \in Addr : m[a] # Pte(r)
        /\ \A a, b \in Addr, f \in Frame : m[a] = Pte(f) /\ m[b] = Pte(f) => a = b
    BY DEF Tree
  <1>2. \A a \in Addr : m2[a] # Pte(r)
    BY <1>1
  <1>3. ASSUME NEW a \in Addr, NEW b \in Addr, NEW f \in Frame, m2[a] = Pte(f), m2[b] = Pte(f)
        PROVE  a = b
    <2>1. (m[a] = Pte(f) \/ (a = here /\ f = s)) /\ (m[b] = Pte(f) \/ (b = here /\ f = s))
      BY <1>3
    <2>2. QED
      BY <1>1, <2>1
  <1>4. QED
    BY <1>1, <1>2, <1>3 DEF Tree

(* A step out of trouble has been out of trouble before.                   *)
LEMMA SoundBefore ==
    ASSUME WalkInv, [Next]_vars, Sound'
    PROVE  Sound /\ trouble' = {} /\ step' # "wild"
  <1>1. /\ BaseInv /\ (UNCHANGED loadVars \/ LoadNext) /\ trouble' = {} /\ step' # "wild"
    BY PlanKept DEF WalkInv, Sound
  <1>2. CASE UNCHANGED loadVars
    BY <1>1, <1>2 DEF loadVars, Sound
  <1>3. CASE NewPml4
    BY <1>1, <1>3 DEF BaseInv, Started, NewPml4, Sound
  <1>4. CASE LoadSegment
    <2>1. step # "wild"
      BY <1>4 DEF LoadSegment
    <2>2. trouble \subseteq trouble'
      BY <1>4 DEF LoadSegment
    <2>3. QED
      BY <1>1, <2>1, <2>2 DEF Sound
  <1>5. CASE NewTableFails
    <2>1. step # "wild" /\ trouble \subseteq trouble'
      BY <1>5 DEF NewTableFails
    <2>2. QED
      BY <1>1, <2>1 DEF Sound
  <1>6. CASE LoadNext /\ ~NewPml4 /\ ~LoadSegment /\ ~NewTableFails
    <2>1. trouble' = trouble /\ step # "wild"
      BY <1>6 DEF LoadNext, NewPml4Fails, SkipSegment, LoadSegmentFails, NewTable, FollowTable,
                  SetLeaf, TestMapping, TestFaults, EnterKernel
    <2>2. QED
      BY <1>1, <2>1 DEF Sound
  <1>7. QED
    BY <1>1, <1>2, <1>3, <1>4, <1>5, <1>6

(* A page that is mapped by a claim.                                       *)
LEMMA ClaimFacts ==
    ASSUME WalkInv, Intact, NEW p, NEW f, <<p, f>> \in claimed, step # "pml4"
    PROVE  /\ p \in KernelPages /\ p \in Page /\ f \in Frame /\ f # NoFrame
           /\ f = Translate(mem, cr3, p) /\ f = TableAt(mem, cr3, p, 5)
           /\ owner[f] = "loader" /\ f \notin FileBuffer /\ f # cr3
           /\ \E a \in Addr : mem[a] = Pte(f)
  <1>1. /\ Tree(mem, cr3) /\ WordsInv /\ RootInv /\ cr3 \in Frame
        /\ claimed \subseteq Page \X Frame
    BY DEF Intact, WalkInv, BaseInv, LoaderTypeOK
  <1>2. p \in KernelPages /\ f = Vmap[p] /\ p \in Page /\ f \in Frame
    <2>1. PICK q \in KernelPages : <<p, f>> = <<q, Vmap[q]>>
      BY DEF Intact, Claims
    <2>2. QED
      BY <1>1, <2>1 DEF KernelPages
  <1>3. f = Translate(mem, cr3, p)
    BY <1>2 DEF Vmap
  <1>4. f # NoFrame
    BY <1>2, LoaderAssumption DEF Frame, NoFrame
  <1>5. mem[EntryAddr(cr3, p, 1)][1] # "large"
    <2>1. EntryAddr(cr3, p, 1) = cr3 * Fan + Index(p, 1) /\ Index(p, 1) \in 0 .. Fan - 1
      BY <1>1, <1>2, Entries
    <2>2. Index(p, 1) \in (Fan \div 2) .. Fan - 1
      BY <1>2, <2>1, Fans DEF KernelPages
    <2>3. QED
      BY <1>1, <2>1, <2>2 DEF RootInv
  <1>6. f = TableAt(mem, cr3, p, 5)
    BY <1>3, <1>5, TableSteps
  <1>7. \E a \in Addr : mem[a] = Pte(f)
    <2>1. 5 \in 1 .. 5 /\ 5 # 1 /\ TableAt(mem, cr3, p, 5) # NoFrame
      BY <1>4, <1>6
    <2>2. /\ EntryAddr(TableAt(mem, cr3, p, 4), p, 4) \in Addr
          /\ mem[EntryAddr(TableAt(mem, cr3, p, 4), p, 4)] = Pte(TableAt(mem, cr3, p, 5))
      <3>1. 5 - 1 = 4
        OBVIOUS
      <3>2. QED
        BY <1>1, <1>2, <2>1, <3>1, Reached
    <2>3. QED
      BY <1>6, <2>2
  <1>8. owner[f] = "loader" /\ f \notin FileBuffer
    BY <1>1, <1>2, <1>7 DEF WordsInv
  <1>9. f # cr3
    BY <1>1, <1>7 DEF Tree
  <1>10. QED
    BY <1>2, <1>3, <1>4, <1>6, <1>7, <1>8, <1>9

(* The walk of the processor arrives where the loader's pointers are.      *)
LEMMA WalkedTo ==
    ASSUME WalkInv, Intact, step = "walk", NEW p, p = page, NEW n, n = level, p \in KernelPages
    PROVE  TableAt(mem, cr3, p, n) = map[n]
  <1>1. /\ p \in Page /\ p \in Nat /\ n \in 1 .. 4 /\ cr3 = map[1] /\ mem \in [Addr -> Word]
        /\ WordsInv
    BY PageFacts DEF WalkInv, BaseInv, Started, Intact
  <1>2. \A l \in 1 .. n - 1 : Leads(l, p)
    <2>1. CASE Fresh(page, level)
      BY <2>1 DEF Fresh, PathTo
    <2>2. CASE Following(page, level)
      <3>1. PICK q \in KernelPages : q < page /\ Prefix(q, level) = Prefix(page, level) /\ Walked(q)
        BY <2>2 DEF Following
      <3>2. q \in Nat /\ n \in 1 .. 5
        BY <1>1, PrefixBound DEF KernelPages
      <3>3. \A l \in 1 .. n - 1 : Index(q, l) = Index(p, l)
        BY <1>1, <3>1, <3>2, PrefixShared
      <3>4. \A l \in 1 .. n - 1 : l \in 1 .. 3
        BY <1>1
      <3>5. \A l \in 1 .. 3 : Leads(l, q)
        BY <3>1 DEF Walked, PathTo
      <3>6. QED
        BY <3>3, <3>4, <3>5 DEF Leads
    <2>3. QED
      BY <2>1, <2>2 DEF WalkInv, PathInv
  <1>3. ASSUME NEW l \in 1 .. 3, Leads(l, p), TableAt(mem, cr3, p, l) = map[l]
        PROVE  TableAt(mem, cr3, p, l + 1) = map[l + 1]
    <2> DEFINE a == map[l] * Fan + Index(p, l)
    <2>1. map[l] \in Frame /\ map[l + 1] \in Frame /\ mem[a][1] \in {"pte", "np"} /\ mem[a][2] = map[l + 1]
      BY <1>3 DEF Leads, Slot
    <2>2. a \in Addr /\ EntryAddr(map[l], p, l) = a
      BY <1>1, <2>1, Entries
    <2>3. mem[a][1] = "pte"
      BY <1>1, <2>1, <2>2 DEF WordsInv
    <2>4. TableAt(mem, cr3, p, l + 1) = Step(mem, map[l], p, l)
      BY <1>3, TableSteps
    <2>5. map[l] # NoFrame
      BY <2>1, LoaderAssumption DEF Frame, NoFrame
    <2> HIDE DEF a
    <2>6. QED
      BY <2>1, <2>2, <2>3, <2>4, <2>5 DEF Step
  <1> DEFINE C(l) == TableAt(mem, cr3, p, l) = map[l]
  <1>4. C(1)
    BY <1>1, TableSteps
  <1>5. \A l \in 1 .. 3 : l < n /\ C(l) => C(l + 1)
    <2> SUFFICES ASSUME NEW l \in 1 .. 3, l < n, C(l) PROVE C(l + 1)
      OBVIOUS
    <2>1. Leads(l, p)
      BY <1>1, <1>2
    <2>2. QED
      BY <1>3, <2>1
  <1> HIDE DEF C
  <1>6. C(n)
    <2>1. n > 1 => C(2)
      BY <1>1, <1>4, <1>5
    <2>2. n > 2 => C(3)
      BY <1>1, <2>1, <1>5
    <2>3. n > 3 => C(4)
      BY <1>1, <2>2, <1>5
    <2>4. n = 1 \/ n = 2 \/ n = 3 \/ n = 4
      BY <1>1
    <2>5. QED
      BY <1>1, <1>4, <2>1, <2>2, <2>3, <2>4
  <1>7. QED
    BY <1>6 DEF C

(* The root's entry for a page of the kernel is none of the firmware's     *)
(* large ones.                                                             *)
LEMMA KernelEntry ==
    ASSUME WalkInv, Intact, NEW p \in KernelPages
    PROVE  mem[EntryAddr(cr3, p, 1)][1] # "large"
  <1>1. cr3 \in Frame /\ p \in Page /\ Index(p, 1) >= Fan \div 2
    BY DEF WalkInv, BaseInv, LoaderTypeOK, KernelPages
  <1>2. EntryAddr(cr3, p, 1) = cr3 * Fan + Index(p, 1) /\ Index(p, 1) \in 0 .. Fan - 1
    BY <1>1, Entries
  <1>3. Index(p, 1) \in (Fan \div 2) .. Fan - 1
    BY <1>1, <1>2, Fans
  <1>4. QED
    BY <1>2, <1>3 DEF Intact, RootInv

(* A step that writes nothing and claims nothing leaves the mapping as it  *)
(* is.                                                                     *)
LEMMA StillMapped ==
    ASSUME Intact, step # "pml4", step' # "pml4", UNCHANGED <<mem, owner, elf, cr3, map, claimed>>
    PROVE  WordsInv' /\ Tree(mem, cr3)' /\ RootInv' /\ Claims'
  <1>1. WordsInv'
    BY DEF Intact, WordsInv, FileBuffer
  <1>2. Tree(mem, cr3)'
    BY DEF Intact, Tree
  <1>3. RootInv'
    BY DEF Intact, RootInv, OwnTables, FileBuffer
  <1>4. Claims'
    BY DEF Intact, Claims, Vmap
  <1>5. QED
    BY <1>1, <1>2, <1>3, <1>4

LEMMA StillPending ==
    ASSUME Intact, Pending' \subseteq Pending, UNCHANGED <<mem, elf, cr3>>
    PROVE  PendingInv'
  BY DEF Intact, PendingInv, FileBuffer

(* Pages that are loaded stay so while their frames' words and the claims  *)
(* do.                                                                     *)
LEMMA StillLoaded ==
    ASSUME headers' = headers, claimed \subseteq claimed', NEW k, NEW p, Loaded(k, p),
           \A f \in Frame : <<p, f>> \in claimed => \A j \in 0 .. Fan - 1 :
                                                      mem'[f * Fan + j] = mem[f * Fan + j]
    PROVE  Loaded(k, p)'
  <1>1. PICK f \in Frame : <<p, f>> \in claimed /\ ImageOf(headers[k], p, f)
    BY DEF Loaded
  <1>2. ImageOf(headers[k], p, f)'
    BY <1>1 DEF ImageOf
  <1>3. QED
    BY <1>1, <1>2 DEF Loaded

-----------------------------------------------------------------------------
(* Steps that write nothing.                                               *)

(* The kernel's entry lies in the first segment there is to load.          *)
LEMMA FirstLoadIs ==
    ASSUME PlanInv
    PROVE  FirstLoad \in 1 .. Len(headers) /\ IsLoad(headers[FirstLoad])
  <1> DEFINE S == {k \in 1 .. Len(headers) : IsLoad(headers[k])}
             R == OpToRel(<, Nat)
  <1>1. S \subseteq Nat /\ S # {}
    <2>1. \E k \in 1 .. Len(headers) : IsLoad(headers[k])
      BY FilesAssumption DEF PlanInv
    <2>2. QED
      BY <2>1
  <1>2. PICK m \in S : \A k \in S : ~ (<<k, m>> \in R)
    <2> HIDE DEF S, R
    <2>1. IsWellFoundedOn(R, Nat)
      BY NatLessThanWellFounded DEF R
    <2>2. QED
      BY <1>1, <2>1, WFMin
  <1>3. \A k \in S : ~ (k < m)
    BY <1>1, <1>2 DEF OpToRel
  <1>4. Len(headers) \in Nat /\ m \in 1 .. Len(headers) /\ IsLoad(headers[m])
    <2>1. m \in S
      BY <1>2
    <2>2. QED
      BY <2>1 DEF PlanInv, PlanTypeOK
  <1>5. \A j \in 1 .. m - 1 : ~IsLoad(headers[j])
    <2> SUFFICES ASSUME NEW j \in 1 .. m - 1, IsLoad(headers[j]) PROVE FALSE
      OBVIOUS
    <2>1. j \in S /\ j < m
      BY <1>4
    <2>2. QED
      BY <1>3, <2>1
  <1>6. QED
    BY <1>4, <1>5 DEF FirstLoad

(* Following an entry is a step of the loader's own walk, unless the page  *)
(* is one of the firmware's half.                                          *)
LEMMA FollowsOwn ==
    ASSUME WalkInv, Intact, FollowTable
    PROVE  \/ step' = "wild" /\ level' = level /\ level = 1 /\ page' = page /\ page \notin KernelPages
           \/ map' = map /\ step' = step /\ level' = level + 1
  <1>1. /\ step = "walk" /\ level < 4 /\ mem[Here] # Zero /\ BaseInv
      BY DEF FollowTable, WalkInv
  <1>2. CASE page \in KernelPages
    <2>1. mem[Here][1] \in {"pte", "np"} /\ mem[Here][2] = map[level + 1]
      BY <1>1, <1>2, UsedIsFollowed
    <2>2. map \in [1 .. 4 -> Frame \cup {NoFrame}] /\ level + 1 \in 1 .. 4
      BY <1>1, PageFacts
    <2>3. [map EXCEPT ![level + 1] = map[level + 1]] = map
      BY <2>2
    <2>4. QED
      BY <2>1, <2>3 DEF FollowTable
  <1>3. CASE page \notin KernelPages
    <2>1. OwnTables /\ cr3 = map[1] /\ LowerHalf
      BY <1>1 DEF Intact, RootInv, WalkInv, PathInv, BaseInv, Started
    <2>2. ~Astray
      <3> SUFFICES ASSUME Astray PROVE FALSE
        OBVIOUS
      <3>1. map[2] = 0 /\ 0 # NoFrame
        BY DEF Astray, NoFrame
      <3>2. owner[0] = "loader"
        BY <2>1, <3>1 DEF OwnTables
      <3>3. owner[0] = "fw"
        BY <1>1, LoaderAssumption DEF BaseInv, OwnersInv
      <3>4. QED
        BY <3>2, <3>3
    <2>3. level = 1
      BY <1>1, <1>3, <2>2 DEF WalkInv, PathInv
    <2>4. Here = (map[1] * Fan) + Index(page, 1) /\ Index(page, 1) \in 0 .. Fan - 1 /\ page \in Page
      BY <1>1, <2>3, HereIs, PageFacts
    <2>5. Index(page, 1) \in 0 .. (Fan \div 2) - 1
      BY <1>3, <2>4, Fans DEF KernelPages
    <2>6. mem[Here] = <<"large", 0>>
      BY <2>1, <2>4, <2>5 DEF Intact, RootInv
    <2>7. QED
      BY <1>3, <2>3, <2>6 DEF FollowTable
  <1>4. QED
    BY <1>2, <1>3

LEMMA QuietSteps ==
    ASSUME WalkInv, Intact, step # "fault", step # "pml4", [Next]_vars, step' # "wild",
           \/ UNCHANGED loadVars \/ SkipSegment \/ LoadSegmentFails \/ FollowTable
           \/ TestMapping \/ TestFaults \/ EnterKernel
    PROVE  Intact' /\ step' # "fault" /\ Vmap' = Vmap
  <1>1. /\ BaseInv /\ headers' = headers /\ LoadedInv /\ seg \in 0 .. Len(headers) /\ Len(headers) \in Nat
        /\ cr3 = map[1]
    BY PlanKept DEF WalkInv, BaseInv, PlanInv, PlanTypeOK, Intact, Started
  <1>2. step' # "pml4" /\ UNCHANGED <<mem, owner, elf, cr3, map, claimed>>
    <2>1. CASE FollowTable
      <3>1. map' = map
        BY <2>1, FollowsOwn
      <3>2. QED
        BY <2>1, <3>1 DEF FollowTable
    <2>2. CASE EnterKernel
      BY <1>1, <2>2 DEF EnterKernel
    <2>3. CASE UNCHANGED loadVars \/ SkipSegment \/ LoadSegmentFails \/ TestMapping \/ TestFaults
      BY <2>3 DEF loadVars, SkipSegment, LoadSegmentFails, TestMapping, TestFaults
    <2>4. QED
      BY <2>1, <2>2, <2>3
  <1>3. WordsInv' /\ Tree(mem, cr3)' /\ RootInv' /\ Claims'
    BY <1>2, StillMapped
  <1>4. /\ \A k, p : Loaded(k, p) => Loaded(k, p)'
        /\ \A h, p, f : ImageOf(h, p, f) => ImageOf(h, p, f)'
    <2>1. \A h, p, f : ImageOf(h, p, f) => ImageOf(h, p, f)'
      <3> SUFFICES ASSUME NEW h, NEW p, NEW f, ImageOf(h, p, f) PROVE ImageOf(h, p, f)'
        OBVIOUS
      <3>1. QED
        BY <1>2 DEF ImageOf
    <2>2. \A k, p : Loaded(k, p) => Loaded(k, p)'
      <3> SUFFICES ASSUME NEW k, NEW p, Loaded(k, p) PROVE Loaded(k, p)'
        OBVIOUS
      <3>1. PICK f \in Frame : <<p, f>> \in claimed /\ ImageOf(headers[k], p, f)
        BY DEF Loaded
      <3>2. PICK h : h = headers[k]
        OBVIOUS
      <3>3. ImageOf(h, p, f)'
        BY <2>1, <3>1, <3>2
      <3>4. ImageOf(headers[k], p, f)'
        BY <1>1, <3>2, <3>3 DEF ImageOf
      <3>5. QED
        BY <1>2, <3>1, <3>4 DEF Loaded
    <2>3. QED
      BY <2>1, <2>2
  <1> SUFFICES PendingInv' /\ LoadedInv' /\ step' # "fault"
    <2>1. Vmap' = Vmap
      BY <1>2 DEF Vmap
    <2>2. QED
      BY <1>3, <2>1 DEF Intact
  <1>5. ASSUME Pending' = Pending, seg' = seg, page' = page, addr' = addr, step' = step
        PROVE  PendingInv' /\ LoadedInv'
    <2>1. PendingInv'
      BY <1>2, <1>5, StillPending
    <2>2. LoadedInv'
      BY <1>1, <1>2, <1>4, <1>5 DEF LoadedInv, segment
    <2>3. QED
      BY <2>1, <2>2
  <1>6. ASSUME step' \notin {"walk", "test"}, seg' = seg PROVE PendingInv' /\ LoadedInv'
    <2>1. PendingInv'
      BY <1>2, <1>6, StillPending DEF Pending
    <2>2. LoadedInv'
      BY <1>1, <1>4, <1>6 DEF LoadedInv
    <2>3. QED
      BY <2>1, <2>2
  <1>7. CASE UNCHANGED loadVars
    <2>1. seg' = seg /\ page' = page /\ addr' = addr /\ step' = step
      BY <1>7 DEF loadVars
    <2>2. QED
      BY <1>1, <1>5, <2>1 DEF Pending, segment
  <1>8. CASE SkipSegment
    <2>1. /\ seg' = seg + 1 /\ step' = "segment" /\ ~IsLoad(headers[seg + 1])
      BY <1>8 DEF SkipSegment, IsLoad, segment
    <2>2. PendingInv'
      BY <1>2, <2>1, StillPending DEF Pending
    <2>3. LoadedInv'
      <3>1. \A k \in 1 .. seg + 1 : k \in 1 .. seg \/ k = seg + 1
        BY <1>1
      <3>2. QED
        BY <1>1, <1>4, <2>1, <3>1 DEF LoadedInv
    <2>4. QED
      BY <2>1, <2>2, <2>3
  <1>9. CASE LoadSegmentFails
    <2>1. step' = "error" /\ seg' = seg
      BY <1>9 DEF LoadSegmentFails
    <2>2. QED
      BY <1>6, <2>1
  <1>10. CASE FollowTable
    <2>1. step' = step /\ step = "walk" /\ seg' = seg /\ page' = page /\ addr' = addr
      BY <1>10, FollowsOwn DEF FollowTable
    <2>2. QED
      BY <1>1, <1>5, <2>1 DEF Pending, segment
  <1>11. CASE TestMapping
    <2>1. /\ seg + 1 \in 1 .. Len(headers) /\ IsLoad(headers[seg + 1]) /\ step = "test"
          /\ segment = headers[seg + 1]
      BY <1>1, <1>11 DEF TestMapping, BaseInv, OnSegment, segment
    <2> DEFINE h == headers[seg + 1]
    <2>2. /\ PageStart(h) \in Nat /\ PageEnd(h) \in Nat /\ page \in PageStart(h) .. PageEnd(h)
          /\ addr \in Frame /\ addr \in Nat
      <3>1. PageStart(h) \in Nat /\ PageEnd(h) \in Nat
        BY <1>1, <2>1, SegmentFacts DEF BaseInv
      <3>2. page \in PageStart(h) .. PageEnd(h) /\ addr \in Frame
        BY <1>1, <2>1 DEF BaseInv, OnSegment, LoaderTypeOK
      <3>3. QED
        BY <3>1, <3>2, LoaderAssumption DEF Frame
    <2>3. /\ \A p \in PageStart(h) .. page - 1 : Loaded(seg + 1, p)
          /\ \A p \in page .. PageEnd(h) : ImageOf(h, p, addr + (p - page))
          /\ <<page, addr>> \in claimed
      BY <1>1, <2>1 DEF LoadedInv
    <2>4. Loaded(seg + 1, page)
      <3>1. ImageOf(h, page, addr + (page - page)) /\ addr + (page - page) = addr
        BY <2>2, <2>3
      <3>2. QED
        BY <2>2, <2>3, <3>1 DEF Loaded
    <2>5. CASE page < PageEnd(h)
      <3>1. page' = page + 1 /\ addr' = addr + 1 /\ step' = "walk" /\ seg' = seg
        BY <1>11, <2>1, <2>5 DEF TestMapping
      <3>2. segment' = h
        BY <1>1, <3>1 DEF segment
      <3>3. PendingInv'
        <4>1. Pending' = (addr + 1) .. (addr + 1) + (PageEnd(h) - (page + 1))
          BY <3>1, <3>2 DEF Pending
        <4>2. Pending = addr + 1 .. addr + (PageEnd(h) - page)
          BY <2>1 DEF Pending
        <4>3. Pending' = Pending
          BY <2>2, <4>1, <4>2
        <4>4. QED
          BY <1>2, <4>3, StillPending
      <3>4. \A p \in PageStart(h) .. (page + 1) - 1 : Loaded(seg + 1, p)
        <4>1. \A p \in PageStart(h) .. (page + 1) - 1 : p \in PageStart(h) .. page - 1 \/ p = page
          BY <2>2
        <4>2. QED
          BY <2>3, <2>4, <4>1
      <3>5. \A p \in page + 1 .. PageEnd(h) : ImageOf(h, p, (addr + 1) + (p - (page + 1)))
        <4> SUFFICES ASSUME NEW p \in page + 1 .. PageEnd(h)
                     PROVE  ImageOf(h, p, (addr + 1) + (p - (page + 1)))
          OBVIOUS
        <4>1. p \in page .. PageEnd(h) /\ (addr + 1) + (p - (page + 1)) = addr + (p - page)
          BY <2>2
        <4>2. QED
          BY <2>3, <4>1
      <3>6. LoadedInv'
        BY <1>1, <1>4, <3>1, <3>2, <3>4, <3>5 DEF LoadedInv
      <3>7. QED
        BY <3>1, <3>3, <3>6
    <2>6. CASE ~(page < PageEnd(h))
      <3>1. step' = "segment" /\ seg' = seg + 1
        BY <1>11, <2>1, <2>6 DEF TestMapping
      <3>2. PendingInv'
        BY <1>2, <3>1, StillPending DEF Pending
      <3>3. \A p \in PageStart(h) .. PageEnd(h) : Loaded(seg + 1, p)
        <4>1. \A p \in PageStart(h) .. PageEnd(h) : p \in PageStart(h) .. page - 1 \/ p = page
          BY <2>2, <2>6
        <4>2. QED
          BY <2>3, <2>4, <4>1
      <3>4. PageStart(h) <= PageEnd(h)
        BY <2>2
      <3>5. \A k \in 1 .. seg + 1 : k \in 1 .. seg \/ k = seg + 1
        BY <1>1
      <3>6. LoadedInv'
        BY <1>1, <1>4, <3>1, <3>3, <3>4, <3>5 DEF LoadedInv
      <3>7. QED
        BY <3>1, <3>2, <3>6
    <2>7. QED
      BY <2>5, <2>6
  <1>12. ~TestFaults
    <2> SUFFICES ASSUME TestFaults PROVE FALSE
      OBVIOUS
    <2>1. <<page, addr>> \in claimed /\ Translate(mem, cr3, page) = NoFrame
      BY <1>1 DEF TestFaults, LoadedInv
    <2>2. QED
      BY <2>1, ClaimFacts
  <1>13. CASE EnterKernel
    <2>1. seg = Len(headers) /\ seg' = seg
      BY <1>1, <1>13 DEF EnterKernel, HasSegment
    <2>2. FirstLoad \in 1 .. seg /\ IsLoad(headers[FirstLoad])
      BY <1>1, <2>1, FirstLoadIs DEF BaseInv
    <2> DEFINE h == headers[FirstLoad]
    <2>3. PageStart(h) \in Nat /\ PageEnd(h) \in Nat
      BY <1>1, <2>1, <2>2, SegmentFacts DEF BaseInv
    <2>4. Loaded(FirstLoad, PageStart(h))
      <3>1. /\ PageStart(h) <= PageEnd(h)
            /\ \A p \in PageStart(h) .. PageEnd(h) : Loaded(FirstLoad, p)
        BY <1>1, <2>2 DEF LoadedInv
      <3>2. QED
        BY <2>3, <3>1
    <2>5. PICK f \in Frame : <<PageStart(h), f>> \in claimed
      BY <2>4 DEF Loaded
    <2>6. Translate(mem, cr3, PageStart(h)) # NoFrame
      BY <2>5, ClaimFacts
    <2>7. step' = "entered"
      BY <1>1, <1>13, <2>6 DEF EnterKernel, EntryPage
    <2>8. QED
      BY <1>6, <2>1, <2>7
  <1>14. QED
    BY <1>7, <1>8, <1>9, <1>10, <1>11, <1>12, <1>13

-----------------------------------------------------------------------------
(* The copy of the firmware's PML4.                                        *)

(* Without an entry in the root there is no mapping.                       *)
LEMMA Unmapped ==
    ASSUME NEW m, NEW r, NEW p, m[EntryAddr(r, p, 1)] = Zero, r # NoFrame
    PROVE  Translate(m, r, p) = NoFrame
  <1>1. m[EntryAddr(r, p, 1)][1] # "large" /\ m[EntryAddr(r, p, 1)][1] # "pte"
    BY DEF Zero
  <1>2. Step(m, r, p, 1) = NoFrame
    BY <1>1 DEF Step
  <1>3. QED
    BY <1>1, <1>2 DEF Translate, Step

(* A table of the firmware's large entries and of empty ones maps no page  *)
(* of the kernel.                                                          *)
LEMMA EmptyRoot ==
    ASSUME NEW m, NEW r \in Frame, NEW p \in KernelPages,
           \A j \in (Fan \div 2) .. Fan - 1 : m[r * Fan + j] = Zero
    PROVE  Translate(m, r, p) = NoFrame
  <1>1. p \in Page /\ Index(p, 1) >= Fan \div 2 /\ r # NoFrame
    BY LoaderAssumption DEF KernelPages, Frame, NoFrame
  <1>2. EntryAddr(r, p, 1) = r * Fan + Index(p, 1) /\ Index(p, 1) \in 0 .. Fan - 1
    BY <1>1, Entries
  <1>3. Index(p, 1) \in (Fan \div 2) .. Fan - 1
    BY <1>1, <1>2, Fans
  <1>4. QED
    BY <1>1, <1>2, <1>3, Unmapped

LEMMA SoundInit == LoaderInit => Intact
  <1> SUFFICES ASSUME LoaderInit PROVE Intact
    OBVIOUS
  <1>1. WalkInv /\ step = "pml4" /\ cr3 = FwPml4 /\ claimed = {} /\ seg = 0
    BY WalkInit DEF LoaderInit
  <1>2. /\ FirstPml4 /\ mem \in [Addr -> Word] /\ FwPml4 \in Frame /\ OwnersInv
        /\ FwFrames \subseteq Frame
    BY <1>1, LoaderAssumption DEF WalkInv, PathInv, BaseInv, LoaderTypeOK
  <1>3. mem = [a \in Addr |->
            CASE FrameOf(a) = FwPml4 -> IF a % Fan < Fan \div 2
                                        THEN <<"large", 0>> ELSE Zero
              [] FrameOf(a) \in FwFrames -> <<"fw", 0>>
              [] FrameOf(a) \in elf .. elf + FileFrames - 1 ->
                                            <<"elf", a - elf * Fan>>
              [] OTHER -> <<"junk", 0>>]
    BY DEF LoaderInit
  <1>4. owner = [f \in Frame |->
            IF f \in FwFrames \cup {FwPml4} THEN "fw"
            ELSE IF f \in elf .. elf + FileFrames - 1 THEN "loader" ELSE "free"]
    BY DEF LoaderInit
  <1>5. \A f \in elf .. elf + FileFrames - 1 : f \notin FwFrames \cup {FwPml4}
    BY DEF LoaderInit
  <1>6. \A a \in Addr : a \in Nat /\ FrameOf(a) \in Frame
    BY AddrParts DEF Addr
  <1>7. ASSUME NEW a \in Addr
        PROVE  /\ mem[a][1] \notin {"pte", "np"}
               /\ owner[FrameOf(a)] = "free" => mem[a] = <<"junk", 0>>
               /\ FrameOf(a) \in elf .. elf + FileFrames - 1 => mem[a] = <<"elf", a - elf * Fan>>
    <2> DEFINE f == FrameOf(a)
    <2>1. CASE f = FwPml4
      <3>1. mem[a] = IF a % Fan < Fan \div 2 THEN <<"large", 0>> ELSE Zero
        <4>1. f \notin FwFrames /\ f \notin elf .. elf + FileFrames - 1
          BY <1>5, <2>1, LoaderAssumption
        <4>2. QED
          BY ONLY <1>3, <2>1, <4>1, a \in Addr
      <3>2. owner[f] = "fw" /\ f \notin elf .. elf + FileFrames - 1
        BY <1>4, <1>5, <1>6, <2>1
      <3>3. QED
        BY <3>1, <3>2 DEF Zero
    <2>2. CASE f # FwPml4 /\ f \in FwFrames
      <3>1. mem[a] = <<"fw", 0>>
        <4>1. f \notin elf .. elf + FileFrames - 1
          BY <1>5, <2>2
        <4>2. QED
          BY ONLY <1>3, <2>2, <4>1, a \in Addr
      <3>2. owner[f] = "fw" /\ f \notin elf .. elf + FileFrames - 1
        BY <1>4, <1>5, <1>6, <2>2
      <3>3. QED
        BY <3>1, <3>2
    <2>3. CASE f \in elf .. elf + FileFrames - 1
      <3>1. f # FwPml4 /\ f \notin FwFrames
        BY <1>5, <2>3
      <3>2. mem[a] = <<"elf", a - elf * Fan>> /\ owner[f] = "loader"
        BY <1>3, <1>4, <1>6, <2>3, <3>1
      <3>3. QED
        BY <2>3, <3>2
    <2>4. CASE f # FwPml4 /\ f \notin FwFrames /\ f \notin elf .. elf + FileFrames - 1
      <3>1. mem[a] = <<"junk", 0>>
        BY <1>3, <2>4
      <3>2. QED
        BY <2>4, <3>1
    <2>5. QED
      BY <2>1, <2>2, <2>3, <2>4
  <1>8. \A a \in Addr, f \in Frame : mem[a] # Pte(f)
    BY <1>7 DEF Pte
  <1>9. WordsInv
    BY <1>7, <1>8 DEF WordsInv, FileBuffer
  <1>10. Tree(mem, cr3)
    BY <1>1, <1>2, <1>8 DEF Tree
  <1>11. /\ \A j \in 0 .. (Fan \div 2) - 1 : mem[cr3 * Fan + j] = <<"large", 0>>
         /\ \A j \in (Fan \div 2) .. Fan - 1 : mem[cr3 * Fan + j] = Zero
    <2>1. /\ \A j \in 0 .. (Fan \div 2) - 1 : j \in 0 .. Fan - 1 /\ j < Fan \div 2
          /\ \A j \in (Fan \div 2) .. Fan - 1 : j \in 0 .. Fan - 1 /\ ~(j < Fan \div 2)
      BY Fans
    <2>2. QED
      BY <1>1, <1>2, <2>1 DEF FirstPml4
  <1>12. RootInv
    BY <1>1, <1>11 DEF RootInv, Zero
  <1>13. PendingInv
    BY <1>1 DEF PendingInv, Pending
  <1>14. LoadedInv
    BY <1>1 DEF LoadedInv
  <1>15. \A p \in KernelPages : Vmap[p] = NoFrame
    BY <1>1, <1>2, <1>11, EmptyRoot DEF Vmap, KernelPages
  <1>16. Claims
    BY <1>1, <1>15 DEF Claims
  <1>17. QED
    BY <1>9, <1>10, <1>12, <1>13, <1>14, <1>16 DEF Intact

LEMMA FrameStart ==
    ASSUME NEW f \in Frame
    PROVE  f * Fan \in Addr /\ FrameOf(f * Fan) = f
  <1>1. f \in Nat /\ 0 \in 0 .. Fan - 1 /\ f * Fan \in Nat
    BY Fans, LoaderAssumption DEF Frame
  <1>2. f * Fan + 0 \in Addr /\ FrameOf(f * Fan + 0) = f
    BY <1>1, InFrame
  <1> DEFINE b == f * Fan
  <1>3. b + 0 \in Addr /\ FrameOf(b + 0) = f /\ b \in Nat
    BY <1>1, <1>2
  <1> HIDE DEF b
  <1>4. b + 0 = b
    BY <1>3
  <1>5. QED
    BY <1>3, <1>4 DEF b

(* A stray byte that nobody relies on is none, or hits the first word of   *)
(* the file.                                                               *)
LEMMA NotSmeared ==
    ASSUME BaseInv, WordsInv, NEW a \in Addr, ~Smeared(mem, mem', a),
           mem'[a] = mem[a] \/ mem'[a] \in Smears(mem[a])
    PROVE  mem'[a] = mem[a] \/ (a = elf * Fan /\ mem'[a] = <<"junk", 0>>)
  <1>1. mem[a] \in Word
    BY DEF BaseInv, LoaderTypeOK
  <1>2. CASE mem'[a] # mem[a] /\ owner[FrameOf(a)] = "free"
    <2>1. mem[a] = <<"junk", 0>> /\ mem'[a] \in Smears(mem[a])
      BY <1>2 DEF WordsInv
    <2>2. mem'[a] = mem[a]
      BY <2>1 DEF Smears
    <2>3. QED
      BY <2>2
  <1>3. CASE mem'[a] # mem[a] /\ a = elf * Fan
    <2>1. elf \in Frame /\ elf \in FileBuffer
      BY LoaderAssumption DEF BaseInv, OwnersInv, Frame, FileBuffer
    <2>2. FrameOf(elf * Fan) = elf
      BY <2>1, FrameStart
    <2>3. mem[a] = <<"elf", a - elf * Fan>> \/ mem[a] = <<"junk", 0>>
      BY <1>3, <2>1, <2>2 DEF WordsInv
    <2>4. mem[a][1] \in {"elf", "junk"}
      BY <2>3
    <2>5. QED
      BY <1>1, <1>3, <2>4, SmearedWord
  <1>4. QED
    BY <1>2, <1>3 DEF Smeared

LEMMA FileStart ==
    ASSUME BaseInv
    PROVE  elf * Fan \in Addr /\ FrameOf(elf * Fan) = elf /\ elf \in FileBuffer /\ owner[elf] = "loader"
  <1>1. elf \in Frame /\ elf \in FileBuffer
    BY LoaderAssumption DEF BaseInv, OwnersInv, Frame, FileBuffer
  <1>2. FrameOf(elf * Fan) = elf /\ elf * Fan \in Addr
    BY <1>1, FrameStart
  <1>3. QED
    BY <1>1, <1>2 DEF BaseInv, OwnersInv, FileBuffer

LEMMA NewPml4Intact ==
    ASSUME WalkInv, Intact, NewPml4, [Next]_vars, Sound'
    PROVE  Intact' /\ Vmap' = Vmap
  <1>1. /\ BaseInv /\ step = "pml4" /\ step' = "segment" /\ FirstPml4 /\ WordsInv
        /\ elf' = elf /\ seg' = seg /\ claimed' = claimed /\ headers' = headers
    BY PlanKept DEF WalkInv, PathInv, NewPml4, Intact
  <1>2. seg = 0 /\ claimed = {} /\ cr3 = FwPml4 /\ FwPml4 \in Frame /\ mem \in [Addr -> Word]
        /\ owner \in [Frame -> {"free", "fw", "loader"}]
    BY <1>1, LoaderAssumption DEF BaseInv, Started, LoaderTypeOK
  <1>3. PICK s \in Frame :
              /\ s + 1 \in Frame /\ owner[s] = "free"
              /\ \A f \in Frame : owner'[f] = IF f = s THEN "loader" ELSE owner[f]
              /\ TableCopied(mem, mem', s, FwPml4)
              /\ cr3' = s
              /\ trouble' = IF Smeared(mem, mem', (s + 1) * Fan) THEN {"smear"} ELSE {}
    BY <1>1, NewPml4Does
  <1>4. ~Smeared(mem, mem', (s + 1) * Fan)
    BY <1>3 DEF Sound
  <1>5. (s + 1) * Fan \in Addr
    <2>1. s + 1 \in Frame
      BY <1>3
    <2>2. QED
      BY ONLY <2>1, FrameStart
  <1>6. \A a \in Addr : FrameOf(a) # s =>
            mem'[a] = mem[a] \/ (a = elf * Fan /\ mem'[a] = <<"junk", 0>>)
    <2>1. \/ mem'[(s + 1) * Fan] = mem[(s + 1) * Fan]
          \/ (s + 1) * Fan = elf * Fan /\ mem'[(s + 1) * Fan] = <<"junk", 0>>
      <3> DEFINE a == (s + 1) * Fan
      <3>1. mem'[a] = mem[a] \/ mem'[a] \in Smears(mem[a])
        BY <1>3 DEF TableCopied
      <3>2. a \in Addr /\ ~Smeared(mem, mem', a)
        BY <1>4, <1>5
      <3> HIDE DEF a
      <3>3. mem'[a] = mem[a] \/ (a = elf * Fan /\ mem'[a] = <<"junk", 0>>)
        BY <1>1, <3>1, <3>2, NotSmeared
      <3>4. QED
        BY <3>3 DEF a
    <2>2. QED
      BY <1>3, <2>1 DEF TableCopied
  <1>7. \A j \in 0 .. Fan - 1 : mem'[s * Fan + j] = IF j < Fan \div 2 THEN <<"large", 0>> ELSE Zero
    <2> SUFFICES ASSUME NEW j \in 0 .. Fan - 1
                 PROVE  mem'[s * Fan + j] = IF j < Fan \div 2 THEN <<"large", 0>> ELSE Zero
      OBVIOUS
    <2>1. s * Fan + j \in Addr /\ FrameOf(s * Fan + j) = s /\ (s * Fan + j) % Fan = j
      BY SlotFacts
    <2>2. mem'[s * Fan + j] = mem[FwPml4 * Fan + j]
      BY <1>3, <2>1 DEF TableCopied
    <2>3. QED
      BY <1>1, <2>2 DEF FirstPml4
  <1>8. ASSUME NEW a \in Addr, FrameOf(a) = s PROVE mem'[a][1] \in {"large", "zero"}
    <2>1. a \in Nat
      BY DEF Addr
    <2>2. a = s * Fan + (a % Fan) /\ a % Fan \in 0 .. Fan - 1
      BY <1>8, <2>1, AddrParts
    <2> DEFINE j == a % Fan
    <2>3. mem'[a] = IF j < Fan \div 2 THEN <<"large", 0>> ELSE Zero
      BY <1>7, <2>2
    <2>4. QED
      BY <2>3 DEF Zero
  <1>9. s \notin FileBuffer
    BY <1>1, <1>3 DEF BaseInv, OwnersInv, FileBuffer
  <1>10. \A a \in Addr : mem'[a][1] \notin {"pte", "np"}
    <2> SUFFICES ASSUME NEW a \in Addr PROVE mem'[a][1] \notin {"pte", "np"}
      OBVIOUS
    <2>1. mem[a][1] \notin {"pte", "np"}
      <3>1. mem[a] \in Word /\ mem[a][1] # "np"
        BY <1>1, <1>2 DEF WordsInv
      <3>2. ASSUME mem[a][1] = "pte" PROVE FALSE
        <4>1. mem[a][2] \in Frame /\ mem[a] = Pte(mem[a][2])
          BY <3>1, <3>2, WordKinds DEF Pte
        <4>2. QED
          BY <1>1, <4>1 DEF WordsInv
      <3>3. QED
        BY <3>1, <3>2
    <2>2. CASE FrameOf(a) = s
      BY <1>8, <2>2
    <2>3. CASE FrameOf(a) # s
      BY <1>6, <2>1, <2>3
    <2>4. QED
      BY <2>2, <2>3
  <1>11. \A a \in Addr, f \in Frame : mem'[a] # Pte(f)
    BY <1>10 DEF Pte
  <1>12. WordsInv'
    <2>1. \A a \in Addr : FrameOf(a) \in Frame
      BY AddrParts DEF Addr
    <2>2. \A a \in Addr : owner'[FrameOf(a)] = "free" => mem'[a] = <<"junk", 0>>
      BY <1>1, <1>3, <1>6, <2>1 DEF WordsInv
    <2>3. \A a \in Addr : FrameOf(a) \in FileBuffer =>
              mem'[a] = <<"elf", a - elf * Fan>> \/ (a = elf * Fan /\ mem'[a] = <<"junk", 0>>)
      BY <1>1, <1>6, <1>9 DEF WordsInv
    <2>4. QED
      BY <1>1, <1>10, <1>11, <2>2, <2>3 DEF WordsInv, FileBuffer
  <1>13. Tree(mem, cr3)'
    BY <1>3, <1>11 DEF Tree, TableCopied
  <1>14. /\ \A j \in 0 .. (Fan \div 2) - 1 : mem'[s * Fan + j] = <<"large", 0>>
         /\ \A j \in (Fan \div 2) .. Fan - 1 : mem'[s * Fan + j] = Zero
    <2>1. /\ \A j \in 0 .. (Fan \div 2) - 1 : j \in 0 .. Fan - 1 /\ j < Fan \div 2
          /\ \A j \in (Fan \div 2) .. Fan - 1 : j \in 0 .. Fan - 1 /\ ~(j < Fan \div 2)
      BY Fans
    <2>2. QED
      BY <1>7, <2>1
  <1>15. RootInv'
    <2>1. OwnTables'
      BY <1>1, PathStep DEF PathInv, Astray
    <2>2. QED
      BY <1>1, <1>3, <1>9, <1>14, <2>1 DEF RootInv, FileBuffer, Zero
  <1>16. PendingInv'
    BY <1>1 DEF PendingInv, Pending
  <1>17. LoadedInv'
    BY <1>1, <1>2 DEF LoadedInv
  <1>18. \A p \in KernelPages : Vmap'[p] = NoFrame
    <2> SUFFICES ASSUME NEW p \in KernelPages PROVE Vmap'[p] = NoFrame
      OBVIOUS
    <2>1. Translate(mem', s, p) = NoFrame
      BY <1>14, EmptyRoot
    <2>2. QED
      BY <1>3, <2>1 DEF Vmap, KernelPages
  <1>19. Claims'
    BY <1>1, <1>2, <1>18 DEF Claims
  <1>20. Vmap' = Vmap
    <2>1. ASSUME NEW q \in Page PROVE Translate(mem', s, q) = Translate(mem, cr3, q)
      <3> DEFINE j == Index(q, 1)
                 m2 == mem'
      <3>1. /\ EntryAddr(s, q, 1) = s * Fan + j /\ EntryAddr(cr3, q, 1) = cr3 * Fan + j
            /\ j \in 0 .. Fan - 1 /\ s # NoFrame /\ cr3 # NoFrame
        <4>1. EntryAddr(s, q, 1) = s * Fan + j /\ j \in 0 .. Fan - 1
          BY Entries
        <4>2. EntryAddr(cr3, q, 1) = cr3 * Fan + j
          BY <1>2, Entries
        <4>3. s # NoFrame /\ cr3 # NoFrame
          BY <1>2, LoaderAssumption DEF Frame, NoFrame
        <4>4. QED
          BY <4>1, <4>2, <4>3
      <3>2. /\ m2[EntryAddr(s, q, 1)] = IF j < Fan \div 2 THEN <<"large", 0>> ELSE Zero
            /\ mem[EntryAddr(cr3, q, 1)] = IF j < Fan \div 2 THEN <<"large", 0>> ELSE Zero
        BY <1>1, <1>2, <1>7, <3>1 DEF FirstPml4
      <3> HIDE DEF j, m2
      <3>3. CASE j < Fan \div 2
        <4>1. m2[EntryAddr(s, q, 1)][1] = "large" /\ mem[EntryAddr(cr3, q, 1)][1] = "large"
          BY <3>2, <3>3
        <4>2. QED
          BY <4>1 DEF Translate, m2
      <3>4. CASE ~(j < Fan \div 2)
        <4>1. m2[EntryAddr(s, q, 1)] = Zero /\ mem[EntryAddr(cr3, q, 1)] = Zero
          BY <3>2, <3>4
        <4>2. Translate(m2, s, q) = NoFrame
          BY <3>1, <4>1, Unmapped
        <4>3. Translate(mem, cr3, q) = NoFrame
          BY <3>1, <4>1, Unmapped
        <4>4. QED
          BY <4>2, <4>3 DEF m2
      <3>5. QED
        BY <3>3, <3>4
    <2>2. QED
      BY <1>3, <2>1 DEF Vmap
  <1>21. QED
    BY <1>12, <1>13, <1>15, <1>16, <1>17, <1>19, <1>20 DEF Intact

-----------------------------------------------------------------------------
(* Where the walk stands: a table of the loader's that is no page.         *)
LEMMA TableHere ==
    ASSUME WalkInv, Intact, step = "walk", NEW p, p = page, NEW n, n = level,
           mem[Here] = Zero \/ n = 4
    PROVE  /\ p \in KernelPages /\ p \in Page /\ n \in 1 .. 4
           /\ map[n] \in Frame /\ TableAt(mem, cr3, p, n) = map[n]
           /\ Here = EntryAddr(map[n], p, n) /\ Here \in Addr /\ FrameOf(Here) = map[n]
           /\ owner[map[n]] = "loader" /\ map[n] \notin FileBuffer
           /\ map[n] = cr3 \/ \E a \in Addr : mem[a] = Pte(map[n])
           /\ \A q, f : <<q, f>> \in claimed => f # map[n]
           /\ OwnTables /\ cr3 \in Frame /\ owner[cr3] = "loader" /\ mem \in [Addr -> Word]
  <1>1. /\ BaseInv /\ p \in Page /\ n \in 1 .. 4 /\ mem \in [Addr -> Word] /\ Tree(mem, cr3)
        /\ WordsInv /\ RootInv
    BY PageFacts DEF WalkInv, Intact
  <1>2. p \in KernelPages
    BY EmptyInKernel
  <1>3. /\ map[n] \in Frame /\ Here = EntryAddr(map[n], p, n) /\ Here \in Addr /\ FrameOf(Here) = map[n]
    BY <1>1, HereIs DEF Here
  <1>4. TableAt(mem, cr3, p, n) = map[n]
    BY <1>2, WalkedTo
  <1>5. OwnTables /\ owner[map[n]] = "loader"
    BY <1>3, HereIsOwn
  <1>6. cr3 = map[1] /\ cr3 \in Frame /\ cr3 # NoFrame /\ map[n] # NoFrame
    BY <1>1, <1>3, LoaderAssumption DEF BaseInv, Started, Frame, NoFrame
  <1>7. owner[cr3] = "loader"
    BY <1>5, <1>6 DEF OwnTables
  <1>8. map[n] = cr3 \/ \E a \in Addr : mem[a] = Pte(map[n])
    <2>1. n \in 1 .. 5 /\ TableAt(mem, cr3, p, n) # NoFrame
      BY <1>1, <1>4, <1>6
    <2>2. \/ n = 1 /\ TableAt(mem, cr3, p, n) = cr3
          \/ /\ EntryAddr(TableAt(mem, cr3, p, n - 1), p, n - 1) \in Addr
             /\ mem[EntryAddr(TableAt(mem, cr3, p, n - 1), p, n - 1)] = Pte(TableAt(mem, cr3, p, n))
      BY <1>1, <2>1, Reached
    <2>3. QED
      BY <1>4, <2>2
  <1>9. map[n] \notin FileBuffer
    <2>1. CASE map[n] = cr3
      BY <1>1, <2>1 DEF RootInv
    <2>2. CASE map[n] # cr3
      <3>1. PICK a \in Addr : mem[a] = Pte(map[n])
        BY <1>8, <2>2
      <3>2. QED
        BY <1>1, <1>3, <3>1 DEF WordsInv
    <2>3. QED
      BY <2>1, <2>2
  <1>10. ASSUME NEW q, NEW f, <<q, f>> \in claimed, f = map[n] PROVE FALSE
    <2>1. q \in Page /\ f # NoFrame /\ f = TableAt(mem, cr3, q, 5)
      BY <1>10, ClaimFacts
    <2>2. 5 \in 1 .. 5 /\ n \in 1 .. 5
      BY <1>1
    <2>3. TableAt(mem, cr3, q, 5) = TableAt(mem, cr3, p, n) /\ TableAt(mem, cr3, q, 5) # NoFrame
      BY <1>4, <1>10, <2>1
    <2>4. n = 5
      BY <1>1, <2>1, <2>2, <2>3, UniquePath
    <2>5. QED
      BY <1>1, <2>4
  <1>11. QED
    BY <1>1, <1>2, <1>3, <1>4, <1>5, <1>6, <1>7, <1>8, <1>9, <1>10

(* Pages stay loaded while their frames' words do.                         *)
LEMMA LoadedKept ==
    ASSUME WalkInv, Intact, step # "pml4", headers' = headers, claimed \subseteq claimed',
           \A q, f : <<q, f>> \in claimed =>
                       \A a \in Addr : FrameOf(a) = f => mem'[a] = mem[a]
    PROVE  \A k, p : Loaded(k, p) => Loaded(k, p)'
  <1> SUFFICES ASSUME NEW k, NEW p, Loaded(k, p) PROVE Loaded(k, p)'
    OBVIOUS
  <1>1. ASSUME NEW f \in Frame, <<p, f>> \in claimed, NEW j \in 0 .. Fan - 1
        PROVE  mem'[f * Fan + j] = mem[f * Fan + j]
    <2>1. f * Fan + j \in Addr /\ FrameOf(f * Fan + j) = f
      BY SlotFacts
    <2>2. QED
      BY <1>1, <2>1
  <1>2. QED
    BY <1>1, StillLoaded

LEMMA ImageKept ==
    ASSUME NEW h, NEW p, NEW f \in Frame, ImageOf(h, p, f),
           \A a \in Addr : FrameOf(a) = f => mem'[a] = mem[a]
    PROVE  ImageOf(h, p, f)'
  <1>1. ASSUME NEW j \in 0 .. Fan - 1 PROVE mem'[f * Fan + j] = mem[f * Fan + j]
    BY SlotFacts
  <1>2. QED
    BY <1>1 DEF ImageOf

(* The pages still to be mapped while a page is walked.                    *)
LEMMA PendingFacts ==
    ASSUME WalkInv, Intact, step = "walk"
    PROVE  /\ seg + 1 \in 1 .. Len(headers) /\ IsLoad(headers[seg + 1]) /\ segment = headers[seg + 1]
           /\ PageStart(segment) \in Nat /\ PageEnd(segment) \in Nat
           /\ page \in PageStart(segment) .. PageEnd(segment) /\ page \in Nat
           /\ addr \in Frame /\ addr \in Nat /\ addr \in Pending
           /\ \A p \in page .. PageEnd(segment) : addr + (p - page) \in Pending
           /\ \A f \in Pending : /\ f \in Frame /\ owner[f] = "loader" /\ f \notin FileBuffer /\ f # cr3
                                 /\ \A a \in Addr : mem[a] # Pte(f)
  <1>1. /\ seg + 1 \in 1 .. Len(headers) /\ IsLoad(segment) /\ segment = headers[seg + 1]
        /\ page \in PageStart(segment) .. PageEnd(segment) /\ addr \in Frame /\ BaseInv
        /\ \A f \in addr .. addr + (PageEnd(segment) - page) : f \in Frame /\ owner[f] = "loader"
    BY DEF WalkInv, BaseInv, OnSegment, LoaderTypeOK, segment
  <1>2. PageStart(segment) \in Nat /\ PageEnd(segment) \in Nat
    BY <1>1, SegmentFacts DEF BaseInv
  <1>3. addr \in Nat /\ page \in Nat
    BY <1>1, <1>2, LoaderAssumption DEF Frame
  <1>4. Pending = addr .. addr + (PageEnd(segment) - page)
    BY DEF Pending
  <1>5. addr \in Pending /\ \A p \in page .. PageEnd(segment) : addr + (p - page) \in Pending
    BY <1>1, <1>2, <1>3, <1>4
  <1>6. \A f \in Pending : f \notin FileBuffer /\ f # cr3 /\ \A a \in Addr : mem[a] # Pte(f)
    BY DEF Intact, PendingInv
  <1>7. QED
    BY <1>1, <1>2, <1>3, <1>4, <1>5, <1>6

LEMMA NewTableIntact ==
    ASSUME WalkInv, Intact, NewTable, [Next]_vars
    PROVE  Intact' /\ Vmap' = Vmap
  <1>1. /\ BaseInv /\ step = "walk" /\ level < 4 /\ mem[Here] = Zero /\ WordsInv /\ Tree(mem, cr3)
        /\ UNCHANGED <<elf, cr3, seg, page, addr, step, claimed>> /\ headers' = headers
    BY PlanKept DEF WalkInv, NewTable, Intact
  <1> DEFINE p == page
             n == level
  <1>2. /\ p \in KernelPages /\ p \in Page /\ n \in 1 .. 4 /\ n \in 1 .. 3
        /\ map[n] \in Frame /\ TableAt(mem, cr3, p, n) = map[n]
        /\ Here = EntryAddr(map[n], p, n) /\ Here \in Addr /\ FrameOf(Here) = map[n]
        /\ owner[map[n]] = "loader" /\ map[n] \notin FileBuffer
        /\ map[n] = cr3 \/ \E a \in Addr : mem[a] = Pte(map[n])
        /\ \A q, f : <<q, f>> \in claimed => f # map[n]
        /\ OwnTables /\ cr3 \in Frame /\ owner[cr3] = "loader" /\ mem \in [Addr -> Word]
    <2>1. /\ p \in KernelPages /\ p \in Page /\ n \in 1 .. 4
          /\ map[n] \in Frame /\ TableAt(mem, cr3, p, n) = map[n]
          /\ Here = EntryAddr(map[n], p, n) /\ Here \in Addr /\ FrameOf(Here) = map[n]
          /\ owner[map[n]] = "loader" /\ map[n] \notin FileBuffer
          /\ map[n] = cr3 \/ \E a \in Addr : mem[a] = Pte(map[n])
          /\ \A q, f : <<q, f>> \in claimed => f # map[n]
          /\ OwnTables /\ cr3 \in Frame /\ owner[cr3] = "loader" /\ mem \in [Addr -> Word]
      BY <1>1, TableHere
    <2>2. QED
      BY <1>1, <2>1
  <1>3. PICK s \in Frame :
              /\ owner[s] = "free"
              /\ \A f \in Frame : owner'[f] = IF f = s THEN "loader" ELSE owner[f]
              /\ TableEntered(mem, mem', Here, s)
              /\ map' = [map EXCEPT ![level + 1] = s]
    BY <1>1, NewTableDoes
  <1>4. /\ s # cr3 /\ s # map[n] /\ s \notin FileBuffer
        /\ \A a \in Addr : mem[a] # Pte(s)
    <2>1. s # cr3 /\ s # map[n]
      BY <1>2, <1>3
    <2>2. s \notin FileBuffer
      BY <1>1, <1>3 DEF BaseInv, OwnersInv, FileBuffer
    <2>3. \A a \in Addr : mem[a] # Pte(s)
      BY <1>1, <1>3 DEF WordsInv
    <2>4. QED
      BY <2>1, <2>2, <2>3
  <1>5. /\ mem' \in [Addr -> Word] /\ mem'[Here] = Pte(s)
        /\ \A a \in Addr : a # Here => mem'[a] = IF FrameOf(a) = s THEN Zero ELSE mem[a]
    BY <1>3 DEF TableEntered
  <1>6. \A a \in Addr : FrameOf(a) \in Frame
    BY AddrParts DEF Addr
  <1>7. \A a \in Addr, f \in Frame : mem'[a] = Pte(f) => mem[a] = Pte(f) \/ (a = Here /\ f = s)
    BY <1>5 DEF Pte, Zero
  <1>8. WordsInv'
    <2>1. \A a \in Addr : mem'[a][1] # "np"
      BY <1>1, <1>5 DEF WordsInv, Pte, Zero
    <2>2. \A a \in Addr : owner'[FrameOf(a)] = "free" => mem'[a] = <<"junk", 0>>
      <3> SUFFICES ASSUME NEW a \in Addr, owner'[FrameOf(a)] = "free" PROVE mem'[a] = <<"junk", 0>>
        OBVIOUS
      <3>1. FrameOf(a) # s /\ owner[FrameOf(a)] = "free"
        BY <1>3, <1>6
      <3>2. a # Here
        BY <1>2, <3>1
      <3>3. QED
        BY <1>1, <1>5, <3>1, <3>2 DEF WordsInv
    <2>3. \A a \in Addr : FrameOf(a) \in FileBuffer =>
              mem'[a] = <<"elf", a - elf * Fan>> \/ (a = elf * Fan /\ mem'[a] = <<"junk", 0>>)
      <3> SUFFICES ASSUME NEW a \in Addr, FrameOf(a) \in FileBuffer
                   PROVE  mem'[a] = <<"elf", a - elf * Fan>> \/ (a = elf * Fan /\ mem'[a] = <<"junk", 0>>)
        OBVIOUS
      <3>1. FrameOf(a) # s /\ a # Here
        BY <1>2, <1>4
      <3>2. QED
        BY <1>1, <1>5, <3>1 DEF WordsInv
    <2>4. \A a \in Addr, f \in Frame : mem'[a] = Pte(f) =>
              owner'[FrameOf(a)] = "loader" /\ owner'[f] = "loader" /\ f \notin FileBuffer
      <3> SUFFICES ASSUME NEW a \in Addr, NEW f \in Frame, mem'[a] = Pte(f)
                   PROVE  owner'[FrameOf(a)] = "loader" /\ owner'[f] = "loader" /\ f \notin FileBuffer
        OBVIOUS
      <3>1. CASE mem[a] = Pte(f)
        BY <1>1, <1>3, <1>6, <3>1 DEF WordsInv
      <3>2. CASE a = Here /\ f = s
        BY <1>2, <1>3, <1>4, <3>2
      <3>3. QED
        BY <1>7, <3>1, <3>2
    <2>5. QED
      BY <1>1, <2>1, <2>2, <2>3, <2>4 DEF WordsInv, FileBuffer
  <1>9. Tree(mem, cr3)'
    <2> DEFINE here == Here
               m2 == mem'
    <2> HIDE DEF here, m2
    <2>1. /\ m2 \in [Addr -> Word] /\ s # cr3 /\ \A a \in Addr : mem[a] # Pte(s)
          /\ \A a \in Addr, f \in Frame : m2[a] = Pte(f) => mem[a] = Pte(f) \/ (a = here /\ f = s)
      BY <1>4, <1>5, <1>7 DEF here, m2
    <2>2. Tree(m2, cr3)
      BY <1>1, <2>1, TreeGrown
    <2>3. QED
      BY <1>1, <2>2 DEF m2, Tree
  <1>10. RootInv'
    <2>1. OwnTables'
      BY <1>1, <1>2, PathStep DEF PathInv, Astray
    <2>2. ASSUME NEW j \in 0 .. Fan - 1
          PROVE  mem'[cr3 * Fan + j] = mem[cr3 * Fan + j]
                     \/ (mem[cr3 * Fan + j] = Zero /\ mem'[cr3 * Fan + j] = Pte(s))
      <3>1. cr3 * Fan + j \in Addr /\ FrameOf(cr3 * Fan + j) = cr3
        BY <1>2, SlotFacts
      <3>2. QED
        BY <1>1, <1>4, <1>5, <3>1
    <2>3. /\ \A j \in 0 .. (Fan \div 2) - 1 : j \in 0 .. Fan - 1
          /\ \A j \in (Fan \div 2) .. Fan - 1 : j \in 0 .. Fan - 1
      BY Fans
    <2>4. \A j \in 0 .. (Fan \div 2) - 1 : mem'[cr3 * Fan + j] = <<"large", 0>>
      BY <2>2, <2>3 DEF Intact, RootInv, Zero
    <2>5. \A j \in (Fan \div 2) .. Fan - 1 : mem'[cr3 * Fan + j][1] # "large"
      BY <2>2, <2>3 DEF Intact, RootInv, Zero, Pte
    <2>6. QED
      BY <1>1, <2>1, <2>4, <2>5 DEF Intact, RootInv, FileBuffer
  <1>11. /\ segment = headers[seg + 1] /\ segment' = segment /\ Pending' = Pending
         /\ \A f \in Pending : /\ f \in Frame /\ owner[f] = "loader" /\ f \notin FileBuffer /\ f # cr3
                               /\ \A a \in Addr : mem[a] # Pte(f)
         /\ \A q \in page .. PageEnd(segment) : addr + (q - page) \in Pending
    <2>1. segment = headers[seg + 1] /\ segment' = segment
      BY <1>1 DEF segment
    <2>2. Pending' = Pending
      BY <1>1, <2>1 DEF Pending
    <2>3. QED
      BY <1>1, <2>1, <2>2, PendingFacts
  <1>12. PendingInv'
    BY <1>1, <1>3, <1>7, <1>11 DEF PendingInv, FileBuffer
  <1>13. \A k, q : Loaded(k, q) => Loaded(k, q)'
    <2>1. ASSUME NEW q, NEW f, <<q, f>> \in claimed, NEW a \in Addr, FrameOf(a) = f
          PROVE  mem'[a] = mem[a]
      <3>1. f # map[n] /\ f \in Frame /\ \E b \in Addr : mem[b] = Pte(f)
        BY <1>1, <1>2, <2>1, ClaimFacts
      <3>2. f # s /\ a # Here
        BY <1>2, <1>4, <2>1, <3>1
      <3>3. QED
        BY <1>5, <2>1, <3>2
    <2>2. QED
      BY <1>1, <2>1, LoadedKept
  <1>14. \A q \in page .. PageEnd(segment) : ImageOf(segment, q, addr + (q - page))'
    <2> SUFFICES ASSUME NEW q \in page .. PageEnd(segment)
                 PROVE  ImageOf(segment, q, addr + (q - page))'
      OBVIOUS
    <2>1. PICK f : f = addr + (q - page)
      OBVIOUS
    <2>2. PICK h : h = segment
      OBVIOUS
    <2>3. /\ f \in Frame /\ owner[f] = "loader" /\ f # cr3 /\ \A a \in Addr : mem[a] # Pte(f)
      BY <1>11, <2>1
    <2>4. ImageOf(h, q, f)
      BY <1>1, <2>1, <2>2 DEF Intact, LoadedInv
    <2>5. ASSUME NEW a \in Addr, FrameOf(a) = f PROVE mem'[a] = mem[a]
      <3>1. f # s /\ f # map[n]
        BY <1>2, <1>3, <2>3
      <3>2. QED
        BY <1>2, <1>5, <2>5, <3>1
    <2>6. ImageOf(h, q, f)'
      BY <2>3, <2>4, <2>5, ImageKept
    <2>7. segment' = h /\ (addr + (q - page))' = f
      BY <1>1, <1>11, <2>1, <2>2
    <2>8. QED
      BY <2>6, <2>7 DEF ImageOf
  <1>15. LoadedInv'
    <2>1. \A k \in 1 .. seg : IsLoad(headers[k]) =>
           /\ PageStart(headers[k]) <= PageEnd(headers[k])
           /\ \A q \in PageStart(headers[k]) .. PageEnd(headers[k]) : Loaded(k, q)'
      BY <1>13 DEF Intact, LoadedInv
    <2>2. \A q \in PageStart(segment) .. page - 1 : Loaded(seg + 1, q)'
      BY <1>1, <1>13 DEF Intact, LoadedInv
    <2>3. QED
      BY <1>1, <1>11, <1>14, <2>1, <2>2 DEF LoadedInv
  <1>16. \A q \in Page : Translate(mem', cr3, q) = Translate(mem, cr3, q)
    <2> DEFINE here == Here
               m2 == mem'
               t == map[n]
    <2> HIDE DEF here, m2, t
    <2>1. /\ t \in Frame /\ TableAt(mem, cr3, p, n) = t /\ here = EntryAddr(t, p, n) /\ mem[here] = Zero
          /\ s # cr3 /\ s # t /\ TableEntered(mem, m2, here, s)
      BY <1>1, <1>2, <1>3, <1>4 DEF here, m2, t
    <2>2. \A q \in Page : Translate(m2, cr3, q) = Translate(mem, cr3, q)
      BY <1>1, <1>2, <1>4, <2>1, WalkThroughNew
    <2>3. QED
      BY <2>2 DEF m2
  <1>17. Vmap' = Vmap
    BY <1>1, <1>16 DEF Vmap
  <1>18. Claims'
    BY <1>1, <1>17 DEF Intact, Claims
  <1>19. QED
    BY <1>8, <1>9, <1>10, <1>12, <1>15, <1>17, <1>18 DEF Intact

(* What an entry in a last table changes of the address space.             *)
LEMMA LeafMaps ==
    ASSUME WalkInv, Intact, SetLeaf
    PROVE  /\ page \in KernelPages /\ page \in Page /\ addr \in Frame /\ addr # NoFrame
           /\ mem[Here] = Zero /\ Here \in Addr
           /\ Translate(mem, cr3, page) = NoFrame /\ Translate(mem', cr3, page) = addr
           /\ \A q \in Page : q # page => Translate(mem', cr3, q) = Translate(mem, cr3, q)
  <1>1. /\ BaseInv /\ step = "walk" /\ level = 4 /\ Tree(mem, cr3)
        /\ mem' = [mem EXCEPT ![Here] = Pte(addr)]
    BY DEF WalkInv, SetLeaf, Intact
  <1> DEFINE p == page
             t == map[4]
             here == Here
             m2 == mem'
             f == addr
  <1>2. /\ p \in KernelPages /\ p \in Page /\ t \in Frame /\ TableAt(mem, cr3, p, 4) = t
        /\ here = EntryAddr(t, p, 4) /\ here \in Addr /\ OwnTables
    BY <1>1, TableHere
  <1>3. mem[here] = Zero
    <2>1. Fresh(page, level)
      BY <1>1, <1>2, EmptyIsFresh
    <2>2. Here = (map[level] * Fan) + Index(page, level) /\ Index(page, level) \in 0 .. Fan - 1
      BY <1>1, HereIs
    <2>3. Index(page, level) \in Index(page, level) .. Fan - 1
      BY <2>2
    <2>4. Slot(level, Index(page, level)) = Zero
      BY <2>1, <2>3 DEF Fresh, EmptyFrom
    <2>5. QED
      BY <2>2, <2>4 DEF Slot
  <1>4. f \in Frame
    BY <1>1 DEF BaseInv, LoaderTypeOK
  <1>5. mem[EntryAddr(cr3, p, 1)][1] # "large"
    BY <1>2, KernelEntry
  <1>6. m2[here] = Pte(f) /\ \A a \in Addr : a # here => m2[a] = mem[a]
    BY <1>1, <1>2 DEF WalkInv, BaseInv, LoaderTypeOK
  <1>7. f # NoFrame
    BY <1>4, LoaderAssumption DEF Frame, NoFrame
  <1> HIDE DEF p, t, here, m2, f
  <1>8. ASSUME NEW q \in Page
        PROVE  /\ q # p => Translate(m2, cr3, q) = Translate(mem, cr3, q)
               /\ Translate(m2, cr3, p) = f
               /\ Translate(mem, cr3, p) = NoFrame
    <2>1. /\ Tree(mem, cr3) /\ p \in Page /\ t \in Frame /\ TableAt(mem, cr3, p, 4) = t
          /\ here = EntryAddr(t, p, 4) /\ mem[here] = Zero /\ f \in Frame
          /\ m2[here] = Pte(f) /\ (\A a \in Addr : a # here => m2[a] = mem[a]) /\ q \in Page
      BY <1>1, <1>2, <1>3, <1>4, <1>6
    <2>2. /\ q # p => Translate(m2, cr3, q) = Translate(mem, cr3, q)
          /\ mem[EntryAddr(cr3, p, 1)][1] # "large" => Translate(m2, cr3, p) = f
          /\ mem[EntryAddr(cr3, p, 1)][1] # "large" => Translate(mem, cr3, p) = NoFrame
      BY ONLY <2>1, WalkToLeaf
    <2>3. QED
      BY <1>5, <2>2
  <1>9. QED
    BY <1>2, <1>3, <1>4, <1>7, <1>8 DEF p, m2, f, here

LEMMA SetLeafIntact ==
    ASSUME WalkInv, Intact, SetLeaf, [Next]_vars
    PROVE  Intact'
  <1>1. /\ BaseInv /\ step = "walk" /\ step' = "test" /\ level = 4 /\ WordsInv /\ Tree(mem, cr3)
        /\ UNCHANGED <<elf, cr3, owner, map, seg, page, addr>> /\ headers' = headers
        /\ claimed' = claimed \cup {<<page, addr>>}
        /\ mem' = [mem EXCEPT ![Here] = Pte(addr)]
    BY PlanKept DEF WalkInv, SetLeaf, Intact
  <1>2. /\ map[4] \in Frame /\ Here \in Addr /\ FrameOf(Here) = map[4]
        /\ owner[map[4]] = "loader" /\ map[4] \notin FileBuffer
        /\ map[4] = cr3 \/ \E a \in Addr : mem[a] = Pte(map[4])
        /\ \A q, f : <<q, f>> \in claimed => f # map[4]
        /\ OwnTables /\ cr3 \in Frame /\ mem \in [Addr -> Word]
    BY <1>1, TableHere
  <1>3. /\ page \in KernelPages /\ page \in Page /\ addr \in Frame /\ addr # NoFrame
        /\ mem[Here] = Zero
        /\ Translate(mem, cr3, page) = NoFrame /\ Translate(mem', cr3, page) = addr
        /\ \A q \in Page : q # page => Translate(mem', cr3, q) = Translate(mem, cr3, q)
    BY LeafMaps
  <1>4. /\ segment = headers[seg + 1] /\ segment' = segment
        /\ PageStart(segment) \in Nat /\ PageEnd(segment) \in Nat
        /\ page \in PageStart(segment) .. PageEnd(segment) /\ page \in Nat
        /\ addr \in Nat /\ addr \in Pending
        /\ \A q \in page .. PageEnd(segment) : addr + (q - page) \in Pending
        /\ \A f \in Pending : /\ f \in Frame /\ owner[f] = "loader" /\ f \notin FileBuffer /\ f # cr3
                              /\ \A a \in Addr : mem[a] # Pte(f)
    <2>1. segment = headers[seg + 1] /\ segment' = segment
      BY <1>1 DEF segment
    <2>2. QED
      BY <1>1, <2>1, PendingFacts
  <1>5. /\ mem' \in [Addr -> Word] /\ mem'[Here] = Pte(addr)
        /\ \A a \in Addr : a # Here => mem'[a] = mem[a]
    BY <1>1, <1>2, <1>3 DEF Pte, Word
  <1>6. \A a \in Addr, f \in Frame : mem'[a] = Pte(f) => mem[a] = Pte(f) \/ (a = Here /\ f = addr)
    BY <1>5 DEF Pte
  <1>7. WordsInv'
    <2>1. \A a \in Addr : mem'[a][1] # "np"
      BY <1>1, <1>5 DEF WordsInv, Pte
    <2>2. \A a \in Addr : owner[FrameOf(a)] = "free" => mem'[a] = <<"junk", 0>>
      <3> SUFFICES ASSUME NEW a \in Addr, owner[FrameOf(a)] = "free" PROVE mem'[a] = <<"junk", 0>>
        OBVIOUS
      <3>1. a # Here
        BY <1>2
      <3>2. QED
        BY <1>1, <1>5, <3>1 DEF WordsInv
    <2>3. \A a \in Addr : FrameOf(a) \in FileBuffer =>
              mem'[a] = <<"elf", a - elf * Fan>> \/ (a = elf * Fan /\ mem'[a] = <<"junk", 0>>)
      <3> SUFFICES ASSUME NEW a \in Addr, FrameOf(a) \in FileBuffer
                   PROVE  mem'[a] = <<"elf", a - elf * Fan>> \/ (a = elf * Fan /\ mem'[a] = <<"junk", 0>>)
        OBVIOUS
      <3>1. a # Here
        BY <1>2
      <3>2. QED
        BY <1>1, <1>5, <3>1 DEF WordsInv
    <2>4. \A a \in Addr, f \in Frame : mem'[a] = Pte(f) =>
              owner[FrameOf(a)] = "loader" /\ owner[f] = "loader" /\ f \notin FileBuffer
      <3> SUFFICES ASSUME NEW a \in Addr, NEW f \in Frame, mem'[a] = Pte(f)
                   PROVE  owner[FrameOf(a)] = "loader" /\ owner[f] = "loader" /\ f \notin FileBuffer
        OBVIOUS
      <3>1. CASE mem[a] = Pte(f)
        BY <1>1, <3>1 DEF WordsInv
      <3>2. CASE a = Here /\ f = addr
        BY <1>2, <1>4, <3>2
      <3>3. QED
        BY <1>6, <3>1, <3>2
    <2>5. QED
      BY <1>1, <2>1, <2>2, <2>3, <2>4 DEF WordsInv, FileBuffer
  <1>8. Tree(mem, cr3)'
    <2> DEFINE here == Here
               m2 == mem'
               s == addr
    <2> HIDE DEF here, m2, s
    <2>1. /\ m2 \in [Addr -> Word] /\ s \in Frame /\ s # cr3 /\ \A a \in Addr : mem[a] # Pte(s)
          /\ \A a \in Addr, f \in Frame : m2[a] = Pte(f) => mem[a] = Pte(f) \/ (a = here /\ f = s)
      BY <1>4, <1>5, <1>6 DEF here, m2, s
    <2>2. Tree(m2, cr3)
      BY <1>1, <2>1, TreeGrown
    <2>3. QED
      BY <1>1, <2>2 DEF m2, Tree
  <1>9. RootInv'
    <2>1. OwnTables'
      BY <1>1, <1>2 DEF OwnTables
    <2>2. ASSUME NEW j \in 0 .. Fan - 1
          PROVE  mem'[cr3 * Fan + j] = mem[cr3 * Fan + j]
                     \/ (mem[cr3 * Fan + j] = Zero /\ mem'[cr3 * Fan + j] = Pte(addr))
      <3>1. cr3 * Fan + j \in Addr
        BY <1>2, SlotFacts
      <3>2. QED
        BY <1>3, <1>5, <3>1
    <2>3. /\ \A j \in 0 .. (Fan \div 2) - 1 : j \in 0 .. Fan - 1
          /\ \A j \in (Fan \div 2) .. Fan - 1 : j \in 0 .. Fan - 1
      BY Fans
    <2>4. \A j \in 0 .. (Fan \div 2) - 1 : mem'[cr3 * Fan + j] = <<"large", 0>>
      BY <2>2, <2>3 DEF Intact, RootInv, Zero
    <2>5. \A j \in (Fan \div 2) .. Fan - 1 : mem'[cr3 * Fan + j][1] # "large"
      BY <2>2, <2>3 DEF Intact, RootInv, Zero, Pte
    <2>6. QED
      BY <1>1, <2>1, <2>4, <2>5 DEF Intact, RootInv, FileBuffer
  <1>10. PendingInv'
    <2>1. Pending' = addr + 1 .. addr + (PageEnd(segment) - page)
      BY <1>1, <1>4 DEF Pending
    <2>2. Pending = addr .. addr + (PageEnd(segment) - page)
      BY <1>1 DEF Pending
    <2>3. \A f \in Pending' : f \in Pending /\ f # addr
      BY <1>4, <2>1, <2>2
    <2>4. QED
      BY <1>1, <1>4, <1>6, <2>3 DEF PendingInv, FileBuffer
  <1>11. \A k, q : Loaded(k, q) => Loaded(k, q)'
    <2>1. ASSUME NEW q, NEW f, <<q, f>> \in claimed, NEW a \in Addr, FrameOf(a) = f
          PROVE  mem'[a] = mem[a]
      <3>1. a # Here
        BY <1>2, <2>1
      <3>2. QED
        BY <1>5, <3>1
    <2>2. QED
      BY <1>1, <2>1, LoadedKept
  <1>12. \A q \in page .. PageEnd(segment) : ImageOf(segment, q, addr + (q - page))'
    <2> SUFFICES ASSUME NEW q \in page .. PageEnd(segment)
                 PROVE  ImageOf(segment, q, addr + (q - page))'
      OBVIOUS
    <2>1. PICK f : f = addr + (q - page)
      OBVIOUS
    <2>2. PICK h : h = segment
      OBVIOUS
    <2>3. /\ f \in Frame /\ f # cr3 /\ \A a \in Addr : mem[a] # Pte(f)
      BY <1>4, <2>1
    <2>4. ImageOf(h, q, f)
      BY <1>1, <2>1, <2>2 DEF Intact, LoadedInv
    <2>5. ASSUME NEW a \in Addr, FrameOf(a) = f PROVE mem'[a] = mem[a]
      <3>1. f # map[4]
        BY <1>2, <2>3
      <3>2. QED
        BY <1>2, <1>5, <2>5, <3>1
    <2>6. ImageOf(h, q, f)'
      BY <2>3, <2>4, <2>5, ImageKept
    <2>7. segment' = h /\ (addr + (q - page))' = f
      BY <1>1, <1>4, <2>1, <2>2
    <2>8. QED
      BY <2>6, <2>7 DEF ImageOf
  <1>13. LoadedInv'
    <2>1. \A k \in 1 .. seg : IsLoad(headers[k]) =>
           /\ PageStart(headers[k]) <= PageEnd(headers[k])
           /\ \A q \in PageStart(headers[k]) .. PageEnd(headers[k]) : Loaded(k, q)'
      BY <1>11 DEF Intact, LoadedInv
    <2>2. \A q \in PageStart(segment) .. page - 1 : Loaded(seg + 1, q)'
      BY <1>1, <1>11 DEF Intact, LoadedInv
    <2>3. QED
      BY <1>1, <1>4, <1>12, <2>1, <2>2 DEF LoadedInv
  <1>14. Claims'
    <2>1. /\ Vmap[page] = NoFrame /\ Vmap'[page] = addr
          /\ \A q \in KernelPages : q # page => Vmap'[q] = Vmap[q]
      BY <1>1, <1>3 DEF Vmap, KernelPages
    <2>2. claimed = {<<q, Vmap[q]>> : q \in {x \in KernelPages : Vmap[x] # NoFrame}}
      BY DEF Intact, Claims
    <2>3. claimed' = {<<q, Vmap'[q]>> : q \in {x \in KernelPages : Vmap'[x] # NoFrame}}
      BY <1>1, <1>3, <2>1, <2>2
    <2>4. QED
      BY <2>3 DEF Claims
  <1>15. QED
    BY <1>7, <1>8, <1>9, <1>10, <1>13, <1>14 DEF Intact

-----------------------------------------------------------------------------
(* Loading a segment.                                                      *)

(* The words of the file's buffer.                                         *)
LEMMA FileWord ==
    ASSUME BaseInv, WordsInv, NEW k \in 0 .. FileFrames * Fan - 1
    PROVE  /\ elf * Fan + k \in Addr
           /\ mem[elf * Fan + k] = <<"elf", k>> \/ (k = 0 /\ mem[elf * Fan + k] = <<"junk", 0>>)
  <1> DEFINE b == elf * Fan
             w == FileFrames * Fan
             e == (elf + FileFrames) * Fan
  <1>1. elf \in Nat /\ FileFrames \in Nat /\ FileFrames > 0 /\ elf + FileFrames \in Frame
    BY LoaderAssumption DEF BaseInv, OwnersInv, Frame
  <1>2. /\ b \in Nat /\ e \in Nat /\ e = b + w
        /\ \A a \in Addr : a \in b .. e - 1 <=> FrameOf(a) \in elf .. elf + FileFrames - 1
        /\ \A a \in Nat : a \in b .. e => a \in Addr
    BY ONLY <1>1, FrameSpan
  <1>3. w \in Nat
    BY <1>1, Fans
  <1>4. k \in 0 .. w - 1
    OBVIOUS
  <1>5. \A a \in Addr : FrameOf(a) \in elf .. elf + FileFrames - 1 =>
            mem[a] = <<"elf", a - b>> \/ (a = b /\ mem[a] = <<"junk", 0>>)
    BY DEF WordsInv, FileBuffer
  <1> HIDE DEF b, w, e
  <1>6. b + k \in b .. e - 1 /\ b + k \in Nat /\ b + k \in b .. e /\ (b + k) - b = k
    BY <1>2, <1>3, <1>4
  <1>7. b + k \in Addr /\ FrameOf(b + k) \in elf .. elf + FileFrames - 1
    BY <1>2, <1>6
  <1>8. b + k = b => k = 0
    BY <1>2, <1>4, <1>3
  <1>9. mem[b + k] = <<"elf", k>> \/ (k = 0 /\ mem[b + k] = <<"junk", 0>>)
    BY <1>5, <1>6, <1>7, <1>8
  <1>10. QED
    BY <1>7, <1>9 DEF b

(* What a step that loads a segment without a stray byte leaves.           *)
LEMMA LoadedWords ==
    ASSUME WalkInv, Intact, LoadSegment, Sound', NEW h, h = segment, NEW s \in Frame,
           PageCount(h) > 0, s + PageCount(h) \in Frame,
           \A f \in s .. s + PageCount(h) - 1 : f \in Frame /\ owner[f] = "free",
           SegmentIn(h, s, mem'),
           trouble' = trouble \cup IF Smeared(mem, mem', (s + PageCount(h)) * Fan)
                                   THEN {"smear"} ELSE {}
    PROVE  /\ \A a \in Addr : FrameOf(a) \notin s .. s + PageCount(h) - 1 =>
                  mem'[a] = mem[a] \/ (a = elf * Fan /\ mem'[a] = <<"junk", 0>>)
           /\ \A a \in Addr : FrameOf(a) \in s .. s + PageCount(h) - 1 =>
                  mem'[a][1] \in {"zero", "elf", "junk"}
           /\ \A p \in PageStart(h) .. PageEnd(h) : ImageOf(h, p, s + (p - PageStart(h)))'
  <1> DEFINE n == PageCount(h)
             skip == h.offset % Fan
             base == s * Fan
             end == (s + n) * Fan
             words == n * Fan
             file == elf * Fan
             size == FileFrames * Fan
  <1>1. BaseInv /\ WordsInv /\ PlanInv /\ seg + 1 \in 1 .. Len(headers) /\ IsLoad(headers[seg + 1])
        /\ h = headers[seg + 1]
    BY LoadSegmentDoes DEF WalkInv, BaseInv, Intact, segment
  <1>2. /\ h.offset \in Nat /\ h.filesz \in Nat /\ h.memsz \in Nat /\ h.filesz <= h.memsz
        /\ h.offset + h.filesz <= size /\ skip + h.memsz <= words
        /\ PageStart(h) \in Nat /\ PageEnd(h) \in Nat /\ n = PageEnd(h) - PageStart(h) + 1 /\ n \in Nat
    BY <1>1, SegmentFacts
  <1>3. /\ s \in Nat /\ base \in Nat /\ end \in Addr /\ end \in Nat /\ end = base + words
        /\ \A a \in Addr : a \in base .. end - 1 <=> FrameOf(a) \in s .. s + n - 1
        /\ \A a \in Nat : a \in base .. end => a \in Addr
    <2>1. s \in Nat
      BY LoaderAssumption DEF Frame
    <2>2. QED
      BY <1>2, <2>1, FrameSpan
  <1>4. skip \in Nat /\ file \in Nat /\ size \in Nat /\ words \in Nat
    <2>1. skip \in Nat
      BY <1>2, Fans
    <2>2. file \in Nat
      BY <1>1, Fans, LoaderAssumption DEF BaseInv, OwnersInv, Frame
    <2>3. size \in Nat /\ words \in Nat
      BY <1>2, Fans, LoaderAssumption
    <2>4. QED
      BY <2>1, <2>2, <2>3
  <1>5. Placed(mem, mem', base, end, skip, h.filesz, h.memsz, file + h.offset)
    BY DEF SegmentIn
  <1>6. \A k \in 0 .. size - 1 : /\ file + k \in Addr
                                 /\ mem[file + k] = <<"elf", k>> \/ (k = 0 /\ mem[file + k] = <<"junk", 0>>)
    BY <1>1, FileWord
  <1>7. ~Smeared(mem, mem', end)
    BY DEF Sound
  <1>8. \A a \in Addr : a \in Nat
    BY DEF Addr
  <1> HIDE DEF skip, base, end, words, file, size
  <1>9. ASSUME NEW a \in Addr, a \notin base .. end - 1
        PROVE  mem'[a] = mem[a] \/ (a = elf * Fan /\ mem'[a] = <<"junk", 0>>)
    <2>1. CASE a = end
      <3>1. mem'[a] = mem[a] \/ mem'[a] \in Smears(mem[a])
        BY <1>5, <2>1 DEF Placed
      <3>2. ~Smeared(mem, mem', a)
        BY <1>7, <2>1
      <3>3. QED
        BY <1>1, <3>1, <3>2, NotSmeared
    <2>2. CASE a # end
      <3>1. a \notin base .. end
        BY <1>3, <1>8, <1>9, <2>2
      <3>2. QED
        BY <1>5, <3>1 DEF Placed
    <2>3. QED
      BY <2>1, <2>2
  <1>10. ASSUME NEW a \in Addr, a \in base + skip .. base + skip + h.filesz - 1
         PROVE  /\ a - (base + skip) \in Nat
                /\ h.offset + (a - (base + skip)) \in 0 .. size - 1
                /\ mem'[a] = mem[file + (h.offset + (a - (base + skip)))]
    <2> DEFINE d == a - (base + skip)
    <2>1. d \in Nat /\ h.offset + d \in 0 .. size - 1
      BY <1>2, <1>3, <1>4, <1>8, <1>10
    <2>2. mem'[a] = mem[(file + h.offset) + d]
      BY <1>5, <1>10 DEF Placed
    <2> HIDE DEF d
    <2>3. (file + h.offset) + d = file + (h.offset + d)
      BY <1>2, <1>4, <2>1
    <2>4. QED
      BY <2>1, <2>2, <2>3 DEF d
  <1>11. ASSUME NEW a \in Addr, a \in base .. end - 1
         PROVE  mem'[a][1] \in {"zero", "elf", "junk"}
    <2>1. CASE a \in base + skip .. base + skip + h.filesz - 1
      <3>1. PICK k \in 0 .. size - 1 : mem'[a] = mem[file + k]
        BY <1>10, <2>1
      <3>2. QED
        BY <1>6, <3>1
    <2>2. CASE a \in base .. base + skip - 1 \/ a \in base + skip + h.filesz .. base + skip + h.memsz - 1
      <3>1. mem'[a] = Zero
        BY <1>5, <2>2 DEF Placed
      <3>2. QED
        BY <3>1 DEF Zero
    <2>3. CASE a >= base + skip + h.memsz
      <3>1. a < end
        BY <1>3, <1>8, <1>11
      <3>2. mem'[a] = mem[a] \/ mem'[a] \in Smears(mem[a])
        BY <1>5, <2>3, <3>1 DEF Placed
      <3>3. owner[FrameOf(a)] = "free"
        BY <1>3, <1>11
      <3>4. mem[a] = <<"junk", 0>>
        BY <1>1, <3>3 DEF WordsInv
      <3>5. QED
        BY <3>2, <3>4 DEF Smears
    <2>4. QED
      BY <1>2, <1>3, <1>4, <1>8, <1>11, <2>1, <2>2, <2>3
  <1>12. ASSUME NEW p \in PageStart(h) .. PageEnd(h)
         PROVE  ImageOf(h, p, s + (p - PageStart(h)))'
    <2> DEFINE d == p - PageStart(h)
               row == d * Fan
    <2>1. d \in Nat /\ d + 1 <= n /\ d \in 0 .. n - 1
      BY <1>2
    <2>2. row \in Nat /\ (s + d) * Fan = base + row /\ row + Fan <= words
      <3>1. d < n /\ Fan \in Nat
        BY <1>2, <2>1, Fans
      <3>2. d * Fan + Fan <= n * Fan /\ d * Fan \in Nat
        BY <1>2, <2>1, <3>1, Rows
      <3>3. (s + d) * Fan = s * Fan + d * Fan
        BY <1>3, <2>1, <3>1, Distributes
      <3>4. QED
        BY <3>2, <3>3 DEF base, words
    <2>3. ASSUME NEW j \in 0 .. Fan - 1
          PROVE  /\ skip <= row + j /\ row + j < skip + h.filesz /\ h.offset + ((row + j) - skip) > 0
                       => mem'[(s + d) * Fan + j] = <<"elf", h.offset + ((row + j) - skip)>>
                 /\ skip + h.filesz <= row + j /\ row + j < skip + h.memsz
                       => mem'[(s + d) * Fan + j] = Zero
      <3> DEFINE b == row + j
                 a == base + b
      <3>1. (s + d) * Fan + j = a /\ b \in Nat /\ b < words
        <4>1. Fan \in Nat /\ row \in Nat /\ base \in Nat /\ words \in Nat /\ row + Fan <= words
          BY <1>3, <1>4, <2>2, Fans
        <4>2. (s + d) * Fan + j = (base + row) + j
          BY <2>2
        <4> HIDE DEF row
        <4>3. (base + row) + j = base + (row + j) /\ row + j \in Nat /\ row + j < words
          BY <4>1
        <4>4. QED
          BY <4>2, <4>3
      <3> HIDE DEF b, row
      <3>2. a \in Nat /\ a \in base .. end - 1 /\ a \in Addr
        <4>1. a \in Nat /\ a \in base .. end - 1 /\ a \in base .. end
          BY <1>3, <1>4, <3>1
        <4>2. QED
          BY <1>3, <4>1
      <3>3. ASSUME skip <= b, b < skip + h.filesz, h.offset + (b - skip) > 0
            PROVE  mem'[a] = <<"elf", h.offset + (b - skip)>>
        <4>1. a \in base + skip .. base + skip + h.filesz - 1 /\ a - (base + skip) = b - skip
          BY <1>2, <1>3, <1>4, <3>1, <3>2, <3>3
        <4>2. /\ h.offset + (b - skip) \in 0 .. size - 1
              /\ mem'[a] = mem[file + (h.offset + (b - skip))]
          BY <1>10, <3>2, <4>1
        <4>3. PICK k \in 0 .. size - 1 : k = h.offset + (b - skip)
          BY <4>2
        <4>4. k # 0
          BY <3>3, <4>3
        <4>5. mem[file + k] = <<"elf", k>>
          BY <1>6, <4>4
        <4>6. QED
          BY <4>2, <4>3, <4>5
      <3>4. ASSUME skip + h.filesz <= b, b < skip + h.memsz PROVE mem'[a] = Zero
        <4>1. a \in base + skip + h.filesz .. base + skip + h.memsz - 1
          BY <1>2, <1>3, <1>4, <3>1, <3>2, <3>4
        <4>2. QED
          BY <1>5, <3>2, <4>1 DEF Placed
      <3>5. (s + d) * Fan + j = a /\ row + j = b
        BY <3>1 DEF b
      <3> HIDE DEF a, d
      <3>6. QED
        BY <3>3, <3>4, <3>5
    <2>4. ImageOf(h, p, s + d)'
      <3> HIDE DEF d
      <3>1. QED
        BY <2>3 DEF ImageOf, row, skip, d
    <2>5. QED
      BY <2>4
  <1>13. QED
    BY <1>3, <1>9, <1>11, <1>12

LEMMA LoadSegmentIntact ==
    ASSUME WalkInv, Intact, LoadSegment, [Next]_vars, Sound'
    PROVE  Intact' /\ Vmap' = Vmap
  <1>1. /\ BaseInv /\ step = "segment" /\ step' = "walk" /\ WordsInv /\ Tree(mem, cr3) /\ RootInv
        /\ UNCHANGED <<elf, cr3, map, seg, claimed>> /\ headers' = headers
        /\ segment = headers[seg + 1] /\ segment' = segment
    BY PlanKept DEF WalkInv, LoadSegment, Intact, segment
  <1>2. PICK h : h = segment
    OBVIOUS
  <1>3. /\ seg + 1 \in 1 .. Len(headers) /\ IsLoad(h) /\ h = headers[seg + 1]
        /\ \E s \in Frame :
                 /\ PageCount(h) \in Nat /\ PageCount(h) > 0
                 /\ s + PageCount(h) \in Frame
                 /\ \A f \in s .. s + PageCount(h) - 1 : f \in Frame /\ owner[f] = "free"
                 /\ OwnersInv'
                 /\ \A f \in Frame : owner[f] # "free" => owner'[f] = owner[f]
                 /\ \A f \in Frame : owner'[f] = IF f \in s .. s + PageCount(h) - 1
                                                 THEN "loader" ELSE owner[f]
                 /\ SegmentIn(h, s, mem')
                 /\ addr' = s /\ page' = PageStart(h)
                 /\ trouble' = trouble \cup
                        IF Smeared(mem, mem', (s + PageCount(h)) * Fan)
                        THEN {"smear"} ELSE {}
    BY <1>1, <1>2, LoadSegmentDoes
  <1>4. PICK s \in Frame :
                 /\ PageCount(h) \in Nat /\ PageCount(h) > 0
                 /\ s + PageCount(h) \in Frame
                 /\ \A f \in s .. s + PageCount(h) - 1 : f \in Frame /\ owner[f] = "free"
                 /\ \A f \in Frame : owner[f] # "free" => owner'[f] = owner[f]
                 /\ \A f \in Frame : owner'[f] = IF f \in s .. s + PageCount(h) - 1
                                                 THEN "loader" ELSE owner[f]
                 /\ SegmentIn(h, s, mem')
                 /\ addr' = s /\ page' = PageStart(h)
                 /\ trouble' = trouble \cup
                        IF Smeared(mem, mem', (s + PageCount(h)) * Fan)
                        THEN {"smear"} ELSE {}
    BY <1>3
  <1> DEFINE new == s .. s + PageCount(h) - 1
  <1>5. /\ \A a \in Addr : FrameOf(a) \notin new =>
                  mem'[a] = mem[a] \/ (a = elf * Fan /\ mem'[a] = <<"junk", 0>>)
        /\ \A a \in Addr : FrameOf(a) \in new => mem'[a][1] \in {"zero", "elf", "junk"}
        /\ \A p \in PageStart(h) .. PageEnd(h) : ImageOf(h, p, s + (p - PageStart(h)))'
    BY <1>2, <1>4, LoadedWords
  <1>6. /\ PageStart(h) \in Nat /\ PageEnd(h) \in Nat /\ PageCount(h) = PageEnd(h) - PageStart(h) + 1
        /\ s \in Nat /\ mem' \in [Addr -> Word] /\ \A a \in Addr : FrameOf(a) \in Frame
        /\ mem \in [Addr -> Word]
    <2>1. PageStart(h) \in Nat /\ PageEnd(h) \in Nat /\ PageCount(h) = PageEnd(h) - PageStart(h) + 1
      BY <1>1, <1>3, SegmentFacts DEF BaseInv
    <2>2. s \in Nat /\ \A a \in Addr : FrameOf(a) \in Frame
      BY AddrParts, LoaderAssumption DEF Frame, Addr
    <2>3. mem' \in [Addr -> Word] /\ mem \in [Addr -> Word]
      BY <1>1, <1>4 DEF SegmentIn, Placed, BaseInv, LoaderTypeOK
    <2>4. QED
      BY <2>1, <2>2, <2>3
  <1>7. \A f \in new : f \in Frame /\ owner[f] = "free" /\ owner'[f] = "loader"
    BY <1>4
  <1>8. FrameOf(elf * Fan) = elf /\ elf \in FileBuffer /\ \A f \in FileBuffer : f \in Frame /\ owner[f] = "loader"
    <2>1. FrameOf(elf * Fan) = elf /\ elf \in FileBuffer
      BY <1>1, FileStart
    <2>2. \A f \in FileBuffer : f \in Frame /\ owner[f] = "loader"
      BY <1>1, LoaderAssumption DEF BaseInv, OwnersInv, FileBuffer, Frame
    <2>3. QED
      BY <2>1, <2>2
  <1>9. /\ cr3 \in Frame /\ owner[cr3] = "loader" /\ cr3 \notin FileBuffer /\ OwnTables
    <2>1. /\ cr3 = map[1] /\ map[1] # NoFrame /\ OwnTables /\ cr3 \in Frame /\ cr3 \notin FileBuffer
      BY <1>1 DEF BaseInv, Started, RootInv, LoaderTypeOK
    <2>2. QED
      BY <2>1 DEF OwnTables
  <1>10. ASSUME NEW f \in Frame, owner[f] = "loader", f \notin FileBuffer, NEW a \in Addr, FrameOf(a) = f
         PROVE  mem'[a] = mem[a]
    BY <1>5, <1>7, <1>8, <1>10
  <1>11. \A a \in Addr, f \in Frame : mem'[a] = Pte(f) => mem[a] = Pte(f) /\ FrameOf(a) \notin new
    <2> SUFFICES ASSUME NEW a \in Addr, NEW f \in Frame, mem'[a] = Pte(f)
                 PROVE  mem[a] = Pte(f) /\ FrameOf(a) \notin new
      OBVIOUS
    <2>1. mem'[a][1] = "pte"
      BY DEF Pte
    <2>2. QED
      BY <1>5, <2>1
  <1>12. WordsInv'
    <2>1. \A a \in Addr : mem'[a][1] # "np"
      <3> SUFFICES ASSUME NEW a \in Addr PROVE mem'[a][1] # "np"
        OBVIOUS
      <3>1. mem[a][1] # "np"
        BY <1>1 DEF WordsInv
      <3>2. QED
        BY <1>5, <3>1
    <2>2. \A a \in Addr : owner'[FrameOf(a)] = "free" => mem'[a] = <<"junk", 0>>
      <3> SUFFICES ASSUME NEW a \in Addr, owner'[FrameOf(a)] = "free" PROVE mem'[a] = <<"junk", 0>>
        OBVIOUS
      <3>1. FrameOf(a) \notin new /\ owner[FrameOf(a)] = "free"
        BY <1>4, <1>6, <1>7
      <3>2. mem[a] = <<"junk", 0>>
        BY <1>1, <3>1 DEF WordsInv
      <3>3. QED
        BY <1>5, <3>1, <3>2
    <2>3. \A a \in Addr : FrameOf(a) \in FileBuffer =>
              mem'[a] = <<"elf", a - elf * Fan>> \/ (a = elf * Fan /\ mem'[a] = <<"junk", 0>>)
      <3> SUFFICES ASSUME NEW a \in Addr, FrameOf(a) \in FileBuffer
                   PROVE  mem'[a] = <<"elf", a - elf * Fan>> \/ (a = elf * Fan /\ mem'[a] = <<"junk", 0>>)
        OBVIOUS
      <3>1. FrameOf(a) \notin new
        BY <1>7, <1>8
      <3>2. mem[a] = <<"elf", a - elf * Fan>> \/ (a = elf * Fan /\ mem[a] = <<"junk", 0>>)
        BY <1>1 DEF WordsInv
      <3>3. mem'[a] = mem[a] \/ (a = elf * Fan /\ mem'[a] = <<"junk", 0>>)
        BY <1>5, <3>1
      <3>4. QED
        BY ONLY <3>2, <3>3
    <2>4. \A a \in Addr, f \in Frame : mem'[a] = Pte(f) =>
              owner'[FrameOf(a)] = "loader" /\ owner'[f] = "loader" /\ f \notin FileBuffer
      <3> SUFFICES ASSUME NEW a \in Addr, NEW f \in Frame, mem'[a] = Pte(f)
                   PROVE  owner'[FrameOf(a)] = "loader" /\ owner'[f] = "loader" /\ f \notin FileBuffer
        OBVIOUS
      <3>1. owner[FrameOf(a)] = "loader" /\ owner[f] = "loader" /\ f \notin FileBuffer
        BY <1>1, <1>11 DEF WordsInv
      <3>2. FrameOf(a) \in Frame
        BY <1>6
      <3>3. QED
        BY <1>4, <3>1, <3>2
    <2>5. QED
      BY <1>1, <2>1, <2>2, <2>3, <2>4 DEF WordsInv, FileBuffer
  <1>13. Tree(mem, cr3)'
    <2> DEFINE m2 == mem'
    <2> HIDE DEF m2
    <2>1. /\ m2 \in [Addr -> Word]
          /\ \A a \in Addr, f \in Frame : m2[a] = Pte(f) => mem[a] = Pte(f)
      BY <1>6, <1>11 DEF m2
    <2>2. Tree(m2, cr3)
      BY <1>1, <2>1, TreeKept
    <2>3. QED
      BY <1>1, <2>2 DEF m2, Tree
  <1>14. RootInv'
    <2>1. OwnTables'
      <3>1. ASSUME NEW l \in 1 .. 4, map'[l] # NoFrame
            PROVE  owner'[map'[l]] = "loader" /\ \A k \in 1 .. l - 1 : map'[k] # map'[l]
        <4>1. owner[map[l]] = "loader" /\ \A k \in 1 .. l - 1 : map[k] # map[l]
          BY <1>1, <1>9, <3>1 DEF OwnTables
        <4>2. map[l] \in Frame
          BY <1>1, <3>1 DEF BaseInv, LoaderTypeOK
        <4>3. QED
          BY <1>1, <1>4, <4>1, <4>2
      <3>2. QED
        BY <3>1 DEF OwnTables
    <2>2. \A j \in 0 .. Fan - 1 : mem'[cr3 * Fan + j] = mem[cr3 * Fan + j]
      <3> SUFFICES ASSUME NEW j \in 0 .. Fan - 1 PROVE mem'[cr3 * Fan + j] = mem[cr3 * Fan + j]
        OBVIOUS
      <3>1. cr3 * Fan + j \in Addr /\ FrameOf(cr3 * Fan + j) = cr3
        BY <1>9, SlotFacts
      <3>2. QED
        BY <1>9, <1>10, <3>1
    <2>3. /\ \A j \in 0 .. (Fan \div 2) - 1 : j \in 0 .. Fan - 1
          /\ \A j \in (Fan \div 2) .. Fan - 1 : j \in 0 .. Fan - 1
      BY Fans
    <2>4. \A j \in 0 .. (Fan \div 2) - 1 : mem'[cr3 * Fan + j] = <<"large", 0>>
      BY <1>1, <2>2, <2>3 DEF RootInv
    <2>5. \A j \in (Fan \div 2) .. Fan - 1 : mem'[cr3 * Fan + j][1] # "large"
      BY <1>1, <2>2, <2>3 DEF RootInv
    <2>6. QED
      BY <1>1, <1>9, <2>1, <2>4, <2>5 DEF RootInv, FileBuffer
  <1>15. PendingInv'
    <2>1. Pending' = s .. s + (PageEnd(h) - PageStart(h))
      BY <1>1, <1>2, <1>4 DEF Pending
    <2>2. \A f \in Pending' : f \in new
      BY <1>6, <2>1
    <2>3. ASSUME NEW f \in new, NEW a \in Addr PROVE mem'[a] # Pte(f)
      BY <1>1, <1>7, <1>11 DEF WordsInv
    <2>4. \A f \in new : f \notin FileBuffer /\ f # cr3
      BY <1>7, <1>8, <1>9
    <2>5. QED
      BY <1>1, <2>2, <2>3, <2>4 DEF PendingInv, FileBuffer
  <1>16. \A k, q : Loaded(k, q) => Loaded(k, q)'
    <2>1. ASSUME NEW q, NEW f, <<q, f>> \in claimed, NEW a \in Addr, FrameOf(a) = f
          PROVE  mem'[a] = mem[a]
      <3>1. f \in Frame /\ owner[f] = "loader" /\ f \notin FileBuffer
        BY <1>1, <2>1, ClaimFacts
      <3>2. QED
        BY <1>10, <2>1, <3>1
    <2>2. QED
      BY <1>1, <2>1, LoadedKept
  <1>17. LoadedInv'
    <2>1. \A k \in 1 .. seg : IsLoad(headers[k]) =>
           /\ PageStart(headers[k]) <= PageEnd(headers[k])
           /\ \A q \in PageStart(headers[k]) .. PageEnd(headers[k]) : Loaded(k, q)'
      BY <1>16 DEF Intact, LoadedInv
    <2>2. \A q \in PageStart(h) .. page' - 1 : FALSE
      BY <1>4, <1>6
    <2>3. \A q \in page' .. PageEnd(h) : ImageOf(segment, q, addr + (q - page))'
      <3> SUFFICES ASSUME NEW q \in page' .. PageEnd(h)
                   PROVE  ImageOf(segment, q, addr + (q - page))'
        OBVIOUS
      <3>1. q \in PageStart(h) .. PageEnd(h)
        BY <1>4
      <3>2. PICK f : f = s + (q - PageStart(h))
        OBVIOUS
      <3>3. ImageOf(h, q, f)'
        BY <1>5, <3>1, <3>2
      <3>4. segment' = h /\ (addr + (q - page))' = f
        BY <1>1, <1>2, <1>4, <3>2
      <3>5. QED
        BY <3>3, <3>4 DEF ImageOf
    <2>4. QED
      BY <1>1, <1>2, <2>1, <2>2, <2>3 DEF LoadedInv
  <1>18. \A q \in Page : Translate(mem', cr3, q) = Translate(mem, cr3, q)
    <2> SUFFICES ASSUME NEW q \in Page PROVE Translate(mem', cr3, q) = Translate(mem, cr3, q)
      OBVIOUS
    <2> DEFINE m2 == mem'
    <2>1. ASSUME NEW a \in Addr, FrameOf(a) = cr3 \/ (\E b \in Addr : mem[b] = Pte(FrameOf(a)))
          PROVE  m2[a] = mem[a]
      <3>1. CASE FrameOf(a) = cr3
        BY <1>9, <1>10, <3>1
      <3>2. CASE \E b \in Addr : mem[b] = Pte(FrameOf(a))
        <4>1. FrameOf(a) \in Frame /\ owner[FrameOf(a)] = "loader" /\ FrameOf(a) \notin FileBuffer
          BY <1>1, <1>6, <3>2 DEF WordsInv
        <4>2. QED
          BY <1>10, <4>1
      <3>3. QED
        BY <2>1, <3>1, <3>2
    <2> HIDE DEF m2
    <2>2. Translate(m2, cr3, q) = Translate(mem, cr3, q)
      BY <1>1, <2>1, WalkKept
    <2>3. QED
      BY <2>2 DEF m2
  <1>19. Vmap' = Vmap
    BY <1>1, <1>18 DEF Vmap
  <1>20. Claims'
    BY <1>1, <1>19 DEF Intact, Claims
  <1>21. QED
    BY <1>12, <1>13, <1>14, <1>15, <1>17, <1>19, <1>20 DEF Intact

-----------------------------------------------------------------------------
(* A sound step keeps the mapping, and changes the address space in one    *)
(* place only.                                                             *)
LEMMA SoundStep ==
    ASSUME WalkInv, SoundInv, [Next]_vars, Sound'
    PROVE  Intact /\ Intact' /\ step' # "fault" /\ (Vmap' = Vmap \/ SetLeaf)
  <1>1. Intact /\ step # "fault" /\ trouble' = {} /\ step' # "wild"
    BY SoundBefore DEF SoundInv
  <1>2. UNCHANGED loadVars \/ (phase = "accepted" /\ LoadNext)
    BY PlanKept DEF WalkInv
  <1>3. CASE NewPml4
    <2>1. step' # "fault"
      BY <1>3 DEF NewPml4
    <2>2. QED
      BY <1>1, <1>3, <2>1, NewPml4Intact
  <1>4. CASE LoadSegment
    <2>1. step' # "fault"
      BY <1>4 DEF LoadSegment
    <2>2. QED
      BY <1>1, <1>4, <2>1, LoadSegmentIntact
  <1>5. CASE NewTable
    <2>1. step' # "fault"
      BY <1>5 DEF NewTable
    <2>2. QED
      BY <1>1, <1>5, <2>1, NewTableIntact
  <1>6. CASE SetLeaf
    <2>1. step' # "fault"
      BY <1>6 DEF SetLeaf
    <2>2. QED
      BY <1>1, <1>6, <2>1, SetLeafIntact
  <1>7. ~NewPml4Fails
    BY <1>1 DEF NewPml4Fails
  <1>8. ~NewTableFails
    <2> SUFFICES ASSUME NewTableFails PROVE FALSE
      OBVIOUS
    <2>1. step' = "wild" \/ trouble' = trouble \cup {"stale"}
      BY DEF NewTableFails
    <2>2. QED
      BY <1>1, <2>1
  <1>9. CASE UNCHANGED loadVars /\ step = "pml4"
    <2>1. UNCHANGED <<mem, owner, elf, cr3, map, seg, page, addr, level, step, claimed, trouble>>
          /\ headers' = headers
      BY <1>9, PlanKept DEF loadVars, WalkInv
    <2>2. Vmap' = Vmap
      BY <2>1 DEF Vmap
    <2>3. WordsInv' /\ Tree(mem, cr3)' /\ RootInv'
      BY <1>1, <2>1 DEF Intact, WordsInv, Tree, RootInv, OwnTables, FileBuffer
    <2>4. PendingInv' /\ Claims'
      BY <1>1, <1>9, <2>1, <2>2 DEF Intact, PendingInv, Pending, Claims
    <2>5. LoadedInv'
      <3>1. seg = 0
        BY <1>9 DEF WalkInv, BaseInv, Started
      <3>2. QED
        BY <1>9, <2>1, <3>1 DEF LoadedInv
    <2>6. QED
      BY <1>1, <2>1, <2>2, <2>3, <2>4, <2>5 DEF Intact
  <1>10. CASE step # "pml4" /\ (\/ UNCHANGED loadVars \/ SkipSegment \/ LoadSegmentFails \/ FollowTable
                                \/ TestMapping \/ TestFaults \/ EnterKernel)
    BY <1>1, <1>10, QuietSteps
  <1>11. SkipSegment \/ LoadSegmentFails \/ FollowTable \/ TestMapping \/ TestFaults \/ EnterKernel
            => step # "pml4"
    BY DEF SkipSegment, LoadSegmentFails, FollowTable, TestMapping, TestFaults, EnterKernel
  <1>12. QED
    BY <1>2, <1>3, <1>4, <1>5, <1>6, <1>7, <1>8, <1>9, <1>10, <1>11 DEF LoadNext

LEMMA FaultStep ==
    ASSUME WalkInv, SoundInv, FaultInv, [Next]_vars
    PROVE  FaultInv'
  <1> SUFFICES ASSUME trouble' = {}, step' = "wild"
               PROVE  \/ map'[1] = elf'
                      \/ level' = 1 /\ page' \notin KernelPages
                      \/ mem'[Here'] = Zero /\ map'[level' + 1] = NoFrame
    BY DEF FaultInv
  <1>1. BaseInv /\ (UNCHANGED loadVars \/ LoadNext)
    BY PlanKept DEF WalkInv
  <1>2. CASE UNCHANGED loadVars
    BY <1>2 DEF loadVars, FaultInv, Here
  <1>3. CASE NewPml4Fails
    BY <1>1, <1>3 DEF NewPml4Fails, BaseInv, LoaderTypeOK
  <1>4. CASE NewTableFails
    <2>1. map[level + 1] = NoFrame /\ mem[Here] = Zero /\ UNCHANGED <<mem, level, map, page>>
      BY <1>4 DEF NewTableFails
    <2>2. Here' = Here
      BY <2>1 DEF Here
    <2>3. QED
      BY <2>1, <2>2
  <1>5. CASE FollowTable
    <2>1. trouble = {} /\ step = "walk"
      BY <1>5 DEF FollowTable
    <2>2. Intact
      BY <2>1 DEF SoundInv, Sound
    <2>3. QED
      BY <1>5, <2>1, <2>2, FollowsOwn
  <1>6. CASE LoadNext /\ ~NewPml4Fails /\ ~NewTableFails /\ ~FollowTable
    <2>1. step' # "wild"
      BY <1>6 DEF LoadNext, NewPml4, SkipSegment, LoadSegment, LoadSegmentFails, NewTable,
                  SetLeaf, TestMapping, TestFaults, EnterKernel
    <2>2. QED
      BY <2>1
  <1>7. QED
    BY <1>1, <1>2, <1>3, <1>4, <1>5, <1>6

LEMMA MapInit == LoaderInit => MapInv
  <1> SUFFICES ASSUME LoaderInit PROVE MapInv
    OBVIOUS
  <1>1. step = "pml4"
    BY DEF LoaderInit
  <1>2. QED
    BY <1>1, WalkInit, SoundInit DEF MapInv, SoundInv, FaultInv, EnteredInv

LEMMA MapStep == ASSUME MapInv, [Next]_vars PROVE MapInv'
  <1>1. WalkInv'
    BY WalkStep DEF MapInv
  <1>2. SoundInv'
    BY SoundStep DEF MapInv, SoundInv
  <1>3. FaultInv'
    BY FaultStep DEF MapInv
  <1>4. EnteredInv'
    <2>1. headers' = headers /\ (UNCHANGED loadVars \/ LoadNext)
      BY PlanKept DEF MapInv, WalkInv
    <2>2. CASE UNCHANGED loadVars
      BY <2>1, <2>2 DEF loadVars, MapInv, EnteredInv, HasSegment
    <2>3. CASE EnterKernel
      BY <2>1, <2>3 DEF EnterKernel, EnteredInv, HasSegment
    <2>4. CASE LoadNext /\ ~EnterKernel
      <3>1. step' # "entered"
        BY <2>4 DEF LoadNext, NewPml4, NewPml4Fails, SkipSegment, LoadSegment, LoadSegmentFails,
                    NewTable, NewTableFails, FollowTable, SetLeaf, TestMapping, TestFaults
      <3>2. QED
        BY <3>1 DEF EnteredInv
    <2>5. QED
      BY <2>1, <2>2, <2>3, <2>4
  <1>5. QED
    BY <1>1, <1>2, <1>3, <1>4 DEF MapInv

-----------------------------------------------------------------------------
(* "Mapped X to Y" stays true for as long as nothing goes wrong, and is    *)
(* said of every page of the kernel that is mapped (main.c:932).           *)
THEOREM ClaimsStayTrue == Spec => []ClaimsHold
  <1>1. MapInv => ClaimsHold
    BY DEF MapInv, SoundInv, Intact, Claims, ClaimsHold
  <1>2. MapInv /\ [Next]_vars => MapInv'
    BY MapStep
  <1>3. QED
    BY <1>1, <1>2, MapInit, PTL DEF Spec

(* A page of the kernel has its frame for itself: no other page is mapped  *)
(* to it, one entry points to it, and it is neither the file's nor the     *)
(* firmware's (main.c:866-931).                                            *)
THEOREM FramesAreExclusive == Spec => []FramesExclusive
  <1>1. ASSUME MapInv, Sound PROVE FramesExclusive
    <2> DEFINE mapped == {p \in KernelPages : Vmap[p] # NoFrame}
    <2>1. WalkInv /\ Intact /\ Tree(mem, cr3) /\ claimed = {<<p, Vmap[p]>> : p \in mapped}
      BY <1>1 DEF MapInv, SoundInv, Intact, Claims
    <2>2. \A p \in mapped : <<p, Vmap[p]>> \in claimed /\ step # "pml4"
      <3> SUFFICES ASSUME NEW p \in mapped PROVE <<p, Vmap[p]>> \in claimed /\ step # "pml4"
        OBVIOUS
      <3>1. <<p, Vmap[p]>> \in claimed
        BY <2>1
      <3>2. QED
        BY <2>1, <3>1 DEF WalkInv, BaseInv, Started
    <2>3. ASSUME NEW p \in mapped
          PROVE  /\ p \in Page /\ Vmap[p] \in Frame /\ Vmap[p] # NoFrame
                 /\ Vmap[p] = TableAt(mem, cr3, p, 5)
                 /\ owner[Vmap[p]] = "loader" /\ Vmap[p] \notin FileBuffer
                 /\ \E a \in Addr : mem[a] = Pte(Vmap[p])
      <3>1. PICK f : f = Vmap[p]
        OBVIOUS
      <3>2. <<p, f>> \in claimed /\ step # "pml4"
        BY <2>2, <3>1
      <3>3. /\ p \in Page /\ f \in Frame /\ f # NoFrame /\ f = TableAt(mem, cr3, p, 5)
            /\ owner[f] = "loader" /\ f \notin FileBuffer /\ \E a \in Addr : mem[a] = Pte(f)
        BY <2>1, <3>2, ClaimFacts
      <3>4. QED
        BY <3>1, <3>3
    <2>4. \A p, q \in mapped : Vmap[p] = Vmap[q] => p = q
      <3> SUFFICES ASSUME NEW p \in mapped, NEW q \in mapped, Vmap[p] = Vmap[q] PROVE p = q
        OBVIOUS
      <3>1. /\ p \in Page /\ q \in Page /\ TableAt(mem, cr3, p, 5) = TableAt(mem, cr3, q, 5)
            /\ TableAt(mem, cr3, p, 5) # NoFrame /\ 5 \in 1 .. 5
        BY <2>3
      <3>2. Prefix(p, 5) = Prefix(q, 5)
        BY <2>1, <3>1, UniquePath
      <3>3. QED
        BY <3>2 DEF Prefix
    <2>5. ASSUME NEW p \in mapped PROVE Cardinality({a \in Addr : mem[a] = Pte(Vmap[p])}) = 1
      <3>1. PICK a \in Addr : mem[a] = Pte(Vmap[p])
        BY <2>3
      <3>2. \A b \in Addr : mem[b] = Pte(Vmap[p]) => b = a
        BY <2>1, <2>3, <3>1 DEF Tree
      <3>3. {b \in Addr : mem[b] = Pte(Vmap[p])} = {a}
        BY <3>1, <3>2
      <3>4. QED
        BY <3>3, FS_Singleton
    <2>6. QED
      BY <2>3, <2>4, <2>5 DEF FramesExclusive, FileBuffer
  <1>2. MapInv => FramesExclusive
    BY <1>1 DEF FramesExclusive
  <1>3. MapInv /\ [Next]_vars => MapInv'
    BY MapStep
  <1>4. QED
    BY <1>2, <1>3, MapInit, PTL DEF Spec

(* Without an unchecked failure or a stray byte neither the mapping test   *)
(* nor the kernel's entry faults (main.c:938, 949).                        *)
THEOREM FaultsExplained == Spec => []FaultExplained
  <1>1. MapInv => FaultExplained
    BY DEF MapInv, SoundInv, FaultInv, Sound, FaultExplained
  <1>2. MapInv /\ [Next]_vars => MapInv'
    BY MapStep
  <1>3. QED
    BY <1>1, <1>2, MapInit, PTL DEF Spec

-----------------------------------------------------------------------------
(* The abstract address space.                                             *)
LEMMA Translates ==
    ASSUME NEW m, NEW r, Tree(m, r), NEW p \in Page
    PROVE  Translate(m, r, p) \in (Frame \cup Page) \cup {NoFrame}
  <1>1. 5 \in 1 .. 5
    OBVIOUS
  <1>2. TableAt(m, r, p, 5) # NoFrame => TableAt(m, r, p, 5) \in Frame
    BY <1>1, Reached
  <1>3. Translate(m, r, p) = IF m[EntryAddr(r, p, 1)][1] = "large" THEN p ELSE TableAt(m, r, p, 5)
    BY ONLY TableSteps
  <1>4. QED
    BY <1>2, <1>3

LEMMA AbstractInit == LoaderInit => AS!Init
  <1> SUFFICES ASSUME LoaderInit PROVE AS!Init
    OBVIOUS
  <1>1. Tree(mem, cr3) /\ trouble = {} /\ step = "pml4"
    BY SoundInit DEF Intact, LoaderInit
  <1>2. Vmap \in [Page -> (Frame \cup Page) \cup {NoFrame}]
    BY <1>1, Translates DEF Vmap
  <1>3. Sound
    BY <1>1 DEF Sound
  <1>4. QED
    BY <1>2, <1>3 DEF AS!Init, AS!InitialMap

LEMMA AbstractStep ==
    ASSUME MapInv, [Next]_vars
    PROVE  AS!Next \/ UNCHANGED <<Vmap, ~Sound>>
  <1>1. WalkInv /\ SoundInv
    BY DEF MapInv
  <1>2. CASE ~Sound'
    BY <1>2 DEF AS!Next, AS!Lose
  <1>3. CASE Sound'
    <2>1. Sound /\ Intact /\ (Vmap' = Vmap \/ SetLeaf)
      BY <1>1, <1>3, SoundStep, SoundBefore
    <2>2. CASE Vmap' = Vmap
      BY <1>3, <2>1, <2>2
    <2>3. CASE SetLeaf
      <3>1. PICK p : p = page
        OBVIOUS
      <3>2. /\ p \in Page /\ addr \in Frame /\ cr3' = cr3
            /\ Translate(mem, cr3, p) = NoFrame /\ Translate(mem', cr3, p) = addr
            /\ \A q \in Page : q # p => Translate(mem', cr3, q) = Translate(mem, cr3, q)
        BY <1>1, <2>1, <2>3, <3>1, LeafMaps DEF SetLeaf
      <3>3. /\ Vmap[p] = NoFrame /\ Vmap'[p] \in Frame \cup Page
            /\ Vmap' = [Vmap EXCEPT ![p] = Vmap'[p]]
        BY <3>2 DEF Vmap
      <3>4. AS!Map
        BY <1>3, <2>1, <3>2, <3>3 DEF AS!Map
      <3>5. QED
        BY <3>4 DEF AS!Next
    <2>4. QED
      BY <2>1, <2>2, <2>3
  <1>4. QED
    BY <1>2, <1>3

(* The page tables implement the abstract address space: a step maps one   *)
(* page that was not mapped, or changes no mapping (main.c:866-945).       *)
THEOREM TablesImplementSpace == Spec => ImplementsAddressSpace
  <1>1. MapInv /\ [Next]_vars => [AS!Next]_<<Vmap, ~Sound>>
    BY AbstractStep
  <1>2. MapInv /\ [Next]_vars => MapInv'
    BY MapStep
  <1>3. QED
    BY <1>1, <1>2, MapInit, AbstractInit, PTL DEF Spec, ImplementsAddressSpace, AS!Spec

-----------------------------------------------------------------------------
(* What the kernel finds at its entry.                                     *)

(* Where byte b behind address v lies, counted from the first page of v.   *)
LEMMA PlaceInPages ==
    ASSUME NEW v \in Nat, NEW b \in Nat, NEW n \in Nat, (v % Fan) + b < n * Fan
    PROVE  /\ (v + b) \div Fan \in v \div Fan .. (v \div Fan) + n - 1
           /\ (v + b) % Fan \in 0 .. Fan - 1
           /\ (((v + b) \div Fan) - (v \div Fan)) * Fan + ((v + b) % Fan) = (v % Fan) + b
  <1> DEFINE q == v \div Fan
             r == v % Fan
             c == r + b
             d == c \div Fan
             j == c % Fan
  <1>1. Fan \in Nat \ {0}
    BY Fans
  <1>2. q \in Nat /\ r \in 0 .. Fan - 1 /\ v = q * Fan + r
    BY <1>1, Division
  <1>3. c \in Nat
    BY <1>1, <1>2
  <1>4. d \in Nat /\ j \in 0 .. Fan - 1 /\ c = d * Fan + j
    <2> HIDE DEF c
    <2>1. QED
      BY <1>1, <1>3, Division
  <1> HIDE DEF q, r, d, j, Fan
  <1>5. (q + d) * Fan = q * Fan + d * Fan /\ q * Fan \in Int /\ d * Fan \in Int
    BY <1>1, <1>2, <1>4, Distributes
  <1>6. v + b = (q + d) * Fan + j
    <2> DEFINE x == q * Fan
               y == d * Fan
    <2>1. x \in Int /\ y \in Int /\ v = x + r /\ r + b = y + j /\ (q + d) * Fan = x + y
      BY <1>2, <1>4, <1>5 DEF c
    <2> HIDE DEF x, y
    <2>2. v + b = (x + y) + j
      BY ONLY <2>1, <1>1, <1>2, <1>4, v \in Nat, b \in Nat
    <2>3. QED
      BY <2>1, <2>2
  <1>7. (v + b) \div Fan = q + d /\ (v + b) % Fan = j
    <2>1. v + b \in Nat /\ q + d \in Nat
      BY <1>2, <1>4
    <2> DEFINE w == v + b
               e == q + d
    <2>2. w \in Nat /\ e \in Nat /\ w = e * Fan + j /\ j \in 0 .. Fan - 1
      BY <1>4, <1>6, <2>1
    <2> HIDE DEF w, e
    <2>3. w \div Fan = e /\ w % Fan = j
      BY <1>1, <2>2, DivisionIs
    <2>4. QED
      BY <2>3 DEF w, e
  <1>8. d < n
    <2> SUFFICES ASSUME n <= d PROVE FALSE
      BY <1>4
    <2> DEFINE x == n * Fan
               y == d * Fan
    <2>1. x <= y /\ x \in Nat /\ y \in Nat
      <3>1. CASE n = d
        BY <1>1, <1>4, <3>1
      <3>2. CASE n < d
        <4>1. x + Fan <= y /\ x \in Nat /\ y \in Nat
          BY <1>1, <1>4, <3>2, Rows
        <4>2. QED
          BY <4>1, <1>1
      <3>3. QED
        BY <1>4, <3>1, <3>2
    <2>2. c < x /\ c = y + j
      BY <1>4 DEF r
    <2> HIDE DEF x, y, c
    <2>3. QED
      BY <1>1, <1>3, <1>4, <2>1, <2>2
  <1>9. (q + d) - q = d
    BY <1>2, <1>4
  <1>10. QED
    <2>1. q + d \in q .. q + n - 1
      BY <1>2, <1>4, <1>8
    <2>2. ((v + b) \div Fan) - q = d
      BY <1>7, <1>9
    <2>3. QED
      BY <1>4, <1>7, <2>1, <2>2 DEF q, r, c

(* At the kernel's entry every byte of every segment is the file's, or     *)
(* zero behind the file's part, where the file asks for it (main.c:878-883,*)
(* 949).                                                                   *)
THEOREM KernelIsLoaded == Spec => []KernelImage
  <1>1. ASSUME MapInv, step = "entered", Sound,
               NEW k \in 1 .. Len(headers), IsLoad(headers[k]),
               headers[k].offset % PageSize = headers[k].vaddr % PageSize,
               NEW b \in 0 .. headers[k].memsz - 1, headers[k].offset + b > 0
        PROVE  mem[(Vmap[(headers[k].vaddr + b) \div Fan] * Fan) + ((headers[k].vaddr + b) % Fan)]
                   = IF b < headers[k].filesz THEN <<"elf", headers[k].offset + b>> ELSE Zero
    <2>1. WalkInv /\ Intact /\ LoadedInv /\ PlanInv /\ seg = Len(headers)
      <3>1. WalkInv /\ Intact /\ ~HasSegment
        BY <1>1 DEF MapInv, SoundInv, EnteredInv
      <3>2. seg \in 0 .. Len(headers) /\ Len(headers) \in Nat /\ PlanInv
        BY <3>1 DEF WalkInv, BaseInv, LoaderTypeOK, PlanInv, PlanTypeOK
      <3>3. QED
        BY <3>1, <3>2 DEF HasSegment, Intact
    <2>2. PICK h : h = headers[k]
      OBVIOUS
    <2>3. /\ h.vaddr \in Nat /\ h.memsz \in Nat /\ h.offset \in Nat /\ h.filesz \in Nat
          /\ h.filesz <= h.memsz
          /\ (h.offset % Fan) + h.memsz <= PageCount(h) * Fan
          /\ PageStart(h) \in Nat /\ PageEnd(h) \in Nat
          /\ PageCount(h) = PageEnd(h) - PageStart(h) + 1 /\ PageCount(h) \in Nat
      BY <1>1, <2>1, <2>2, SegmentFacts
    <2> DEFINE x == h.vaddr + b
               p == x \div Fan
               j == x % Fan
               skip == h.offset % Fan
               words == PageCount(h) * Fan
    <2>4. /\ PageStart(h) = h.vaddr \div Fan /\ skip = h.vaddr % Fan /\ skip \in Nat /\ words \in Nat
          /\ b \in Nat /\ b < h.memsz /\ h.offset + b > 0
      <3>1. PageStart(h) = h.vaddr \div Fan /\ skip = h.vaddr % Fan
        BY <1>1, <2>2 DEF PageStart, Fan
      <3>2. skip \in Nat
        <4> HIDE DEF x, p, j, words, skip
        <4>1. h.offset \in Nat
          BY <2>3
        <4>2. skip \in Nat
          BY ONLY <4>1, Fans DEF skip
        <4>3. QED
          BY <4>2
      <3>3. words \in Nat
        <4> HIDE DEF x, p, j, skip, words
        <4>1. PageCount(h) \in Nat
          BY <2>3
        <4>2. QED
          BY ONLY <4>1, Fans DEF words
      <3>4. b \in Nat /\ b < h.memsz /\ h.offset + b > 0
        BY <1>1, <2>2, <2>3
      <3>5. QED
        BY <3>1, <3>2, <3>3, <3>4
    <2> HIDE DEF p, j, skip, words
    <2>4a. /\ skip \in Nat /\ words \in Nat /\ b \in Nat /\ h.memsz \in Nat /\ h.filesz \in Nat
           /\ b < h.memsz /\ skip + h.memsz <= words
      BY <2>3, <2>4 DEF skip, words
    <2>5. (h.vaddr % Fan) + b < words
      <3>1. skip + b < words
        BY ONLY <2>4a
      <3>2. QED
        BY <2>4, <3>1
    <2> USE DEF p, j, skip, words
    <2>6. /\ p \in h.vaddr \div Fan .. (h.vaddr \div Fan) + PageCount(h) - 1
          /\ j \in 0 .. Fan - 1
          /\ (p - (h.vaddr \div Fan)) * Fan + j = (h.vaddr % Fan) + b
      BY <2>3, <2>4, <2>5, PlaceInPages
    <2> HIDE DEF p, j, skip, words
    <2>7. /\ p \in PageStart(h) .. PageEnd(h) /\ j \in 0 .. Fan - 1
          /\ (p - PageStart(h)) * Fan + j = skip + b
      BY <2>3, <2>4, <2>6
    <2>8. Loaded(k, p)
      BY <1>1, <2>1, <2>2, <2>7 DEF LoadedInv
    <2>9. PICK f \in Frame : <<p, f>> \in claimed /\ ImageOf(h, p, f)
      BY <2>2, <2>8 DEF Loaded
    <2>10. Vmap[p] = f
      BY <1>1, <2>1, <2>9, ClaimFacts DEF Vmap
    <2>11. /\ skip <= skip + b /\ skip + b < skip + h.filesz /\ h.offset + ((skip + b) - skip) > 0
                  => mem[f * Fan + j] = <<"elf", h.offset + ((skip + b) - skip)>>
           /\ skip + h.filesz <= skip + b /\ skip + b < skip + h.memsz => mem[f * Fan + j] = Zero
      BY <2>7, <2>9 DEF ImageOf, skip
    <2>12. mem[f * Fan + j] = IF b < h.filesz THEN <<"elf", h.offset + b>> ELSE Zero
      <3>1. CASE b < h.filesz
        <4>1. (skip + b) - skip = b /\ skip <= skip + b /\ skip + b < skip + h.filesz
          BY ONLY <2>4a, <3>1
        <4>2. QED
          BY <2>4, <2>11, <3>1, <4>1
      <3>2. CASE ~(b < h.filesz)
        <4>1. skip + h.filesz <= skip + b /\ skip + b < skip + h.memsz
          BY ONLY <2>4a, <3>2
        <4>2. QED
          BY <2>11, <3>2, <4>1
      <3>3. QED
        BY <3>1, <3>2
    <2>13. QED
      BY <2>2, <2>10, <2>12 DEF p, j
  <1>2. MapInv => KernelImage
    BY <1>1 DEF KernelImage
  <1>3. MapInv /\ [Next]_vars => MapInv'
    BY MapStep
  <1>4. QED
    BY <1>2, <1>3, MapInit, PTL DEF Spec

=============================================================================
