--------------------------- MODULE TreeWalkProofs --------------------------
(* Proofs about TreeWalk, for every volume.                                *)
EXTENDS TreeWalk, TLAPS, FiniteSetTheorems, SequenceTheorems

EntryOf(a) == EntriesOf[a.file][a.pos + 1]

(* What an activation may look like: one that reads has a directory, one   *)
(* that waits for a callee has it at an entry that is a node.              *)
SoundActivation(a) ==
    /\ a \in Activation
    /\ a.at = "info" => a.pos = 0
    /\ a.at # "info" => a.file \in Directories /\ a.pos <= Len(EntriesOf[a.file])
    /\ a.at = "close" => a.pos < Len(EntriesOf[a.file]) /\ EntryOf(a) \in Nodes

(* The stack is a path down the volume: every caller waits at the entry    *)
(* its callee was called for.                                              *)
Path(s) ==
    /\ s \in Seq(Activation)
    /\ \A k \in 1 .. Len(s) : SoundActivation(s[k])
    /\ \A k \in 1 .. Len(s) - 1 : s[k].at = "close" /\ s[k + 1].file = EntryOf(s[k])

StackInv ==
    /\ Path(stack)
    /\ listing \in Seq(Nat \X (Nodes \cup {"error"}))
    /\ open \in [Nodes -> Int] /\ failed \subseteq Nodes

(* The three things that happen to the stack: the last activation returns, *)
(* it goes on, it calls.                                                   *)
LEMMA FirstOnes ==
    ASSUME NEW S, NEW s \in Seq(S), NEW m \in 0 .. Len(s)
    PROVE  /\ SubSeq(s, 1, m) \in Seq(S) /\ Len(SubSeq(s, 1, m)) = m
           /\ \A k \in 1 .. m : SubSeq(s, 1, m)[k] = s[k]
  OBVIOUS

LEMMA PathOfCallers ==
    ASSUME NEW s, Path(s), s # <<>>
    PROVE  /\ Path(SubSeq(s, 1, Len(s) - 1))
           /\ Len(SubSeq(s, 1, Len(s) - 1)) = Len(s) - 1
           /\ \A k \in 1 .. Len(s) - 1 : SubSeq(s, 1, Len(s) - 1)[k] = s[k]
  <1> DEFINE c == SubSeq(s, 1, Len(s) - 1)
  <1>1. s \in Seq(Activation) /\ Len(s) \in Nat /\ Len(s) >= 1
    BY DEF Path
  <1>2. /\ c \in Seq(Activation) /\ Len(c) = Len(s) - 1
        /\ \A k \in 1 .. Len(s) - 1 : c[k] = s[k]
    <2>1. Len(s) - 1 \in 0 .. Len(s)
      BY <1>1
    <2>2. QED
      BY <1>1, <2>1, FirstOnes
  <1> HIDE DEF c
  <1>3. \A k \in 1 .. Len(c) : k \in 1 .. Len(s) /\ c[k] = s[k]
    BY <1>1, <1>2
  <1>4. \A k \in 1 .. Len(c) - 1 : k \in 1 .. Len(s) - 1 /\ k + 1 \in 1 .. Len(c)
    BY <1>1, <1>2
  <1>5. Path(c)
    BY <1>2, <1>3, <1>4 DEF Path
  <1>6. QED
    BY <1>2, <1>5 DEF c

(* t is s with a in the place of its last activation.                      *)
LastIs(s, a, t) ==
    /\ s # <<>> /\ t = [s EXCEPT ![Len(s)] = a]
    /\ SoundActivation(a) /\ a.file = s[Len(s)].file

LEMMA PathGoesOn ==
    ASSUME NEW s, NEW a, NEW t, Path(s), LastIs(s, a, t)
    PROVE  /\ Path(t) /\ Len(t) = Len(s) /\ t[Len(s)] = a
           /\ \A k \in 1 .. Len(s) - 1 : t[k] = s[k]
           /\ \A k \in 1 .. Len(s) : t[k].file = s[k].file
  <1>1. /\ s \in Seq(Activation) /\ Len(s) \in Nat /\ Len(s) >= 1 /\ a \in Activation
        /\ SoundActivation(a) /\ a.file = s[Len(s)].file /\ t = [s EXCEPT ![Len(s)] = a]
    BY DEF Path, SoundActivation, LastIs
  <1>2. /\ t \in Seq(Activation) /\ Len(t) = Len(s)
        /\ \A k \in 1 .. Len(s) - 1 : t[k] = s[k]
        /\ t[Len(s)] = a
    BY <1>1
  <1>3. \A k \in 1 .. Len(s) : k = Len(s) \/ k \in 1 .. Len(s) - 1
    BY <1>1
  <1>4. \A k \in 1 .. Len(s) : t[k].file = s[k].file /\ SoundActivation(t[k])
    BY <1>1, <1>2, <1>3 DEF Path
  <1>5. \A k \in 1 .. Len(s) - 1 : k + 1 \in 1 .. Len(s)
    BY <1>1
  <1>6. Path(t)
    BY <1>2, <1>4, <1>5 DEF Path
  <1>7. QED
    BY <1>2, <1>4, <1>6

LEMMA PathCalls ==
    ASSUME NEW s, Path(s), s # <<>>, s[Len(s)].at = "close",
           NEW t, t = Append(s, Call(EntryOf(s[Len(s)])))
    PROVE  /\ Path(t) /\ Len(t) = Len(s) + 1 /\ t[Len(t)] = Call(EntryOf(s[Len(s)]))
           /\ \A k \in 1 .. Len(s) : t[k] = s[k]
  <1> DEFINE c == Call(EntryOf(s[Len(s)]))
  <1>1. /\ s \in Seq(Activation) /\ Len(s) \in Nat /\ Len(s) >= 1
        /\ EntryOf(s[Len(s)]) \in Nodes
    BY DEF Path, SoundActivation
  <1>2. c \in Activation /\ SoundActivation(c) /\ c.file = EntryOf(s[Len(s)])
    BY <1>1 DEF Call, Activation, SoundActivation
  <1> HIDE DEF c
  <1>3. /\ t \in Seq(Activation) /\ Len(t) = Len(s) + 1 /\ t[Len(s) + 1] = c
        /\ \A k \in 1 .. Len(s) : t[k] = s[k]
    BY <1>1, <1>2 DEF c
  <1>4. \A k \in 1 .. Len(s) + 1 : k = Len(s) + 1 \/ k \in 1 .. Len(s)
    BY <1>1
  <1>5. \A k \in 1 .. Len(t) : SoundActivation(t[k])
    BY <1>2, <1>3, <1>4 DEF Path
  <1>6. \A k \in 1 .. Len(t) - 1 : k = Len(s) \/ (k \in 1 .. Len(s) - 1 /\ k + 1 \in 1 .. Len(s))
    BY <1>1, <1>3
  <1>7. \A k \in 1 .. Len(t) - 1 : k \in 1 .. Len(s) /\ t[k].at = "close"
                                 /\ t[k + 1].file = EntryOf(t[k])
    <2> SUFFICES ASSUME NEW k \in 1 .. Len(t) - 1
                 PROVE  k \in 1 .. Len(s) /\ t[k].at = "close" /\ t[k + 1].file = EntryOf(t[k])
      OBVIOUS
    <2>1. CASE k = Len(s)
      BY <1>1, <1>2, <1>3, <2>1
    <2>2. CASE k \in 1 .. Len(s) - 1 /\ k + 1 \in 1 .. Len(s)
      BY <1>1, <1>3, <2>2 DEF Path
    <2>3. QED
      BY <1>6, <2>1, <2>2
  <1>8. Path(t)
    BY <1>3, <1>5, <1>7 DEF Path
  <1>9. QED
    BY <1>3, <1>8 DEF c

(* What each action does to the stack, and to what is known of the entry   *)
(* the last activation is at.                                              *)
LEMMA TopSound ==
    ASSUME StackInv, stack # <<>>
    PROVE  /\ Len(stack) \in Nat /\ Len(stack) >= 1 /\ SoundActivation(Top)
           /\ Top.file \in Nodes /\ Entry = EntryOf(Top)
  <1>1. Len(stack) \in Nat /\ Len(stack) >= 1 /\ SoundActivation(Top)
    BY DEF StackInv, Path, Top
  <1>2. QED
    BY <1>1 DEF SoundActivation, Activation, Entry, EntryOf, Top

Returns == Callers = stack'

GoesOn(a) ==
    /\ SoundActivation(a) /\ a.file = Top.file
    /\ stack' = [stack EXCEPT ![Len(stack)] = a]

LEMMA MovedOn ==
    ASSUME NEW r \in Activation,
           NEW a, a = [r EXCEPT !.at = "read", !.pos = r.pos + 1]
    PROVE  a \in Activation /\ a.file = r.file /\ a.pos = r.pos + 1 /\ a.at = "read"
  <1>1. PICK f \in Nodes, n \in Nat, w \in {"info", "read", "close"} :
            r = [file |-> f, pos |-> n, at |-> w]
    BY DEF Activation
  <1>2. a = [file |-> f, pos |-> n + 1, at |-> "read"]
    BY <1>1
  <1>3. QED
    BY <1>1, <1>2 DEF Activation

LEMMA GoingOn ==
    ASSUME StackInv, stack # <<>>
    PROVE  /\ ListDirectory => GoesOn([Top EXCEPT !.at = "read"])
           /\ SkipDots => GoesOn([Top EXCEPT !.pos = Top.pos + 1])
           /\ CloseEntry => GoesOn([Top EXCEPT !.at = "read", !.pos = Top.pos + 1])
  <1>1. /\ SoundActivation(Top) /\ Top \in Activation /\ stack \in Seq(Activation)
        /\ Top = stack[Len(stack)]
    BY TopSound DEF SoundActivation, StackInv, Path, Top
  <1>2. Top.file \in Directories => Len(EntriesOf[Top.file]) \in Nat
    BY VolumeAssumption
  <1>3. ASSUME ListDirectory PROVE GoesOn([Top EXCEPT !.at = "read"])
    <2>1. Top.at = "info" /\ Top.file \in Directories
      BY <1>3 DEF ListDirectory, Running
    <2>2. SoundActivation([Top EXCEPT !.at = "read"])
      BY <1>1, <1>2, <2>1 DEF SoundActivation, Activation
    <2>3. stack' = [stack EXCEPT ![Len(stack)] = [Top EXCEPT !.at = "read"]]
      BY <1>1, <1>3 DEF ListDirectory
    <2>4. QED
      BY <1>1, <2>2, <2>3 DEF GoesOn, Activation
  <1>4. ASSUME SkipDots PROVE GoesOn([Top EXCEPT !.pos = Top.pos + 1])
    <2>1. Top.at = "read" /\ Top.pos < Len(EntriesOf[Top.file])
      BY <1>4 DEF SkipDots, AtEntry, Running
    <2>2. SoundActivation([Top EXCEPT !.pos = Top.pos + 1])
      BY <1>1, <1>2, <2>1 DEF SoundActivation, Activation
    <2>3. stack' = [stack EXCEPT ![Len(stack)] = [Top EXCEPT !.pos = Top.pos + 1]]
      BY <1>1, <1>4 DEF SkipDots
    <2>4. QED
      BY <1>1, <2>2, <2>3 DEF GoesOn, Activation
  <1>5. ASSUME CloseEntry PROVE GoesOn([Top EXCEPT !.at = "read", !.pos = Top.pos + 1])
    <2>1. Top.at = "close"
      BY <1>5 DEF CloseEntry, Running
    <2> DEFINE a == [Top EXCEPT !.at = "read", !.pos = Top.pos + 1]
    <2>5. a \in Activation /\ a.file = Top.file /\ a.pos = Top.pos + 1 /\ a.at = "read"
      BY <1>1, MovedOn
    <2>6. Top.file \in Directories /\ Top.pos \in Nat /\ Top.pos < Len(EntriesOf[Top.file])
      BY <1>1, <2>1 DEF SoundActivation, Activation
    <2>2. SoundActivation(a)
      BY <1>2, <2>5, <2>6 DEF SoundActivation
    <2>3. stack' = [stack EXCEPT ![Len(stack)] = a]
      BY <1>1, <1>5 DEF CloseEntry
    <2>4. QED
      BY <2>2, <2>5, <2>3 DEF GoesOn
  <1>6. QED
    BY <1>3, <1>4, <1>5

LEMMA Calling ==
    ASSUME StackInv, Enter
    PROVE  LET a == [Top EXCEPT !.at = "close"]
               t == [stack EXCEPT ![Len(stack)] = a]
           IN  /\ stack # <<>> /\ SoundActivation(a) /\ a.file = Top.file
               /\ a.at = "close" /\ a.pos = Top.pos
               /\ EntryOf(a) = Entry /\ Entry \in Nodes
               /\ stack' = Append(t, Call(Entry))
  <1> DEFINE a == [Top EXCEPT !.at = "close"]
  <1>1. /\ stack # <<>> /\ Top.at = "read" /\ Top.pos < Len(EntriesOf[Top.file])
        /\ ~IsDots(Entry)
    BY DEF Enter, AtEntry, Running
  <1>2. /\ SoundActivation(Top) /\ Top \in Activation /\ stack \in Seq(Activation)
        /\ Top = stack[Len(stack)] /\ Top.file \in Directories /\ Entry = EntryOf(Top)
    BY <1>1, TopSound DEF SoundActivation, StackInv, Path, Top
  <1>3. Top.pos + 1 \in 1 .. Len(EntriesOf[Top.file])
        /\ EntriesOf[Top.file] \in Seq(Nodes \cup {Dot, DotDot})
    BY <1>1, <1>2, VolumeAssumption DEF Activation
  <1>4. Entry \in Nodes
    BY <1>1, <1>3 DEF Entry, IsDots
  <1>5. a \in Activation /\ a.file = Top.file /\ a.pos = Top.pos /\ a.at = "close"
    BY <1>2 DEF Activation
  <1>6. EntryOf(a) = Entry
    BY <1>5 DEF EntryOf, Entry
  <1>7. SoundActivation(a)
    BY <1>1, <1>2, <1>3, <1>4, <1>5, <1>6 DEF SoundActivation
  <1>8. stack' = Append([stack EXCEPT ![Len(stack)] = a], Call(Entry))
    BY <1>2 DEF Enter
  <1>9. QED
    BY <1>1, <1>4, <1>5, <1>6, <1>7, <1>8

ReturnAction == InfoFails \/ ListFile \/ ReadFails \/ EndOfDirectory \/ OpenFails

LEMMA Returning ==
    ASSUME StackInv, ReturnAction
    PROVE  stack # <<>> /\ stack' = Callers /\ open' = open /\ Top.at \in {"info", "read"}
  BY DEF ReturnAction, InfoFails, ListFile, ReadFails, EndOfDirectory, OpenFails, Stops,
         AtEntry, Running

LEMMA StackInit == TreeInit => StackInv
  <1> SUFFICES ASSUME TreeInit PROVE StackInv
    OBVIOUS
  <1>1. Root \in Nodes /\ Call(Root) \in Activation /\ SoundActivation(Call(Root))
    BY NodesAssumption DEF Nodes, Call, Activation, SoundActivation
  <1>2. stack \in Seq(Activation) /\ Len(stack) = 1 /\ stack[1] = Call(Root)
    BY <1>1 DEF TreeInit
  <1>3. Path(stack)
    BY <1>1, <1>2 DEF Path
  <1>4. QED
    BY <1>3 DEF TreeInit, StackInv

LEMMA LineTyped ==
    ASSUME StackInv, stack # <<>>, NEW m \in Nat, NEW what \in Nodes \cup {"error"},
           ShowLine(m, what)
    PROVE  /\ listing' \in Seq(Nat \X (Nodes \cup {"error"})) /\ Len(listing') = Len(listing) + 1
           /\ \A k \in 1 .. Len(listing) : listing'[k] = listing[k]
           /\ listing'[Len(listing) + 1][2] = what
           /\ Len(listing) \in Nat
  BY DEF StackInv, ShowLine

LEMMA StackStep == StackInv /\ [TreeNext]_treeVars => StackInv'
  <1> SUFFICES ASSUME StackInv, [TreeNext]_treeVars PROVE StackInv'
    OBVIOUS
  <1>1. Path(stack) /\ listing \in Seq(Nat \X (Nodes \cup {"error"}))
        /\ open \in [Nodes -> Int] /\ failed \subseteq Nodes
    BY DEF StackInv
  <1>2. ASSUME NEW a, GoesOn(a), stack # <<>>
        PROVE  Path(stack')
    <2>1. LastIs(stack, a, stack')
      BY <1>2 DEF GoesOn, Top, LastIs
    <2>2. QED
      BY <1>1, <2>1, PathGoesOn
  <1>3. stack # <<>> => Indent \in Nat /\ Indent + 1 \in Nat
    BY TopSound DEF Indent
  <1>4. CASE ReturnAction
    <2>1. stack # <<>> /\ stack' = Callers /\ open' = open
      BY <1>4, Returning
    <2>2. Path(stack') /\ Top.file \in Nodes
      BY <1>1, <2>1, PathOfCallers, TopSound DEF Callers
    <2>3. listing' \in Seq(Nat \X (Nodes \cup {"error"}))
      <3>1. CASE EndOfDirectory
        BY <1>1, <3>1 DEF EndOfDirectory
      <3>2. CASE InfoFails \/ ListFile
        BY <1>3, <2>1, <2>2, <3>2, LineTyped DEF InfoFails, ListFile, Stops
      <3>3. CASE ReadFails \/ OpenFails
        BY <1>3, <2>1, <3>3, LineTyped DEF ReadFails, OpenFails, Stops
      <3>4. QED
        BY <1>4, <3>1, <3>2, <3>3 DEF ReturnAction
    <2>4. failed' \subseteq Nodes
      BY <1>1, <1>4, <2>2 DEF ReturnAction, InfoFails, ListFile, ReadFails, EndOfDirectory,
                              OpenFails, Stops
    <2>5. QED
      BY <1>1, <2>1, <2>2, <2>3, <2>4 DEF StackInv
  <1>5. CASE ListDirectory
    <2>1. stack # <<>>
      BY <1>5 DEF ListDirectory, Running
    <2>2. Path(stack')
      BY <1>2, <1>5, <2>1, GoingOn
    <2>3. listing' \in Seq(Nat \X (Nodes \cup {"error"}))
      BY <1>3, <1>5, <2>1, TopSound, LineTyped DEF ListDirectory
    <2>4. QED
      BY <1>1, <1>5, <2>2, <2>3 DEF ListDirectory, StackInv
  <1>6. CASE SkipDots
    <2>1. stack # <<>>
      BY <1>6 DEF SkipDots, AtEntry, Running
    <2>2. Path(stack')
      BY <1>2, <1>6, <2>1, GoingOn
    <2>3. QED
      BY <1>1, <1>6, <2>2 DEF SkipDots, StackInv
  <1>7. CASE CloseEntry
    <2>1. stack # <<>>
      BY <1>7 DEF CloseEntry, Running
    <2>2. Path(stack')
      BY <1>2, <1>7, <2>1, GoingOn
    <2>3. open' \in [Nodes -> Int]
      <3>1. Entry \in Nodes
        BY <1>7, <2>1, TopSound DEF CloseEntry, Running, SoundActivation
      <3>2. open[Entry] - 1 \in Int
        BY <1>1, <3>1
      <3>3. QED
        BY <1>1, <1>7, <3>2 DEF CloseEntry
    <2>4. QED
      BY <1>1, <1>7, <2>2, <2>3 DEF CloseEntry, StackInv
  <1>8. CASE Enter
    <2> DEFINE a == [Top EXCEPT !.at = "close"]
               t == [stack EXCEPT ![Len(stack)] = a]
    <2>1. /\ stack # <<>> /\ SoundActivation(a) /\ a.file = stack[Len(stack)].file
          /\ a.at = "close" /\ EntryOf(a) = Entry /\ stack' = Append(t, Call(Entry))
      BY <1>8, Calling DEF Top
    <2>2. Path(t) /\ Len(t) = Len(stack) /\ t[Len(stack)] = a
      <3>1. LastIs(stack, a, t)
        BY <2>1 DEF LastIs
      <3> HIDE DEF a, t
      <3>2. QED
        BY ONLY <1>1, <3>1, PathGoesOn
    <2>3. t # <<>>
      BY <1>1, <2>1, <2>2 DEF Path
    <2> HIDE DEF t
    <2>4. t[Len(t)].at = "close" /\ stack' = Append(t, Call(EntryOf(t[Len(t)])))
      BY <2>1, <2>2
    <2>5. Path(stack')
      BY <2>2, <2>3, <2>4, PathCalls
    <2>6. open' \in [Nodes -> Int]
      <3>1. Entry \in Nodes
        BY <1>8, Calling
      <3>2. open[Entry] + 1 \in Int
        BY <1>1, <3>1
      <3>3. QED
        BY <1>1, <1>8, <3>2 DEF Enter
    <2>7. QED
      BY <1>1, <1>8, <2>5, <2>6 DEF Enter, StackInv
  <1>9. CASE UNCHANGED treeVars
    BY <1>9 DEF treeVars, StackInv
  <1>10. QED
    BY <1>4, <1>5, <1>6, <1>7, <1>8, <1>9 DEF TreeNext, Proceeds, ReturnAction

-----------------------------------------------------------------------------
(* The handles: those of the activations on the stack but the first, and   *)
(* the one of the entry whose activation has just returned.                *)
Held(s, n)  == {k \in 1 .. Len(s) : k > 1 /\ s[k].file = n}
Waits(s, n) == s # <<>> /\ s[Len(s)].at = "close" /\ EntryOf(s[Len(s)]) = n
Handles(s, n) == Cardinality(Held(s, n)) + (IF Waits(s, n) THEN 1 ELSE 0)

HandlesInv == StackInv /\ \A n \in Nodes : open[n] = Handles(stack, n)

LEMMA HeldFinite ==
    ASSUME NEW s, Path(s), NEW n
    PROVE  IsFiniteSet(Held(s, n)) /\ Cardinality(Held(s, n)) \in Nat
  <1>1. Len(s) \in Nat
    BY DEF Path
  <1>2. IsFiniteSet(1 .. Len(s))
    BY <1>1, FS_Interval
  <1>3. Held(s, n) \subseteq 1 .. Len(s)
    BY DEF Held
  <1>4. IsFiniteSet(Held(s, n))
    BY <1>2, <1>3, FS_Subset
  <1>5. QED
    BY <1>4, FS_CardinalityType

(* t is s without its last activation.                                     *)
WithoutLast(s, t) ==
    /\ s # <<>> /\ Len(t) = Len(s) - 1
    /\ \A k \in 1 .. Len(s) - 1 : t[k] = s[k]

(* An activation takes the handle of its entry over from its caller, and   *)
(* leaves it to the caller.                                                *)
LEMMA HandlesOfCallers ==
    ASSUME NEW s, NEW t, Path(s), Path(t), WithoutLast(s, t), s[Len(s)].at # "close",
           NEW n
    PROVE  Handles(t, n) = Handles(s, n)
  <1> DEFINE m == Len(s)
  <1>1. /\ m \in Nat /\ m >= 1 /\ Len(t) = m - 1 /\ s \in Seq(Activation)
        /\ t \in Seq(Activation) /\ ~Waits(s, n)
        /\ \A k \in 1 .. m - 1 : t[k] = s[k]
    BY DEF Path, WithoutLast, Waits
  <1>2. /\ IsFiniteSet(Held(t, n)) /\ Cardinality(Held(t, n)) \in Nat
        /\ IsFiniteSet(Held(s, n)) /\ Cardinality(Held(s, n)) \in Nat
    BY HeldFinite
  <1>3. CASE m = 1
    <2>1. t = <<>> /\ Held(t, n) = {} /\ Held(s, n) = {}
      BY <1>1, <1>3 DEF Held
    <2>2. QED
      BY <1>1, <2>1 DEF Handles, Waits
  <1>4. CASE m > 1
    <2>1. t # <<>> /\ t[Len(t)] = s[m - 1]
      BY <1>1, <1>4
    <2>2. s[m - 1].at = "close" /\ EntryOf(s[m - 1]) = s[m].file
      <3>1. m - 1 \in 1 .. Len(s) - 1 /\ (m - 1) + 1 = m
        BY <1>1, <1>4
      <3>2. QED
        BY <3>1 DEF Path
    <2>3. Waits(t, n) <=> s[m].file = n
      BY <2>1, <2>2 DEF Waits
    <2>4. CASE s[m].file = n
      <3>1. m \notin Held(t, n) /\ Held(s, n) = Held(t, n) \cup {m}
        BY <1>1, <1>4, <2>4 DEF Held
      <3>2. Cardinality(Held(s, n)) = Cardinality(Held(t, n)) + 1
        BY <1>2, <3>1, FS_AddElement
      <3>3. QED
        BY <1>1, <1>2, <2>3, <2>4, <3>2 DEF Handles
    <2>5. CASE s[m].file # n
      <3>1. Held(s, n) = Held(t, n)
        BY <1>1, <1>4, <2>5 DEF Held
      <3>2. QED
        BY <1>1, <1>2, <2>3, <2>5, <3>1 DEF Handles
    <2>6. QED
      BY <2>4, <2>5
  <1>5. QED
    BY <1>1, <1>3, <1>4

LEMMA HandlesGoOn ==
    ASSUME NEW s, NEW a, NEW t, Path(s), LastIs(s, a, t), NEW n
    PROVE  /\ Held(t, n) = Held(s, n)
           /\ Waits(t, n) <=> a.at = "close" /\ EntryOf(a) = n
  <1>1. /\ Len(t) = Len(s) /\ t[Len(s)] = a /\ Len(s) >= 1 /\ Len(s) \in Nat
        /\ \A k \in 1 .. Len(s) : t[k].file = s[k].file
    <2>1. Len(s) >= 1 /\ Len(s) \in Nat
      BY DEF Path, LastIs
    <2>2. QED
      BY <2>1, PathGoesOn
  <1>2. t # <<>>
    <2>1. Path(t)
      BY PathGoesOn
    <2>2. QED
      BY <1>1, <2>1 DEF Path
  <1>3. QED
    BY <1>1, <1>2 DEF Held, Waits

LEMMA HandlesMean == ASSUME StackInv PROVE HandlesNest <=> \A n \in Nodes : open[n] = Handles(stack, n)
  <1>1. ASSUME NEW n \in Nodes
        PROVE  (Running("close") /\ Entry = n) <=> Waits(stack, n)
    BY TopSound DEF Running, Waits, Top
  <1>2. QED
    BY <1>1 DEF HandlesNest, Handles, Held

LEMMA HandlesInit == TreeInit => HandlesInv
  <1> SUFFICES ASSUME TreeInit PROVE HandlesInv
    OBVIOUS
  <1>1. StackInv
    BY StackInit
  <1>2. Len(stack) = 1 /\ stack[1].at = "info"
    BY DEF TreeInit, Call
  <1>3. ASSUME NEW n \in Nodes PROVE Handles(stack, n) = 0
    <2>1. Held(stack, n) = {} /\ ~Waits(stack, n)
      BY <1>2 DEF Held, Waits
    <2>2. QED
      BY <2>1, FS_EmptySet DEF Handles
  <1>4. QED
    BY <1>1, <1>3 DEF HandlesInv, TreeInit

LEMMA HandlesStep == HandlesInv /\ [TreeNext]_treeVars => HandlesInv'
  <1> SUFFICES ASSUME HandlesInv, [TreeNext]_treeVars PROVE HandlesInv'
    OBVIOUS
  <1>1. StackInv /\ StackInv' /\ Path(stack) /\ Path(stack')
    BY StackStep DEF HandlesInv, StackInv
  <1>2. SUFFICES ASSUME NEW n \in Nodes PROVE open'[n] = Handles(stack', n)
    BY <1>1 DEF HandlesInv, Handles, Held, Waits
  <1>3. open[n] = Handles(stack, n) /\ open \in [Nodes -> Int]
    BY DEF HandlesInv, StackInv
  <1>4. Cardinality(Held(stack, n)) \in Nat
    BY <1>1, HeldFinite
  <1>5. CASE ReturnAction
    <2>1. stack # <<>> /\ stack' = Callers /\ open' = open /\ Top.at # "close"
      BY <1>1, <1>5, Returning
    <2>2. WithoutLast(stack, stack') /\ stack[Len(stack)].at # "close"
      BY <1>1, <2>1, PathOfCallers DEF Callers, WithoutLast, Top
    <2>3. QED
      BY <1>1, <1>3, <2>1, <2>2, HandlesOfCallers
  <1>6. ASSUME NEW a, GoesOn(a), stack # <<>>
        PROVE  /\ Held(stack', n) = Held(stack, n)
               /\ Waits(stack', n) <=> a.at = "close" /\ EntryOf(a) = n
    <2>1. LastIs(stack, a, stack')
      BY <1>6 DEF GoesOn, Top, LastIs
    <2>2. QED
      BY <1>1, <2>1, HandlesGoOn
  <1>7. CASE ListDirectory \/ SkipDots
    <2>1. stack # <<>> /\ Top.at # "close" /\ open' = open /\ Top \in Activation
      BY <1>1, <1>7, TopSound DEF ListDirectory, SkipDots, AtEntry, Running, SoundActivation
    <2>2. PICK a : GoesOn(a) /\ a.at # "close"
      <3>1. CASE ListDirectory
        <4>1. GoesOn([Top EXCEPT !.at = "read"])
          BY <1>1, <2>1, <3>1, GoingOn
        <4>2. [Top EXCEPT !.at = "read"].at = "read"
          BY <2>1 DEF Activation
        <4>3. QED
          BY <4>1, <4>2
      <3>2. CASE SkipDots
        <4>1. GoesOn([Top EXCEPT !.pos = Top.pos + 1])
          BY <1>1, <2>1, <3>2, GoingOn
        <4>2. [Top EXCEPT !.pos = Top.pos + 1].at = Top.at
          BY <2>1 DEF Activation
        <4>3. QED
          BY <2>1, <4>1, <4>2
      <3>3. QED
        BY <1>7, <3>1, <3>2
    <2>3. Held(stack', n) = Held(stack, n) /\ ~Waits(stack', n) /\ ~Waits(stack, n)
      BY <1>6, <2>1, <2>2 DEF Waits, Top
    <2>4. QED
      BY <1>3, <2>1, <2>3 DEF Handles
  <1>8. CASE CloseEntry
    <2> DEFINE a == [Top EXCEPT !.at = "read", !.pos = Top.pos + 1]
    <2>1. stack # <<>> /\ Top.at = "close" /\ open' = [open EXCEPT ![Entry] = @ - 1]
      BY <1>8 DEF CloseEntry, Running
    <2>2. Entry \in Nodes /\ Entry = EntryOf(Top) /\ Top \in Activation
      BY <1>1, <2>1, TopSound DEF SoundActivation
    <2>3. GoesOn(a) /\ a.at = "read"
      BY <1>1, <1>8, <2>1, <2>2, GoingOn, MovedOn
    <2> HIDE DEF a
    <2>4. Held(stack', n) = Held(stack, n) /\ ~Waits(stack', n)
      BY <1>6, <2>1, <2>3
    <2>5. Waits(stack, n) <=> Entry = n
      BY <2>1, <2>2 DEF Waits, Top
    <2>6. open'[n] = IF Entry = n THEN open[n] - 1 ELSE open[n]
      BY <1>3, <2>1, <2>2
    <2>7. QED
      BY <1>3, <1>4, <2>4, <2>5, <2>6 DEF Handles
  <1>9. CASE Enter
    <2> DEFINE a == [Top EXCEPT !.at = "close"]
               t == [stack EXCEPT ![Len(stack)] = a]
    <2>1. /\ stack # <<>> /\ SoundActivation(a) /\ a.file = stack[Len(stack)].file
          /\ a.at = "close" /\ EntryOf(a) = Entry /\ stack' = Append(t, Call(Entry))
          /\ Entry \in Nodes
      BY <1>1, <1>9, Calling DEF Top
    <2>2. Top.at # "close" /\ open' = [open EXCEPT ![Entry] = @ + 1]
      BY <1>9 DEF Enter, AtEntry, Running
    <2>3. LastIs(stack, a, t)
      BY <2>1 DEF LastIs
    <2>4. stack # <<>> /\ Path(stack)
      BY <1>1, <2>1
    <2> HIDE DEF a, t
    <2>5. Path(t) /\ Len(t) = Len(stack) /\ t[Len(stack)] = a
      BY ONLY <2>3, <2>4, PathGoesOn
    <2>6. Held(t, n) = Held(stack, n) /\ (Waits(t, n) <=> a.at = "close" /\ EntryOf(a) = n)
      BY ONLY <2>3, <2>4, HandlesGoOn
    <2>7. Len(stack) \in Nat /\ Len(stack) >= 1 /\ t # <<>> /\ t[Len(t)] = a
      <3>1. Len(stack) \in Nat /\ Len(stack) >= 1
        BY <2>4 DEF Path
      <3>2. QED
        BY <2>5, <3>1
    <2>8. t[Len(t)].at = "close" /\ stack' = Append(t, Call(EntryOf(t[Len(t)])))
      BY <2>1, <2>7
    <2>9. /\ Len(stack') = Len(t) + 1 /\ stack'[Len(stack')] = Call(EntryOf(t[Len(t)]))
          /\ \A k \in 1 .. Len(t) : stack'[k] = t[k]
      BY ONLY <2>5, <2>7, <2>8, PathCalls
    <2>10. WithoutLast(stack', t) /\ stack'[Len(stack')].at # "close"
      BY <2>5, <2>7, <2>9 DEF WithoutLast, Call
    <2>11. Handles(t, n) = Handles(stack', n)
      BY <1>1, <2>5, <2>10, HandlesOfCallers
    <2>12. ~Waits(stack, n) /\ (Waits(t, n) <=> Entry = n)
      BY <2>1, <2>2, <2>6 DEF Waits, Top
    <2>13. open'[n] = IF Entry = n THEN open[n] + 1 ELSE open[n]
      BY <1>3, <2>1, <2>2
    <2>14. QED
      BY <1>3, <1>4, <2>6, <2>11, <2>12, <2>13 DEF Handles
  <1>10. CASE UNCHANGED treeVars
    BY <1>3, <1>10 DEF treeVars
  <1>11. QED
    BY <1>5, <1>7, <1>8, <1>9, <1>10 DEF TreeNext, Proceeds, ReturnAction

(* Every handle tree opens is closed, whichever call fails (main.c:583-635),*)
(* on every volume.                                                        *)
THEOREM HandlesAreClosed == TreeSpec => []HandlesNest
  <1>1. HandlesInv => HandlesNest
    BY HandlesMean DEF HandlesInv
  <1>2. QED
    BY <1>1, HandlesInit, HandlesStep, PTL DEF TreeSpec

-----------------------------------------------------------------------------
(* What has become of a node when lines l are printed and f have failed.   *)
Shown(l, n)      == \E k \in 1 .. Len(l) : l[k][2] = n
Settled(l, f, n) == Shown(l, n) \/ n \in f

(* What an activation has achieved: its directory is listed, and every     *)
(* entry it is past is settled.                                            *)
Achieved(l, f, a) ==
    /\ a.at # "info" => Shown(l, a.file)
    /\ \A j \in 1 .. a.pos : EntriesOf[a.file][j] \in Nodes => Settled(l, f, EntriesOf[a.file][j])

InProgress(s, d) == \E k \in 1 .. Len(s) : s[k].file = d /\ s[k].at # "info"

(* A listed directory is being read, or an error cut it short, or all that *)
(* is in it is settled.                                                    *)
NothingLost(s, l, f) ==
    \A d \in Directories : Shown(l, d) /\ d \notin f =>
        InProgress(s, d) \/ \A c \in Children(d) : Settled(l, f, c)

RootSettled(s, l, f) == IF s = <<>> THEN Settled(l, f, Root) ELSE s[1].file = Root

CalleeSettled(s, l, f) ==
    s # <<>> /\ s[Len(s)].at = "close" => Settled(l, f, EntryOf(s[Len(s)]))

WalkInv(s, l, f) ==
    /\ RootSettled(s, l, f)
    /\ \A k \in 1 .. Len(s) : Achieved(l, f, s[k])
    /\ CalleeSettled(s, l, f)
    /\ NothingLost(s, l, f)

HidesInv == StackInv /\ WalkInv(stack, listing, failed)

(* Lines are only added and errors only happen: what is settled stays so.  *)
Grows(l, f, m, g) == f \subseteq g /\ \A n \in Nodes : Shown(l, n) => Shown(m, n)

LEMMA StaysSettled ==
    ASSUME NEW l, NEW f, NEW m, NEW g, Grows(l, f, m, g), NEW n \in Nodes, Settled(l, f, n)
    PROVE  Settled(m, g, n)
  BY DEF Grows, Settled

LEMMA StaysAchieved ==
    ASSUME NEW l, NEW f, NEW m, NEW g, Grows(l, f, m, g),
           NEW a, SoundActivation(a), Achieved(l, f, a)
    PROVE  Achieved(m, g, a)
  BY DEF Grows, Settled, Achieved, SoundActivation, Activation

LEMMA ChildrenStaySettled ==
    ASSUME NEW l, NEW f, NEW m, NEW g, Grows(l, f, m, g), NEW d,
           \A c \in Children(d) : Settled(l, f, c)
    PROVE  \A c \in Children(d) : Settled(m, g, c)
  BY StaysSettled DEF Children

(* The last activation has returned.                                       *)
LEMMA WalkReturns ==
    ASSUME NEW s, NEW l, NEW f, NEW t, NEW m, NEW g,
           Path(s), Path(t), WithoutLast(s, t), WalkInv(s, l, f), Grows(l, f, m, g),
           s[Len(s)].at # "close",
           Settled(m, g, s[Len(s)].file),
           \A d \in Directories : Shown(m, d) => Shown(l, d),
           s[Len(s)].at = "read" /\ s[Len(s)].file \notin g =>
               s[Len(s)].pos = Len(EntriesOf[s[Len(s)].file])
    PROVE  WalkInv(t, m, g)
  <1> DEFINE h == Len(s)
             r == s[h]
  <1>1. /\ s \in Seq(Activation) /\ t \in Seq(Activation) /\ h \in Nat /\ h >= 1 /\ Len(t) = h - 1
        /\ \A k \in 1 .. h - 1 : t[k] = s[k]
        /\ \A k \in 1 .. h : SoundActivation(s[k])
    BY DEF Path, WithoutLast
  <1>2. s # <<>> /\ SoundActivation(r) /\ Achieved(l, f, r)
    BY <1>1 DEF WithoutLast, WalkInv
  <1>3. \A k \in 1 .. Len(t) : Achieved(m, g, t[k])
    <2> SUFFICES ASSUME NEW k \in 1 .. Len(t) PROVE Achieved(m, g, t[k])
      OBVIOUS
    <2>1. k \in 1 .. h /\ t[k] = s[k]
      BY <1>1
    <2>2. SoundActivation(s[k]) /\ Achieved(l, f, s[k])
      BY <1>1, <2>1 DEF WalkInv
    <2>3. QED
      BY <2>1, <2>2, StaysAchieved
  <1>4. RootSettled(t, m, g)
    <2>1. s[1].file = Root
      BY <1>2 DEF WalkInv, RootSettled
    <2>2. CASE h = 1
      <3>1. t = <<>>
        BY <1>1, <2>2
      <3>2. QED
        BY <2>1, <2>2, <3>1 DEF RootSettled
    <2>3. CASE h > 1
      <3>1. t # <<>> /\ t[1] = s[1]
        BY <1>1, <2>3
      <3>2. QED
        BY <2>1, <3>1 DEF RootSettled
    <2>4. QED
      BY <1>1, <2>2, <2>3
  <1>5. CalleeSettled(t, m, g)
    <2> SUFFICES ASSUME t # <<>> PROVE Settled(m, g, EntryOf(t[Len(t)]))
      BY DEF CalleeSettled
    <2>1. h > 1 /\ h - 1 \in 1 .. h - 1 /\ (h - 1) + 1 = h
      BY <1>1
    <2>2. EntryOf(s[h - 1]) = r.file
      BY <2>1 DEF Path
    <2>3. t[Len(t)] = s[h - 1]
      BY <1>1, <2>1
    <2>4. QED
      BY <2>2, <2>3
  <1>6. NothingLost(t, m, g)
    <2> SUFFICES ASSUME NEW d \in Directories, Shown(m, d), d \notin g
                 PROVE  InProgress(t, d) \/ \A c \in Children(d) : Settled(m, g, c)
      BY DEF NothingLost
    <2>1. Shown(l, d) /\ d \notin f
      BY DEF Grows
    <2>2. CASE \A c \in Children(d) : Settled(l, f, c)
      BY <2>2, ChildrenStaySettled
    <2>3. CASE InProgress(s, d)
      <3>1. PICK k \in 1 .. h : s[k].file = d /\ s[k].at # "info"
        BY <2>3 DEF InProgress
      <3>2. CASE k < h
        <4>1. k \in 1 .. Len(t) /\ t[k] = s[k]
          BY <1>1, <3>2
        <4>2. QED
          BY <3>1, <4>1 DEF InProgress
      <3>3. CASE k = h
        <4>1. r.file = d /\ r.at = "read"
          BY <1>2, <3>1, <3>3 DEF SoundActivation, Activation
        <4>2. r.pos = Len(EntriesOf[d])
          BY <4>1
        <4>3. Achieved(m, g, r)
          BY <1>2, StaysAchieved
        <4>4. QED
          BY <4>1, <4>2, <4>3 DEF Achieved, Children
      <3>4. QED
        BY <1>1, <3>2, <3>3
    <2>4. QED
      BY <2>1, <2>2, <2>3 DEF WalkInv, NothingLost
  <1>7. QED
    BY <1>3, <1>4, <1>5, <1>6 DEF WalkInv

(* The last activation goes on, to a or to call what is at its entry.      *)
LEMMA WalkGoesOn ==
    ASSUME NEW s, NEW l, NEW f, NEW a, NEW t, NEW m, NEW g,
           Path(s), LastIs(s, a, t), WalkInv(s, l, f), Grows(l, f, m, g),
           Achieved(m, g, a), a.at # "info",
           \A d \in Directories : Shown(m, d) => Shown(l, d) \/ d = a.file
    PROVE  /\ RootSettled(t, m, g) /\ NothingLost(t, m, g)
           /\ \A k \in 1 .. Len(t) : Achieved(m, g, t[k])
  <1> DEFINE h == Len(s)
  <1>1. /\ Path(t) /\ Len(t) = h /\ t[h] = a /\ h \in Nat /\ h >= 1
        /\ \A k \in 1 .. h - 1 : t[k] = s[k]
        /\ \A k \in 1 .. h : t[k].file = s[k].file
    <2>1. h \in Nat /\ h >= 1
      BY DEF Path, LastIs
    <2>2. QED
      BY <2>1, PathGoesOn
  <1>2. s # <<>> /\ t # <<>>
    <2>1. s # <<>>
      BY DEF LastIs
    <2>2. t # <<>>
      BY <1>1 DEF Path
    <2>3. QED
      BY <2>1, <2>2
  <1>3. RootSettled(t, m, g)
    BY <1>1, <1>2 DEF RootSettled, WalkInv
  <1>4. \A k \in 1 .. Len(t) : Achieved(m, g, t[k])
    <2> SUFFICES ASSUME NEW k \in 1 .. Len(t) PROVE Achieved(m, g, t[k])
      OBVIOUS
    <2>1. CASE k = h
      BY <1>1, <2>1
    <2>2. CASE k < h
      <3>1. k \in 1 .. h /\ t[k] = s[k]
        BY <1>1, <2>2
      <3>2. SoundActivation(s[k]) /\ Achieved(l, f, s[k])
        BY <3>1 DEF WalkInv, Path
      <3>3. QED
        BY <3>1, <3>2, StaysAchieved
    <2>3. QED
      BY <1>1, <2>1, <2>2
  <1>5. NothingLost(t, m, g)
    <2> SUFFICES ASSUME NEW d \in Directories, Shown(m, d), d \notin g
                 PROVE  InProgress(t, d) \/ \A c \in Children(d) : Settled(m, g, c)
      BY DEF NothingLost
    <2>1. CASE d = a.file
      BY <1>1, <2>1 DEF InProgress
    <2>2. CASE d # a.file
      <3>1. Shown(l, d) /\ d \notin f
        BY <2>2 DEF Grows
      <3>2. CASE \A c \in Children(d) : Settled(l, f, c)
        BY <3>2, ChildrenStaySettled
      <3>3. CASE InProgress(s, d)
        <4>1. PICK k \in 1 .. h : s[k].file = d /\ s[k].at # "info"
          BY <3>3 DEF InProgress
        <4>2. k # h
          BY <1>1, <2>2, <4>1
        <4>3. k \in 1 .. Len(t) /\ t[k] = s[k]
          BY <1>1, <4>2
        <4>4. QED
          BY <4>1, <4>3 DEF InProgress
      <3>4. QED
        BY <3>1, <3>2, <3>3 DEF WalkInv, NothingLost
    <2>3. QED
      BY <2>1, <2>2
  <1>6. QED
    BY <1>3, <1>4, <1>5

LEMMA LineShown ==
    ASSUME StackInv, stack # <<>>, NEW i \in Nat, NEW what \in Nodes \cup {"error"},
           ShowLine(i, what), NEW n
    PROVE  Shown(listing', n) <=> Shown(listing, n) \/ n = what
  <1>1. /\ Len(listing') = Len(listing) + 1 /\ Len(listing) \in Nat
        /\ \A k \in 1 .. Len(listing) : listing'[k] = listing[k]
        /\ listing'[Len(listing) + 1][2] = what
    BY LineTyped
  <1>2. \A k \in 1 .. Len(listing') : k \in 1 .. Len(listing) \/ k = Len(listing) + 1
    BY <1>1
  <1>3. /\ Len(listing) + 1 \in 1 .. Len(listing')
        /\ \A k \in 1 .. Len(listing) : k \in 1 .. Len(listing')
    BY <1>1
  <1>4. QED
    BY <1>1, <1>2, <1>3 DEF Shown

LEMMA HidesInit == TreeInit => HidesInv
  <1> SUFFICES ASSUME TreeInit PROVE HidesInv
    OBVIOUS
  <1>1. StackInv
    BY StackInit
  <1>2. /\ stack # <<>> /\ Len(stack) = 1 /\ stack[1] = Call(Root)
        /\ listing = <<>> /\ Len(listing) = 0
    BY DEF TreeInit
  <1>3. Achieved(listing, failed, Call(Root))
    BY DEF Achieved, Call
  <1>4. ~Shown(listing, 0) /\ \A d : ~Shown(listing, d)
    BY <1>2 DEF Shown
  <1>5. QED
    BY <1>1, <1>2, <1>3, <1>4
    DEF HidesInv, WalkInv, RootSettled, CalleeSettled, NothingLost, Call

(* What the actions print and which activations they end.                  *)
LEMMA ActionsOnListing ==
    ASSUME StackInv, TreeNext
    PROVE  /\ Grows(listing, failed, listing', failed')
           /\ \A d : Shown(listing', d) =>
                  Shown(listing, d) \/ d = "error" \/ ((ListFile \/ ListDirectory) /\ d = Top.file)
           /\ ListFile \/ ListDirectory => Shown(listing', Top.file)
           /\ InfoFails \/ ReadFails \/ OpenFails => Top.file \in failed'
  <1>1. CASE ListFile \/ ListDirectory
    <2>1. /\ stack # <<>> /\ failed' = failed
          /\ ShowLine(Indent, Top.file) /\ Running("info")
      BY <1>1 DEF ListFile, ListDirectory, Running
    <2>2. Top.file \in Nodes /\ Indent \in Nat
      BY <2>1, TopSound DEF Indent
    <2>3. \A n : Shown(listing', n) <=> Shown(listing, n) \/ n = Top.file
      BY <2>1, <2>2, LineShown
    <2>4. ~(InfoFails \/ ReadFails \/ OpenFails) \/ Top.file \in failed'
      BY DEF InfoFails, ReadFails, OpenFails, Stops
    <2>5. QED
      BY <1>1, <2>1, <2>3, <2>4 DEF Grows
  <1>2. CASE InfoFails \/ ReadFails \/ OpenFails
    <2>1. /\ stack # <<>> /\ failed' = failed \cup {Top.file}
          /\ ShowLine(Indent, "error") \/ ShowLine(Indent + 1, "error")
      BY <1>2 DEF InfoFails, ReadFails, OpenFails, Stops, AtEntry, Running
    <2>2. Indent \in Nat /\ Indent + 1 \in Nat
      BY <2>1, TopSound DEF Indent
    <2>3. \A n : Shown(listing', n) <=> Shown(listing, n) \/ n = "error"
      BY <2>1, <2>2, LineShown
    <2>4. CASE ListFile \/ ListDirectory
      BY <1>1, <2>4
    <2>5. QED
      BY <2>1, <2>3, <2>4 DEF Grows
  <1>3. CASE EndOfDirectory \/ SkipDots \/ Enter \/ CloseEntry
    <2>1. listing' = listing /\ failed' = failed
      BY <1>3 DEF EndOfDirectory, SkipDots, Enter, CloseEntry
    <2>2. CASE ListFile \/ ListDirectory \/ InfoFails \/ ReadFails \/ OpenFails
      BY <1>1, <1>2, <2>2
    <2>3. QED
      BY <2>1, <2>2 DEF Grows
  <1>4. QED
    BY <1>1, <1>2, <1>3 DEF TreeNext, Proceeds

LEMMA HidesStep == HidesInv /\ [TreeNext]_treeVars => HidesInv'
  <1> SUFFICES ASSUME HidesInv, [TreeNext]_treeVars PROVE HidesInv'
    OBVIOUS
  <1>1. StackInv /\ StackInv' /\ Path(stack) /\ Path(stack') /\ WalkInv(stack, listing, failed)
    BY StackStep DEF HidesInv, StackInv
  <1>2. SUFFICES WalkInv(stack', listing', failed')
    BY <1>1 DEF HidesInv
  <1>3. \A d \in Directories : d # "error" /\ d \notin Files
    BY NodesAssumption DEF Nodes
  <1>4. CASE ReturnAction
    <2>1. /\ stack # <<>> /\ stack' = Callers /\ Top.at \in {"info", "read"}
          /\ Top = stack[Len(stack)] /\ SoundActivation(Top) /\ Top.file \in Nodes
      BY <1>1, <1>4, Returning, TopSound DEF Top
    <2>2. WithoutLast(stack, stack')
      BY <1>1, <2>1, PathOfCallers DEF Callers, WithoutLast
    <2>3. TreeNext /\ Grows(listing, failed, listing', failed')
      BY <1>1, <1>4, ActionsOnListing DEF ReturnAction, TreeNext, Proceeds
    <2>4. ~ListDirectory
      <3>1. ListDirectory => Len(stack') = Len(stack)
        BY <1>1 DEF ListDirectory, Path
      <3>2. QED
        BY <1>1, <2>2, <3>1 DEF WithoutLast, Path
    <2>5. \A d \in Directories : Shown(listing', d) => Shown(listing, d)
      BY <1>1, <1>3, <2>3, <2>4, ActionsOnListing DEF ListFile
    <2>6. CASE EndOfDirectory
      <3>1. /\ Top.at = "read" /\ Top.pos = Len(EntriesOf[Top.file])
            /\ listing' = listing /\ failed' = failed
        BY <2>6 DEF EndOfDirectory, Running
      <3>2. Len(stack) \in 1 .. Len(stack)
        BY <2>1, TopSound, <1>1 DEF StackInv, Path
      <3>3. Achieved(listing, failed, Top)
        BY <1>1, <2>1, <3>2 DEF WalkInv
      <3>4. Settled(listing', failed', Top.file)
        BY <2>1, <3>1, <3>3 DEF Achieved, Settled
      <3>5. QED
        BY <1>1, <2>1, <2>2, <2>3, <2>5, <3>1, <3>4, WalkReturns
    <2>7. CASE ListFile
      <3>1. Settled(listing', failed', Top.file) /\ Top.at = "info"
        BY <1>1, <2>3, <2>7, ActionsOnListing DEF Settled, ListFile, Running
      <3>2. QED
        BY <1>1, <2>1, <2>2, <2>3, <2>5, <3>1, WalkReturns
    <2>8. CASE InfoFails \/ ReadFails \/ OpenFails
      <3>1. Settled(listing', failed', Top.file) /\ Top.file \in failed'
        BY <1>1, <2>3, <2>8, ActionsOnListing DEF Settled
      <3>2. QED
        BY <1>1, <2>1, <2>2, <2>3, <2>5, <3>1, WalkReturns
    <2>9. QED
      BY <1>4, <2>6, <2>7, <2>8 DEF ReturnAction
  <1>5. ASSUME NEW a, GoesOn(a), stack # <<>>, a.at = "read", TreeNext,
               Achieved(listing', failed', a), ~ListFile
        PROVE  WalkInv(stack', listing', failed')
    <2>1. LastIs(stack, a, stack')
      BY <1>5 DEF GoesOn, Top, LastIs
    <2>2. Grows(listing, failed, listing', failed')
      BY <1>1, <1>5, ActionsOnListing
    <2>3. \A d \in Directories : Shown(listing', d) => Shown(listing, d) \/ d = a.file
      BY <1>1, <1>3, <1>5, ActionsOnListing DEF GoesOn
    <2>4. /\ RootSettled(stack', listing', failed') /\ NothingLost(stack', listing', failed')
          /\ \A k \in 1 .. Len(stack') : Achieved(listing', failed', stack'[k])
      BY <1>1, <1>5, <2>1, <2>2, <2>3, WalkGoesOn
    <2>5. CalleeSettled(stack', listing', failed')
      <3>1. Len(stack') = Len(stack) /\ stack'[Len(stack)] = a
        BY <1>1, <2>1, PathGoesOn
      <3>2. QED
        BY <1>5, <3>1 DEF CalleeSettled
    <2>6. QED
      BY <2>4, <2>5 DEF WalkInv
  <1>6. ASSUME stack # <<>>
        PROVE  /\ Top \in Activation /\ SoundActivation(Top) /\ Entry = EntryOf(Top)
               /\ Top = stack[Len(stack)] /\ Top.pos \in Nat
               /\ Achieved(listing, failed, Top)
    <2>1. Len(stack) \in 1 .. Len(stack)
      BY <1>1, <1>6, TopSound
    <2>2. QED
      BY <1>1, <1>6, <2>1, TopSound DEF SoundActivation, Top, WalkInv, Activation
  <1>7. CASE ListDirectory
    <2> DEFINE a == [Top EXCEPT !.at = "read"]
    <2>1. stack # <<>> /\ Top.at = "info" /\ TreeNext /\ ~ListFile
      BY <1>3, <1>7 DEF ListDirectory, ListFile, Running, TreeNext, Proceeds
    <2>2. GoesOn(a) /\ a.at = "read" /\ a.file = Top.file /\ a.pos = Top.pos
      BY <1>1, <1>6, <1>7, <2>1, GoingOn DEF Activation
    <2>3. Shown(listing', Top.file) /\ Top.pos = 0
      BY <1>1, <1>6, <1>7, <2>1, ActionsOnListing DEF SoundActivation
    <2> HIDE DEF a
    <2>4. Achieved(listing', failed', a)
      BY <2>2, <2>3 DEF Achieved
    <2>5. QED
      BY <1>5, <2>1, <2>2, <2>4
  <1>8. ASSUME stack # <<>>, listing' = listing, failed' = failed, Top.at \in {"read", "close"},
               Entry \in Nodes => Settled(listing, failed, Entry),
               NEW a, a.at = "read", a.file = Top.file, a.pos = Top.pos + 1
        PROVE  Achieved(listing', failed', a)
    <2>1. \A j \in 1 .. a.pos : j \in 1 .. Top.pos \/ j = Top.pos + 1
      BY <1>6, <1>8
    <2>2. EntriesOf[a.file][Top.pos + 1] = Entry
      BY <1>8 DEF Entry
    <2>3. Shown(listing, a.file)
      BY <1>6, <1>8 DEF Achieved
    <2>4. QED
      BY <1>6, <1>8, <2>1, <2>2, <2>3 DEF Achieved
  <1>9. CASE SkipDots
    <2> DEFINE a == [Top EXCEPT !.pos = Top.pos + 1]
    <2>1. /\ stack # <<>> /\ Top.at = "read" /\ IsDots(Entry) /\ TreeNext
          /\ listing' = listing /\ failed' = failed /\ ~ListFile
      BY <1>9 DEF SkipDots, AtEntry, ListFile, Running, TreeNext, Proceeds
    <2>2. GoesOn(a) /\ a.at = "read" /\ a.file = Top.file /\ a.pos = Top.pos + 1
      BY <1>1, <1>6, <1>9, <2>1, GoingOn DEF Activation
    <2>3. Entry \notin Nodes
      BY <2>1, NodesAssumption DEF IsDots
    <2> HIDE DEF a
    <2>4. Achieved(listing', failed', a)
      BY <1>8, <2>1, <2>2, <2>3
    <2>5. QED
      BY <1>5, <2>1, <2>2, <2>4
  <1>10. CASE CloseEntry
    <2> DEFINE a == [Top EXCEPT !.at = "read", !.pos = Top.pos + 1]
    <2>1. /\ stack # <<>> /\ Top.at = "close" /\ TreeNext
          /\ listing' = listing /\ failed' = failed /\ ~ListFile
      BY <1>10 DEF CloseEntry, ListFile, Running, TreeNext, Proceeds
    <2>2. GoesOn(a) /\ a.at = "read" /\ a.file = Top.file /\ a.pos = Top.pos + 1
      BY <1>1, <1>6, <1>10, <2>1, GoingOn, MovedOn
    <2>3. Settled(listing, failed, Entry)
      BY <1>1, <1>6, <2>1 DEF WalkInv, CalleeSettled
    <2> HIDE DEF a
    <2>4. Achieved(listing', failed', a)
      BY <1>8, <2>1, <2>2, <2>3
    <2>5. QED
      BY <1>5, <2>1, <2>2, <2>4
  <1>11. CASE Enter
    <2> DEFINE a == [Top EXCEPT !.at = "close"]
               t == [stack EXCEPT ![Len(stack)] = a]
    <2>1. /\ stack # <<>> /\ SoundActivation(a) /\ a.file = stack[Len(stack)].file
          /\ a.at = "close" /\ EntryOf(a) = Entry /\ stack' = Append(t, Call(Entry))
          /\ a.file = Top.file /\ a.pos = Top.pos
      BY <1>1, <1>11, Calling DEF Top
    <2>2. Top.at = "read" /\ listing' = listing /\ failed' = failed
      BY <1>11 DEF Enter, AtEntry, Running
    <2>3. LastIs(stack, a, t)
      BY <2>1 DEF LastIs
    <2> HIDE DEF a, t
    <2>4. Path(t) /\ Len(t) = Len(stack) /\ t[Len(stack)] = a
      BY ONLY <1>1, <2>3, PathGoesOn
    <2>5. Grows(listing, failed, listing, failed) /\ Achieved(listing, failed, a)
      BY <1>6, <2>1, <2>2 DEF Grows, Achieved
    <2>6. /\ RootSettled(t, listing, failed) /\ NothingLost(t, listing, failed)
          /\ \A k \in 1 .. Len(t) : Achieved(listing, failed, t[k])
      BY <1>1, <2>1, <2>3, <2>5, WalkGoesOn
    <2>7. Len(t) \in Nat /\ Len(t) >= 1 /\ t # <<>>
      BY <1>1, <2>1, <2>4, TopSound DEF Path
    <2>8. t[Len(t)].at = "close" /\ stack' = Append(t, Call(EntryOf(t[Len(t)])))
      BY <2>1, <2>4
    <2>9. /\ Len(stack') = Len(t) + 1 /\ stack'[Len(stack')] = Call(EntryOf(t[Len(t)]))
          /\ \A k \in 1 .. Len(t) : stack'[k] = t[k]
      BY ONLY <2>4, <2>7, <2>8, PathCalls
    <2>10. stack' # <<>> /\ stack'[1] = t[1]
      BY <1>1, <2>7, <2>9 DEF Path
    <2>11. RootSettled(stack', listing, failed)
      BY <2>6, <2>7, <2>10 DEF RootSettled
    <2>12. CalleeSettled(stack', listing, failed)
      BY <2>9 DEF CalleeSettled, Call
    <2>13. \A k \in 1 .. Len(stack') : Achieved(listing, failed, stack'[k])
      <3>1. \A k \in 1 .. Len(stack') : k \in 1 .. Len(t) \/ k = Len(stack')
        BY <2>7, <2>9
      <3>2. Achieved(listing, failed, Call(EntryOf(t[Len(t)])))
        BY DEF Achieved, Call
      <3>3. QED
        BY <2>6, <2>9, <3>1, <3>2
    <2>14. \A d : InProgress(t, d) => InProgress(stack', d)
      <3>1. \A k \in 1 .. Len(t) : k \in 1 .. Len(stack')
        BY <2>7, <2>9
      <3>2. QED
        BY <2>9, <3>1 DEF InProgress
    <2>15. NothingLost(stack', listing, failed)
      BY <2>6, <2>14 DEF NothingLost
    <2>16. QED
      BY <2>2, <2>11, <2>12, <2>13, <2>15 DEF WalkInv
  <1>12. CASE UNCHANGED treeVars
    BY <1>1, <1>12 DEF treeVars
  <1>13. QED
    BY <1>4, <1>7, <1>9, <1>10, <1>11, <1>12 DEF TreeNext, Proceeds, ReturnAction

(* An error hides no more than it must (main.c:583-635), on every volume:  *)
(* when tree is done, a name that is missing had an error of its own, or   *)
(* its directory had or is missing too.                                    *)
THEOREM ErrorsHideLittle == TreeSpec => []OnlyErrorsHide
  <1>1. HidesInv => OnlyErrorsHide
    <2> SUFFICES ASSUME HidesInv, stack = <<>>, NEW n \in Nodes
                 PROVE  \/ Listed(n) \/ n \in failed
                        \/ n # Root /\ (~Listed(Parent(n)) \/ Parent(n) \in failed)
      BY DEF OnlyErrorsHide
    <2>1. RootSettled(stack, listing, failed) /\ NothingLost(stack, listing, failed)
      BY DEF HidesInv, WalkInv
    <2>2. CASE n = Root
      BY <2>1, <2>2 DEF RootSettled, Settled, Shown, Listed
    <2>3. CASE n # Root
      <3>1. \E d \in Directories : n \in Children(d)
        BY <2>3, VolumeAssumption
      <3>2. Parent(n) \in Directories /\ n \in Children(Parent(n))
        BY <3>1 DEF Parent
      <3>3. ~InProgress(stack, Parent(n))
        <4>1. Len(stack) = 0
          OBVIOUS
        <4>2. QED
          BY <4>1 DEF InProgress
      <3>4. CASE Listed(Parent(n)) /\ Parent(n) \notin failed
        <4>1. Settled(listing, failed, n)
          BY <2>1, <3>2, <3>3, <3>4 DEF NothingLost, Shown, Listed
        <4>2. QED
          BY <4>1 DEF Settled, Shown, Listed
      <3>5. QED
        BY <2>3, <3>4
    <2>4. QED
      BY <2>2, <2>3
  <1>2. QED
    BY <1>1, HidesInit, HidesStep, PTL DEF TreeSpec
----------------------------------------------------------------------------
(* ListingInOrder: what is below the root is a tree.                       *)

LEMMA OneParent ==
    ASSUME NEW d \in Directories, NEW c \in Children(d)
    PROVE  /\ c \in Nodes /\ d \in Nodes /\ c # Root
           /\ \A e \in Directories : c \in Children(e) => e = d
  <1>1. c \in Nodes /\ d \in Nodes
    BY DEF Children, Nodes
  <1>2. c # Root
    BY VolumeAssumption
  <1>3. PICK p \in Directories : \A e \in Directories \ {p} : c \notin Children(e)
    BY <1>1, <1>2, VolumeAssumption
  <1>4. QED
    BY <1>1, <1>2, <1>3

LEMMA BelowSelf == \A n \in Nodes : Below(n, n)
  BY DEF Below

LEMMA BelowNode ==
    ASSUME NEW m, NEW n, Below(m, n)
    PROVE  m \in Nodes /\ n \in Nodes
  <1>1. \A d \in Nodes \cap Directories : Children(d) \subseteq Nodes
    BY DEF Children
  <1>2. QED
    BY <1>1 DEF Below

LEMMA BelowThrough ==
    ASSUME NEW a, NEW b, NEW c, Below(a, b), Below(b, c)
    PROVE  Below(a, c)
  BY DEF Below

LEMMA BelowChild ==
    ASSUME NEW a, NEW d \in Directories, NEW c \in Children(d), Below(a, d)
    PROVE  Below(a, c)
  BY DEF Below

(* Induction down the volume.                                              *)
LEMMA AllBelow ==
    ASSUME NEW a, NEW n, Below(a, n), NEW S, S \subseteq Nodes, a \in S,
           \A d \in Directories : d \in S => \A c \in Children(d) : c \in S
    PROVE  n \in S
  BY DEF Below

LEMMA ParentBelow ==
    ASSUME NEW a, NEW n, Below(a, n), n # a
    PROVE  \E d \in Directories : n \in Children(d) /\ Below(a, d)
  <1> DEFINE S == {x \in Nodes : x = a \/ \E d \in Directories : x \in Children(d) /\ Below(a, d)}
  <1>1. a \in Nodes /\ Below(a, a)
    BY BelowNode, BelowSelf
  <1>2. \A x \in S : Below(a, x)
    BY <1>1, BelowChild
  <1>3. ASSUME NEW d \in Directories, d \in S, NEW c \in Children(d)
        PROVE  c \in S
    BY <1>2, <1>3, OneParent
  <1>4. n \in S
    <2> HIDE DEF S
    <2>1. S \subseteq Nodes /\ a \in S
      BY <1>1 DEF S
    <2>2. QED
      BY <1>3, <2>1, AllBelow
  <1>5. QED
    BY <1>4

LEMMA BelowParent ==
    ASSUME NEW a, NEW n, Below(a, n), n # a, NEW d \in Directories, n \in Children(d)
    PROVE  Below(a, d)
  <1>1. PICK p \in Directories : n \in Children(p) /\ Below(a, p)
    BY ParentBelow
  <1>2. QED
    BY <1>1, OneParent

LEMMA AboveRoot ==
    ASSUME NEW a, Below(a, Root)
    PROVE  a = Root
  BY ParentBelow, OneParent

(* No directory is below one of its entries.                               *)
LEMMA NoCycle ==
    ASSUME NEW n \in Directories, Below(Root, n), NEW c \in Children(n)
    PROVE  ~Below(c, n)
  <1> DEFINE S == {x \in Nodes : /\ Below(Root, x)
                                 /\ x \in Directories => \A e \in Children(x) : ~Below(e, x)}
  <1>1. Root \in S
    BY NodesAssumption, BelowSelf, AboveRoot, OneParent DEF Nodes
  <1>2. ASSUME NEW x \in Directories, x \in S, NEW y \in Children(x)
        PROVE  y \in S
    <2>1. y \in Nodes /\ Below(Root, y) /\ Below(y, y)
      BY <1>2, OneParent, BelowChild, BelowSelf
    <2>2. ASSUME y \in Directories, NEW e \in Children(y), Below(e, y)
          PROVE  FALSE
      <3>1. CASE e = y
        <4>1. y = x
          BY <2>2, <3>1, OneParent
        <4>2. QED
          BY <1>2, <2>2, <3>1, <4>1
      <3>2. CASE e # y
        <4>1. Below(e, x)
          BY <2>2, <3>2, BelowParent
        <4>2. Below(y, e)
          BY <2>1, <2>2, BelowChild
        <4>3. QED
          BY <1>2, <4>1, <4>2, BelowThrough
      <3>3. QED
        BY <3>1, <3>2
    <2>3. QED
      BY <2>1, <2>2
  <1>3. n \in S
    <2> HIDE DEF S
    <2>1. S \subseteq Nodes
      BY DEF S
    <2>2. QED
      BY <1>1, <1>2, <2>1, AllBelow
  <1>4. QED
    BY <1>3

(* Two that have something below them in common are one below the other.   *)
LEMMA Comparable ==
    ASSUME NEW a, NEW b, NEW n, Below(a, n), Below(b, n)
    PROVE  Below(a, b) \/ Below(b, a)
  <1> DEFINE S == {x \in Nodes : Below(b, x) /\ (Below(a, x) => Below(a, b) \/ Below(b, a))}
  <1>1. b \in S
    BY BelowNode, BelowSelf
  <1>2. ASSUME NEW d \in Directories, d \in S, NEW c \in Children(d)
        PROVE  c \in S
    <2>1. c \in Nodes /\ Below(b, c)
      BY <1>2, OneParent, BelowChild
    <2>2. ASSUME Below(a, c), c # a PROVE Below(a, d)
      BY <2>2, BelowParent
    <2>3. QED
      BY <1>2, <2>1, <2>2
  <1>3. n \in S
    <2> HIDE DEF S
    <2>1. S \subseteq Nodes
      BY DEF S
    <2>2. QED
      BY <1>1, <1>2, <2>1, AllBelow
  <1>4. QED
    BY <1>3

LEMMA DirectoryOnVolume ==
    ASSUME NEW d \in Directories, NEW c \in Children(d), NEW n, Below(c, n), Below(Root, n)
    PROVE  Below(Root, c) /\ Below(Root, d)
  <1>1. c # Root
    BY OneParent
  <1>2. Below(Root, c)
    BY <1>1, Comparable, AboveRoot
  <1>3. QED
    BY <1>1, <1>2, BelowParent

(* Different entries of a directory have nothing below them in common.     *)
LEMMA Disjoint ==
    ASSUME NEW d \in Directories, NEW c \in Children(d), NEW e \in Children(d),
           NEW n, Below(c, n), Below(e, n), Below(Root, n)
    PROVE  c = e
  <1>1. SUFFICES ASSUME c # e PROVE FALSE
    OBVIOUS
  <1>2. Below(Root, d)
    BY DirectoryOnVolume
  <1>3. Below(c, e) \/ Below(e, c)
    BY Comparable
  <1>4. Below(c, d) \/ Below(e, d)
    BY <1>1, <1>3, BelowParent
  <1>5. QED
    BY <1>2, <1>4, NoCycle

(* The entries at i and j of d are those above m and n.                    *)
Forks(d, i, j, m, n) ==
    /\ d \in Directories /\ i \in 1 .. Len(EntriesOf[d]) /\ j \in 1 .. Len(EntriesOf[d])
    /\ Below(EntriesOf[d][i], m) /\ Below(EntriesOf[d][j], n)

LEMMA ForkNodes ==
    ASSUME NEW d, NEW i, NEW j, NEW m, NEW n, Forks(d, i, j, m, n)
    PROVE  /\ EntriesOf[d][i] \in Children(d) /\ EntriesOf[d][j] \in Children(d)
           /\ i \in Nat /\ j \in Nat
  <1>1. EntriesOf[d] \in Seq(Nodes \cup {Dot, DotDot})
    BY VolumeAssumption DEF Forks
  <1>2. i \in Nat /\ j \in Nat
    BY <1>1 DEF Forks
  <1>3. QED
    BY <1>2, BelowNode DEF Forks, Children

LEMMA ForkIndex ==
    ASSUME NEW d, NEW i, NEW j, NEW m, NEW n, Forks(d, i, j, m, n),
           EntriesOf[d][i] = EntriesOf[d][j]
    PROVE  i = j
  <1>1. /\ d \in Directories /\ i \in 1 .. Len(EntriesOf[d]) /\ j \in 1 .. Len(EntriesOf[d])
        /\ EntriesOf[d][i] \in Nodes /\ EntriesOf[d][j] \in Nodes
    BY ForkNodes DEF Forks, Children
  <1>2. EntriesOf[d] \in Seq(Nodes \cup {Dot, DotDot})
    BY <1>1, VolumeAssumption
  <1>3. i \in 1 .. j - 1 \/ j \in 1 .. i - 1 \/ i = j
    BY <1>1, <1>2
  <1>4. QED
    BY <1>1, <1>3, VolumeAssumption

(* What has something of both sides below it is the directory they are in, *)
(* or above it.                                                            *)
LEMMA ForkDivides ==
    ASSUME NEW d, NEW i, NEW j, NEW m, NEW n, Forks(d, i, j, m, n),
           Below(Root, m), Below(Root, n), i # j
    PROVE  ~Below(m, n) /\ ~Below(n, m)
  <1> DEFINE c == EntriesOf[d][i]
             e == EntriesOf[d][j]
  <1>1. /\ d \in Directories /\ c \in Children(d) /\ e \in Children(d)
        /\ Below(c, m) /\ Below(e, n) /\ c # e
    BY ForkNodes, ForkIndex DEF Forks
  <1> HIDE DEF c, e
  <1>2. ~Below(m, n)
    BY <1>1, BelowThrough, Disjoint
  <1>3. ~Below(n, m)
    BY <1>1, BelowThrough, Disjoint
  <1>4. QED
    BY <1>2, <1>3

(* If one fork is at another directory than a second one, and below one of *)
(* its sides, then both its ends are on that side.                         *)
LEMMA ForkBelow ==
    ASSUME NEW d, NEW i, NEW j, NEW m, NEW n, Forks(d, i, j, m, n), i # j,
           NEW b \in Directories, NEW c \in Children(b), b # d,
           Below(c, EntriesOf[d][i]) \/ Below(c, EntriesOf[d][j])
    PROVE  Below(c, m) /\ Below(c, n)
  <1> DEFINE x == EntriesOf[d][i]
             y == EntriesOf[d][j]
  <1>1. /\ d \in Directories /\ x \in Children(d) /\ y \in Children(d)
        /\ Below(x, m) /\ Below(y, n)
    BY ForkNodes DEF Forks
  <1>2. Below(c, x) \/ Below(c, y)
    OBVIOUS
  <1> HIDE DEF x, y
  <1>3. c # x /\ c # y
    BY <1>1, OneParent
  <1>4. Below(c, d)
    BY <1>1, <1>2, <1>3, BelowParent
  <1>5. QED
    BY <1>1, <1>4, BelowChild, BelowThrough

(* The order of the picture is one.                                        *)
LEMMA BeforeOneWay ==
    ASSUME NEW m, NEW n, Below(Root, m), Below(Root, n), Before(m, n)
    PROVE  ~Before(n, m)
  <1>1. SUFFICES ASSUME Before(n, m) PROVE FALSE
    OBVIOUS
  <1>2. \/ m \in Above(n)
        \/ \E d, i, j : Forks(d, i, j, m, n) /\ i < j
    <2>1. CASE m \in Above(n)
      BY <2>1
    <2>2. CASE m \notin Above(n)
      <3>1. PICK d \in Directories : \E j \in 1 .. Len(EntriesOf[d]) : \E i \in 1 .. j - 1 :
                Below(EntriesOf[d][i], m) /\ Below(EntriesOf[d][j], n)
        BY <2>2 DEF Before
      <3>2. PICK j \in 1 .. Len(EntriesOf[d]) : \E i \in 1 .. j - 1 :
                Below(EntriesOf[d][i], m) /\ Below(EntriesOf[d][j], n)
        BY <3>1
      <3>3. PICK i \in 1 .. j - 1 : Below(EntriesOf[d][i], m) /\ Below(EntriesOf[d][j], n)
        BY <3>2
      <3>4. Len(EntriesOf[d]) \in Nat
        BY VolumeAssumption
      <3>5. i \in 1 .. Len(EntriesOf[d]) /\ i < j
        BY <3>4
      <3>6. Forks(d, i, j, m, n)
        BY <3>3, <3>5 DEF Forks
      <3>7. QED
        BY <3>5, <3>6
    <2>3. QED
      BY <2>1, <2>2
  <1>3. \/ n \in Above(m)
        \/ \E d, i, j : Forks(d, i, j, m, n) /\ j < i
    <2>1. CASE n \in Above(m)
      BY <2>1
    <2>2. CASE n \notin Above(m)
      <3>1. PICK d \in Directories : \E j \in 1 .. Len(EntriesOf[d]) : \E i \in 1 .. j - 1 :
                Below(EntriesOf[d][i], n) /\ Below(EntriesOf[d][j], m)
        BY <1>1, <2>2 DEF Before
      <3>2. PICK j \in 1 .. Len(EntriesOf[d]) : \E i \in 1 .. j - 1 :
                Below(EntriesOf[d][i], n) /\ Below(EntriesOf[d][j], m)
        BY <3>1
      <3>3. PICK i \in 1 .. j - 1 : Below(EntriesOf[d][i], n) /\ Below(EntriesOf[d][j], m)
        BY <3>2
      <3>4. Len(EntriesOf[d]) \in Nat
        BY VolumeAssumption
      <3>5. i \in 1 .. Len(EntriesOf[d]) /\ i < j
        BY <3>4
      <3>6. Forks(d, j, i, m, n)
        BY <3>3, <3>5 DEF Forks
      <3>7. QED
        BY <3>5, <3>6
    <2>3. QED
      BY <2>1, <2>2
  <1>4. CASE m \in Above(n) /\ n \in Above(m)
    <2>1. m # n /\ Below(m, n) /\ Below(n, m)
      BY <1>4 DEF Above
    <2>2. PICK d \in Directories : n \in Children(d) /\ Below(m, d)
      BY <2>1, ParentBelow
    <2>3. Below(n, d)
      BY <2>1, <2>2, BelowThrough
    <2>4. Below(Root, d)
      BY <2>1, <2>2, BelowThrough
    <2>5. QED
      BY <2>2, <2>3, <2>4, NoCycle
  <1>5. ASSUME NEW d, NEW i, NEW j, Forks(d, i, j, m, n), i < j, n \in Above(m) PROVE FALSE
    <2>1. i # j
      BY <1>5, ForkNodes
    <2>2. ~Below(m, n) /\ ~Below(n, m)
      BY <1>5, <2>1, ForkDivides
    <2>3. QED
      BY <1>5, <2>2 DEF Above
  <1>6. ASSUME NEW d, NEW i, NEW j, Forks(d, i, j, m, n), j < i, m \in Above(n) PROVE FALSE
    <2>1. i # j
      BY <1>6, ForkNodes
    <2>2. ~Below(m, n) /\ ~Below(n, m)
      BY <1>6, <2>1, ForkDivides
    <2>3. QED
      BY <1>6, <2>2 DEF Above
  <1>7. ASSUME NEW d, NEW i, NEW j, Forks(d, i, j, m, n), i < j,
               NEW b, NEW k, NEW l, Forks(b, k, l, m, n), l < k
        PROVE  FALSE
    <2> DEFINE c == EntriesOf[d][i]
               e == EntriesOf[d][j]
               x == EntriesOf[b][k]
               y == EntriesOf[b][l]
    <2>1. /\ d \in Directories /\ c \in Children(d) /\ e \in Children(d)
          /\ i \in Nat /\ j \in Nat /\ i # j
          /\ Below(c, m) /\ Below(e, n) /\ c # e
      <3>1. i \in Nat /\ j \in Nat /\ i # j
        BY <1>7, ForkNodes
      <3>2. QED
        BY <1>7, <3>1, ForkNodes, ForkIndex DEF Forks
    <2>2. /\ b \in Directories /\ x \in Children(b) /\ y \in Children(b)
          /\ k \in Nat /\ l \in Nat /\ k # l
          /\ Below(x, m) /\ Below(y, n) /\ x # y
      <3>1. k \in Nat /\ l \in Nat /\ k # l
        BY <1>7, ForkNodes
      <3>2. QED
        BY <1>7, <3>1, ForkNodes, ForkIndex DEF Forks
    <2>3. CASE b = d
      <3>1. c = x /\ e = y
        BY <2>1, <2>2, <2>3, Disjoint
      <3>2. Forks(d, i, k, m, m) /\ Forks(d, j, l, n, n)
        BY <1>7, <2>3 DEF Forks
      <3>3. i = k /\ j = l
        BY <2>3, <3>1, <3>2, ForkIndex
      <3>4. QED
        BY <1>7, <2>1, <2>2, <3>3
    <2>4. CASE b # d /\ Below(c, x)
      <3>1. Below(c, n)
        BY <1>7, <2>1, <2>2, <2>4, ForkBelow
      <3>2. QED
        BY <2>1, <3>1, Disjoint
    <2>5. CASE b # d /\ Below(x, c)
      <3>1. Below(x, n)
        BY <1>7, <2>1, <2>2, <2>5, ForkBelow
      <3>2. QED
        BY <2>2, <3>1, Disjoint
    <2>6. Below(c, x) \/ Below(x, c)
      BY <2>1, <2>2, Comparable
    <2>7. QED
      BY <2>3, <2>4, <2>5, <2>6
  <1>8. QED
    BY <1>2, <1>3, <1>4, <1>5, <1>6, <1>7

(* A directory's entry is one deeper than the directory.                   *)
LEMMA AboveEntry ==
    ASSUME NEW d \in Directories, NEW c \in Children(d), Below(Root, d)
    PROVE  Above(c) = Above(d) \cup {d} /\ d \notin Above(d)
  <1>1. c \in Nodes /\ d \in Nodes /\ Below(d, c) /\ Below(c, c)
    BY OneParent, BelowSelf, BelowChild
  <1>2. d # c /\ \A a : Below(a, d) => a # c
    BY <1>1, NoCycle, BelowSelf
  <1>3. \A a : Below(a, c) /\ a # c => Below(a, d)
    BY BelowParent
  <1>4. \A a : Below(a, d) => Below(a, c)
    BY BelowChild
  <1>5. QED
    BY <1>1, <1>2, <1>3, <1>4 DEF Above

(* Where the activations are: each below its callers, as deep as there are *)
(* callers.                                                                *)
Placed(s) ==
    \A k \in 1 .. Len(s) :
        /\ Below(Root, s[k].file)
        /\ \A i \in 1 .. k : Below(s[i].file, s[k].file)
        /\ IsFiniteSet(Above(s[k].file)) /\ Cardinality(Above(s[k].file)) = k - 1

(* What an activation has yet to list, or to call for.                     *)
Later(a) == {j \in 1 .. Len(EntriesOf[a.file]) : j > a.pos /\ (a.at = "close" => j > a.pos + 1)}
Ahead(a) ==
    IF a.at = "info" THEN {a.file} ELSE {EntriesOf[a.file][j] : j \in Later(a)} \cap Nodes

AllAhead(s, l) ==
    \A k \in 1 .. Len(s) : \A n \in Ahead(s[k]) : \A m \in Nodes : Shown(l, m) => Before(m, n)

OnVolume(l) == \A m \in Nodes : Shown(l, m) => Below(Root, m)

OrderInv ==
    /\ StackInv /\ Placed(stack) /\ AllAhead(stack, listing) /\ OnVolume(listing)
    /\ ListingInOrder

LEMMA BeforeEntries ==
    ASSUME NEW d \in Directories, Below(Root, d), NEW n \in Children(d)
    PROVE  Before(d, n) /\ \A m : Before(m, d) => Before(m, n)
  <1>1. Above(n) = Above(d) \cup {d}
    BY AboveEntry
  <1>2. \A a : Below(a, d) => Below(a, n)
    BY BelowChild
  <1>3. QED
    BY <1>1, <1>2 DEF Before

(* The last activation's file comes before what its callers have ahead.    *)
LEMMA BesideCallers ==
    ASSUME NEW s, Path(s), Placed(s), s # <<>>,
           NEW k \in 1 .. Len(s) - 1, NEW n \in Ahead(s[k])
    PROVE  Before(s[Len(s)].file, n)
  <1> DEFINE a == s[k]
             e == EntriesOf[a.file]
             p == a.pos + 1
  <1>1. /\ Len(s) \in Nat /\ k \in 1 .. Len(s) /\ k + 1 \in 1 .. Len(s) /\ Len(s) \in 1 .. Len(s)
        /\ SoundActivation(a) /\ a.at = "close" /\ s[k + 1].file = e[p]
    BY DEF Path, EntryOf
  <1>2. Below(e[p], s[Len(s)].file)
    BY <1>1 DEF Placed
  <1>3. PICK j \in Later(a) : n = e[j] /\ n \in Nodes
    BY <1>1 DEF Ahead
  <1>4. a.file \in Directories /\ a.pos \in Nat
    BY <1>1 DEF SoundActivation, Activation
  <1>5. e \in Seq(Nodes \cup {Dot, DotDot})
    BY <1>4, VolumeAssumption
  <1>6. j \in 1 .. Len(e) /\ p \in 1 .. j - 1
    BY <1>1, <1>3, <1>4, <1>5 DEF Later
  <1>7. Below(e[j], n)
    BY <1>3, BelowSelf
  <1>8. \E q \in 1 .. j - 1 : Below(e[q], s[Len(s)].file) /\ Below(e[j], n)
    BY <1>2, <1>6, <1>7
  <1>9. QED
    BY <1>4, <1>6, <1>8 DEF Before

LEMMA LineInOrder ==
    ASSUME OrderInv, stack # <<>>, Top.at = "info", ShowLine(Indent, Top.file)
    PROVE  ListingInOrder' /\ OnVolume(listing')
  <1> DEFINE T == Top.file
             h == Len(listing)
  <1>1. /\ Len(stack) \in Nat /\ Len(stack) >= 1 /\ T \in Nodes /\ StackInv
    BY TopSound DEF OrderInv
  <1>2. /\ listing \in Seq(Nat \X (Nodes \cup {"error"})) /\ h \in Nat
        /\ listing' = Append(listing, <<Len(stack) - 1, T>>)
    BY <1>1 DEF StackInv, ShowLine, Indent
  <1>3. /\ Len(listing') = h + 1
        /\ \A k \in 1 .. h : listing'[k] = listing[k]
        /\ listing'[h + 1] = <<Len(stack) - 1, T>>
    BY <1>1, <1>2
  <1>4. Below(Root, T) /\ Cardinality(Above(T)) = Len(stack) - 1
    BY <1>1 DEF OrderInv, Placed, Top
  <1>5. \A m \in Nodes : Shown(listing, m) => Before(m, T) /\ ~Before(T, m)
    <2>1. T \in Ahead(stack[Len(stack)]) /\ Len(stack) \in 1 .. Len(stack)
      BY <1>1 DEF Ahead, Top
    <2>2. \A m \in Nodes : Shown(listing, m) => Before(m, T)
      BY <2>1 DEF OrderInv, AllAhead
    <2>3. QED
      BY <1>4, <2>2, BeforeOneWay DEF OrderInv, OnVolume
  <1>6. \A k \in 1 .. h : Shown(listing, listing[k][2])
    BY DEF Shown
  <1>7. \A n \in Nodes : Shown(listing', n) => Shown(listing, n) \/ n = T
    <2>1. \A k \in 1 .. h + 1 : k \in 1 .. h \/ k = h + 1
      BY <1>2
    <2>2. QED
      BY <1>3, <2>1 DEF Shown
  <1>8. OnVolume(listing')
    BY <1>4, <1>7 DEF OrderInv, OnVolume
  <1>9. ListingInOrder'
    <2> SUFFICES ASSUME NEW k \in 1 .. h + 1, listing'[k][2] \in Nodes
                 PROVE  /\ listing'[k][1] = Cardinality(Above(listing'[k][2]))
                        /\ \A j \in 1 .. k - 1 : listing'[j][2] \in Nodes =>
                               /\ Before(listing'[j][2], listing'[k][2])
                               /\ ~Before(listing'[k][2], listing'[j][2])
      BY <1>3 DEF ListingInOrder
    <2>1. CASE k \in 1 .. h
      <3>1. \A j \in 1 .. k - 1 : j \in 1 .. h
        BY <1>2, <2>1
      <3>2. QED
        BY <1>3, <2>1, <3>1 DEF OrderInv, ListingInOrder
    <2>2. CASE k = h + 1
      <3>1. \A j \in 1 .. k - 1 : j \in 1 .. h
        BY <1>2, <2>2
      <3>2. listing'[k][1] = Len(stack) - 1 /\ listing'[k][2] = T
        BY <1>3, <2>2
      <3>3. \A j \in 1 .. k - 1 : listing'[j] = listing[j] /\ Shown(listing, listing[j][2])
        BY <1>3, <1>6, <3>1
      <3>4. QED
        BY <1>4, <1>5, <3>2, <3>3
    <2>3. QED
      BY <1>2, <2>1, <2>2
  <1>10. QED
    BY <1>8, <1>9

LEMMA ErrorInOrder ==
    ASSUME OrderInv, stack # <<>>, NEW i \in Nat, ShowLine(i, "error")
    PROVE  /\ ListingInOrder' /\ OnVolume(listing')
           /\ \A n \in Nodes : Shown(listing', n) <=> Shown(listing, n)
  <1> DEFINE h == Len(listing)
  <1>1. /\ h \in Nat /\ Len(listing') = h + 1
        /\ \A k \in 1 .. h : listing'[k] = listing[k]
        /\ listing'[h + 1][2] = "error" /\ "error" \notin Nodes
    BY LineTyped, NodesAssumption DEF OrderInv
  <1>2. \A n \in Nodes : Shown(listing', n) <=> Shown(listing, n)
    BY <1>1, LineShown DEF OrderInv
  <1>3. \A k \in 1 .. h + 1 : listing'[k][2] \in Nodes =>
            k \in 1 .. h /\ \A j \in 1 .. k - 1 : j \in 1 .. h
    BY <1>1
  <1>4. ListingInOrder'
    <2> SUFFICES ASSUME NEW k \in 1 .. h + 1, listing'[k][2] \in Nodes
                 PROVE  /\ listing'[k][1] = Cardinality(Above(listing'[k][2]))
                        /\ \A j \in 1 .. k - 1 : listing'[j][2] \in Nodes =>
                               /\ Before(listing'[j][2], listing'[k][2])
                               /\ ~Before(listing'[k][2], listing'[j][2])
      BY <1>1 DEF ListingInOrder
    <2>1. k \in 1 .. h /\ \A j \in 1 .. k - 1 : j \in 1 .. h
      BY <1>3
    <2>2. QED
      BY <1>1, <2>1 DEF OrderInv, ListingInOrder
  <1>5. QED
    BY <1>2, <1>4 DEF OrderInv, OnVolume

LEMMA OrderReturns ==
    ASSUME NEW s, NEW t, NEW l, NEW m, Path(s), Path(t), WithoutLast(s, t),
           Placed(s), AllAhead(s, l),
           \A n \in Nodes : Shown(m, n) => Shown(l, n) \/ n = s[Len(s)].file
    PROVE  Placed(t) /\ AllAhead(t, m)
  <1>1. /\ Len(s) \in Nat /\ s # <<>> /\ Len(t) = Len(s) - 1
        /\ \A k \in 1 .. Len(t) : t[k] = s[k]
    BY DEF WithoutLast, Path
  <1>2. \A k \in 1 .. Len(t) : k \in 1 .. Len(s) /\ \A i \in 1 .. k : i \in 1 .. Len(t)
    BY <1>1
  <1>3. Placed(t)
    <2> SUFFICES ASSUME NEW k \in 1 .. Len(t)
                 PROVE  /\ Below(Root, t[k].file)
                        /\ \A i \in 1 .. k : Below(t[i].file, t[k].file)
                        /\ IsFiniteSet(Above(t[k].file)) /\ Cardinality(Above(t[k].file)) = k - 1
      BY DEF Placed
    <2>1. k \in 1 .. Len(s) /\ t[k] = s[k] /\ \A i \in 1 .. k : t[i] = s[i]
      BY <1>1, <1>2
    <2>2. QED
      BY <2>1 DEF Placed
  <1>4. AllAhead(t, m)
    <2> SUFFICES ASSUME NEW k \in 1 .. Len(t), NEW n \in Ahead(t[k]),
                        NEW x \in Nodes, Shown(m, x)
                 PROVE  Before(x, n)
      BY DEF AllAhead
    <2>1. k \in 1 .. Len(s) /\ k \in 1 .. Len(s) - 1 /\ n \in Ahead(s[k])
      BY <1>1, <1>2
    <2>2. CASE Shown(l, x)
      BY <2>1, <2>2 DEF AllAhead
    <2>3. CASE x = s[Len(s)].file
      BY <1>1, <2>1, <2>3, BesideCallers
    <2>4. QED
      BY <2>2, <2>3
  <1>5. QED
    BY <1>3, <1>4

LEMMA OrderGoesOn ==
    ASSUME NEW s, NEW a, NEW t, NEW l, NEW m, Path(s), LastIs(s, a, t),
           Placed(s), AllAhead(s, l),
           \A n \in Nodes : Shown(m, n) => Shown(l, n) \/ n = s[Len(s)].file,
           \A n \in Ahead(a) : \A x \in Nodes : Shown(m, x) => Before(x, n)
    PROVE  Placed(t) /\ AllAhead(t, m)
  <1>1. /\ Path(t) /\ Len(t) = Len(s) /\ t[Len(s)] = a
        /\ \A k \in 1 .. Len(s) - 1 : t[k] = s[k]
        /\ \A k \in 1 .. Len(s) : t[k].file = s[k].file
    BY PathGoesOn
  <1>2. Len(s) \in Nat /\ s # <<>>
    BY DEF Path, LastIs
  <1>3. Placed(t)
    <2> SUFFICES ASSUME NEW k \in 1 .. Len(s)
                 PROVE  /\ Below(Root, t[k].file)
                        /\ \A i \in 1 .. k : Below(t[i].file, t[k].file)
                        /\ IsFiniteSet(Above(t[k].file)) /\ Cardinality(Above(t[k].file)) = k - 1
      BY <1>1 DEF Placed
    <2>1. t[k].file = s[k].file /\ \A i \in 1 .. k : t[i].file = s[i].file
      BY <1>1, <1>2
    <2>2. QED
      BY <2>1 DEF Placed
  <1>4. AllAhead(t, m)
    <2> SUFFICES ASSUME NEW k \in 1 .. Len(s), NEW n \in Ahead(t[k]),
                        NEW x \in Nodes, Shown(m, x)
                 PROVE  Before(x, n)
      BY <1>1 DEF AllAhead
    <2>1. CASE k = Len(s)
      BY <1>1, <2>1
    <2>2. CASE k \in 1 .. Len(s) - 1
      <3>1. n \in Ahead(s[k])
        BY <1>1, <2>2
      <3>2. CASE Shown(l, x)
        BY <3>1, <3>2 DEF AllAhead
      <3>3. CASE x = s[Len(s)].file
        BY <1>2, <2>2, <3>1, <3>3, BesideCallers
      <3>4. QED
        BY <3>2, <3>3
    <2>3. QED
      BY <1>2, <2>1, <2>2
  <1>5. QED
    BY <1>3, <1>4

(* A call: the callee's file was ahead.                                    *)
LEMMA OrderCalls ==
    ASSUME NEW s, NEW t, NEW l, Path(s), s # <<>>, s[Len(s)].at = "close",
           t = Append(s, Call(EntryOf(s[Len(s)]))), Placed(s), AllAhead(s, l),
           \A x \in Nodes : Shown(l, x) => Before(x, EntryOf(s[Len(s)]))
    PROVE  Placed(t) /\ AllAhead(t, l)
  <1> DEFINE h == Len(s)
             n == EntryOf(s[h])
  <1>1. /\ Path(t) /\ Len(t) = h + 1 /\ t[h + 1] = Call(n)
        /\ \A k \in 1 .. h : t[k] = s[k]
    BY PathCalls
  <1>2. /\ h \in Nat /\ h >= 1 /\ h \in 1 .. h /\ SoundActivation(s[h])
    BY DEF Path
  <1>3. s[h].file \in Directories /\ n \in Children(s[h].file)
    <2>1. /\ s[h].file \in Directories /\ n \in Nodes /\ s[h].pos \in Nat
          /\ s[h].pos < Len(EntriesOf[s[h].file])
      BY <1>2 DEF SoundActivation, Activation
    <2>2. EntriesOf[s[h].file] \in Seq(Nodes \cup {Dot, DotDot})
      BY <2>1, VolumeAssumption
    <2>3. s[h].pos + 1 \in 1 .. Len(EntriesOf[s[h].file])
      BY <2>1, <2>2
    <2>4. QED
      BY <2>1, <2>3 DEF Children, EntryOf
  <1> HIDE DEF n
  <1>4. /\ Below(Root, s[h].file) /\ \A i \in 1 .. h : Below(s[i].file, s[h].file)
        /\ IsFiniteSet(Above(s[h].file)) /\ Cardinality(Above(s[h].file)) = h - 1
    BY <1>2 DEF Placed
  <1>5. Below(Root, n) /\ Below(n, n) /\ \A i \in 1 .. h : Below(s[i].file, n)
    BY <1>3, <1>4, BelowChild, BelowSelf, OneParent
  <1>6. IsFiniteSet(Above(n)) /\ Cardinality(Above(n)) = h
    <2>1. Above(n) = Above(s[h].file) \cup {s[h].file} /\ s[h].file \notin Above(s[h].file)
      BY <1>3, <1>4, AboveEntry
    <2> DEFINE A == Above(s[h].file)
               d == s[h].file
    <2>2. IsFiniteSet(A) /\ d \notin A /\ Cardinality(A) = h - 1
      BY <1>4, <2>1
    <2>3. Above(n) = A \cup {d}
      BY <2>1
    <2> HIDE DEF A, d
    <2>4. IsFiniteSet(A \cup {d}) /\ Cardinality(A \cup {d}) = Cardinality(A) + 1
      BY <2>2, FS_AddElement
    <2>5. QED
      BY <1>2, <2>2, <2>3, <2>4
  <1>7. Call(n).file = n /\ Call(n).at = "info"
    BY DEF Call
  <1>8. \A k \in 1 .. h + 1 : k \in 1 .. h \/ k = h + 1
    BY <1>2
  <1>9. Placed(t)
    <2> SUFFICES ASSUME NEW k \in 1 .. h + 1
                 PROVE  /\ Below(Root, t[k].file)
                        /\ \A i \in 1 .. k : Below(t[i].file, t[k].file)
                        /\ IsFiniteSet(Above(t[k].file)) /\ Cardinality(Above(t[k].file)) = k - 1
      BY <1>1 DEF Placed
    <2>1. CASE k \in 1 .. h
      <3>1. t[k] = s[k] /\ \A i \in 1 .. k : t[i] = s[i]
        BY <1>1, <1>2, <2>1
      <3>2. QED
        BY <2>1, <3>1 DEF Placed
    <2>2. CASE k = h + 1
      <3>1. t[k].file = n
        BY <1>1, <1>7, <2>2
      <3>2. \A i \in 1 .. k : i = k \/ (i \in 1 .. h /\ t[i] = s[i])
        BY <1>1, <1>2, <2>2
      <3>3. \A i \in 1 .. k : Below(t[i].file, n)
        BY <1>5, <3>1, <3>2
      <3>4. k - 1 = h
        BY <1>2, <2>2
      <3>5. QED
        BY <1>5, <1>6, <3>1, <3>3, <3>4
    <2>3. QED
      BY <1>8, <2>1, <2>2
  <1>10. AllAhead(t, l)
    <2> SUFFICES ASSUME NEW k \in 1 .. h + 1, NEW y \in Ahead(t[k]), NEW x \in Nodes, Shown(l, x)
                 PROVE  Before(x, y)
      BY <1>1 DEF AllAhead
    <2>1. CASE k \in 1 .. h
      BY <1>1, <2>1 DEF AllAhead
    <2>2. CASE k = h + 1
      <3>1. y = n
        BY <1>1, <1>7, <2>2 DEF Ahead
      <3>2. QED
        BY <3>1 DEF n
    <2>3. QED
      BY <1>8, <2>1, <2>2
  <1>11. QED
    BY <1>9, <1>10

LEMMA OrderInit == TreeInit => OrderInv
  <1> SUFFICES ASSUME TreeInit PROVE OrderInv
    OBVIOUS
  <1>1. StackInv /\ Len(stack) = 1 /\ stack[1] = Call(Root) /\ Len(listing) = 0
    BY StackInit DEF TreeInit
  <1>2. \A n : ~Shown(listing, n)
    BY <1>1 DEF Shown
  <1>3. Above(Root) = {} /\ Root \in Nodes /\ Below(Root, Root)
    BY NodesAssumption, BelowSelf, AboveRoot DEF Above, Nodes
  <1>4. IsFiniteSet(Above(Root)) /\ Cardinality(Above(Root)) = 0
    BY <1>3, FS_EmptySet
  <1>5. Placed(stack)
    <2>1. \A k \in 1 .. Len(stack) : stack[k].file = Root /\ k - 1 = 0
      BY <1>1 DEF Call
    <2>2. \A k \in 1 .. Len(stack) : \A i \in 1 .. k : i \in 1 .. Len(stack)
      BY <1>1
    <2>3. QED
      BY <1>3, <1>4, <2>1, <2>2 DEF Placed
  <1>6. QED
    BY <1>1, <1>2, <1>5 DEF OrderInv, AllAhead, OnVolume, ListingInOrder

(* What is ahead of an activation that goes on was ahead before, or is in  *)
(* the directory just listed.                                              *)
LEMMA LaterStill ==
    ASSUME NEW r, NEW a, SoundActivation(r), a.file = r.file,
           \/ r.at = "read" /\ a.at = "read" /\ a.pos = r.pos + 1
           \/ r.at = "read" /\ a.at = "close" /\ a.pos = r.pos
           \/ r.at = "close" /\ a.at = "read" /\ a.pos = r.pos + 1
    PROVE  Ahead(a) \subseteq Ahead(r)
  <1>1. r.file \in Directories /\ r.pos \in Nat
    BY DEF SoundActivation, Activation
  <1>2. EntriesOf[r.file] \in Seq(Nodes \cup {Dot, DotDot})
    BY <1>1, VolumeAssumption
  <1>3. Later(a) \subseteq Later(r)
    BY <1>1, <1>2 DEF Later
  <1>4. QED
    BY <1>3 DEF Ahead

LEMMA OrderStep == OrderInv /\ [TreeNext]_treeVars => OrderInv'
  <1> SUFFICES ASSUME OrderInv, [TreeNext]_treeVars PROVE OrderInv'
    OBVIOUS
  <1>1. /\ StackInv /\ StackInv' /\ Path(stack) /\ Path(stack')
        /\ Placed(stack) /\ AllAhead(stack, listing) /\ OnVolume(listing) /\ ListingInOrder
    BY StackStep DEF OrderInv, StackInv
  <1>2. SUFFICES /\ Placed(stack') /\ AllAhead(stack', listing')
                 /\ OnVolume(listing') /\ ListingInOrder'
    BY <1>1 DEF OrderInv
  <1>3. listing' = listing => OnVolume(listing') /\ ListingInOrder'
    BY <1>1 DEF ListingInOrder
  <1>4. ASSUME stack # <<>>
        PROVE  /\ Top \in Activation /\ SoundActivation(Top) /\ Entry = EntryOf(Top)
               /\ Top = stack[Len(stack)] /\ Top.pos \in Nat
               /\ Indent \in Nat /\ Indent + 1 \in Nat
               /\ \A n \in Ahead(Top) : \A m \in Nodes : Shown(listing, m) => Before(m, n)
    <2>1. Len(stack) \in 1 .. Len(stack) /\ Indent \in Nat /\ Indent + 1 \in Nat
      BY <1>1, <1>4, TopSound DEF Indent
    <2>2. QED
      BY <1>1, <1>4, <2>1, TopSound DEF SoundActivation, Top, Activation, AllAhead
  <1>5. ASSUME stack # <<>>, Top.at = "info", ShowLine(Indent, Top.file)
        PROVE  /\ OnVolume(listing') /\ ListingInOrder'
               /\ \A n \in Nodes : Shown(listing', n) => Shown(listing, n) \/ n = Top.file
    <2>1. Top.file \in Nodes
      BY <1>1, <1>5, TopSound
    <2>2. QED
      BY <1>1, <1>4, <1>5, <2>1, LineInOrder, LineShown
  <1>6. CASE ReturnAction
    <2>1. stack # <<>> /\ stack' = Callers
      BY <1>1, <1>6, Returning
    <2>2. WithoutLast(stack, stack')
      BY <1>1, <2>1, PathOfCallers DEF Callers, WithoutLast
    <2>3. /\ OnVolume(listing') /\ ListingInOrder'
          /\ \A n \in Nodes : Shown(listing', n) => Shown(listing, n) \/ n = Top.file
      <3>1. CASE ListFile
        BY <1>5, <2>1, <3>1 DEF ListFile, Running
      <3>2. CASE InfoFails \/ ReadFails \/ OpenFails
        <4>1. ShowLine(Indent, "error") \/ ShowLine(Indent + 1, "error")
          BY <3>2 DEF InfoFails, ReadFails, OpenFails, Stops
        <4>2. QED
          BY <1>4, <2>1, <4>1, ErrorInOrder
      <3>3. CASE EndOfDirectory
        BY <1>3, <3>3 DEF EndOfDirectory
      <3>4. QED
        BY <1>6, <3>1, <3>2, <3>3 DEF ReturnAction
    <2>4. Top = stack[Len(stack)]
      BY DEF Top
    <2>5. QED
      BY <1>1, <2>2, <2>3, <2>4, OrderReturns
  <1>7. ASSUME stack # <<>>, NEW a, GoesOn(a), Ahead(a) \subseteq Ahead(Top), listing' = listing
        PROVE  Placed(stack') /\ AllAhead(stack', listing')
    <2>1. LastIs(stack, a, stack')
      BY <1>7 DEF GoesOn, Top, LastIs
    <2>2. \A n \in Ahead(a) : \A x \in Nodes : Shown(listing', x) => Before(x, n)
      BY <1>4, <1>7
    <2>3. QED
      BY <1>1, <1>7, <2>1, <2>2, OrderGoesOn
  <1>8. CASE ListDirectory
    <2> DEFINE a == [Top EXCEPT !.at = "read"]
    <2>1. /\ stack # <<>> /\ Top.at = "info" /\ Top.file \in Directories
          /\ ShowLine(Indent, Top.file)
      BY <1>8 DEF ListDirectory, Running
    <2>2. GoesOn(a) /\ a.at = "read" /\ a.file = Top.file
      BY <1>1, <1>4, <1>8, <2>1, GoingOn DEF Activation
    <2> HIDE DEF a
    <2>3. LastIs(stack, a, stack')
      BY <2>1, <2>2 DEF GoesOn, Top, LastIs
    <2>4. \A n \in Ahead(a) : n \in Children(Top.file)
      BY <2>2 DEF Ahead, Later, Children
    <2>5. Below(Root, Top.file)
      <3>1. Len(stack) \in 1 .. Len(stack)
        BY <1>1, <2>1, TopSound
      <3>2. QED
        BY <1>1, <3>1 DEF Placed, Top
    <2>6. \A m \in Nodes : Shown(listing, m) => Before(m, Top.file)
      BY <1>4, <2>1 DEF Ahead
    <2>7. \A n \in Ahead(a) : \A x \in Nodes : Shown(listing', x) => Before(x, n)
      BY <1>5, <2>1, <2>4, <2>5, <2>6, BeforeEntries
    <2>8. Placed(stack') /\ AllAhead(stack', listing')
      BY <1>1, <1>5, <2>1, <2>3, <2>7, OrderGoesOn DEF Top
    <2>9. QED
      BY <1>5, <2>1, <2>8
  <1>9. CASE SkipDots
    <2> DEFINE a == [Top EXCEPT !.pos = Top.pos + 1]
    <2>1. stack # <<>> /\ Top.at = "read" /\ listing' = listing
      BY <1>9 DEF SkipDots, AtEntry, Running
    <2>2. GoesOn(a) /\ a.at = "read" /\ a.file = Top.file /\ a.pos = Top.pos + 1
      BY <1>1, <1>4, <1>9, <2>1, GoingOn DEF Activation
    <2> HIDE DEF a
    <2>3. Ahead(a) \subseteq Ahead(Top)
      BY <1>4, <2>1, <2>2, LaterStill
    <2>4. QED
      BY <1>3, <1>7, <2>1, <2>2, <2>3
  <1>10. CASE CloseEntry
    <2> DEFINE a == [Top EXCEPT !.at = "read", !.pos = Top.pos + 1]
    <2>1. stack # <<>> /\ Top.at = "close" /\ listing' = listing
      BY <1>10 DEF CloseEntry, Running
    <2>2. GoesOn(a) /\ a.at = "read" /\ a.file = Top.file /\ a.pos = Top.pos + 1
      BY <1>1, <1>4, <1>10, <2>1, GoingOn, MovedOn
    <2> HIDE DEF a
    <2>3. Ahead(a) \subseteq Ahead(Top)
      BY <1>4, <2>1, <2>2, LaterStill
    <2>4. QED
      BY <1>3, <1>7, <2>1, <2>2, <2>3
  <1>11. CASE Enter
    <2> DEFINE a == [Top EXCEPT !.at = "close"]
               t == [stack EXCEPT ![Len(stack)] = a]
    <2>1. /\ stack # <<>> /\ SoundActivation(a) /\ a.file = stack[Len(stack)].file
          /\ a.at = "close" /\ EntryOf(a) = Entry /\ stack' = Append(t, Call(Entry))
          /\ a.file = Top.file /\ a.pos = Top.pos /\ Entry \in Nodes
      BY <1>1, <1>11, Calling DEF Top
    <2>2. /\ Top.at = "read" /\ listing' = listing /\ Top.file \in Directories
          /\ Top.pos < Len(EntriesOf[Top.file])
      BY <1>4, <1>11, <2>1 DEF Enter, AtEntry, Running, SoundActivation
    <2>3. LastIs(stack, a, t)
      BY <2>1 DEF LastIs
    <2> HIDE DEF a, t
    <2>4. Path(t) /\ Len(t) = Len(stack) /\ t[Len(stack)] = a
      BY ONLY <1>1, <2>3, PathGoesOn
    <2>5. Ahead(a) \subseteq Ahead(Top)
      BY <1>4, <2>1, <2>2, LaterStill
    <2>6. Entry \in Ahead(Top)
      <3>1. EntriesOf[Top.file] \in Seq(Nodes \cup {Dot, DotDot})
        BY <2>2, VolumeAssumption
      <3>2. Top.pos + 1 \in Later(Top)
        BY <1>4, <2>1, <2>2, <3>1 DEF Later
      <3>3. QED
        BY <2>1, <2>2, <3>2 DEF Ahead, Entry
    <2>7. \A n \in Ahead(a) : \A x \in Nodes : Shown(listing, x) => Before(x, n)
      BY <1>4, <2>1, <2>5
    <2>8. Placed(t) /\ AllAhead(t, listing)
      BY <1>1, <2>3, <2>7, OrderGoesOn
    <2>9. /\ t # <<>> /\ t[Len(t)].at = "close" /\ stack' = Append(t, Call(EntryOf(t[Len(t)])))
          /\ EntryOf(t[Len(t)]) = Entry
      <3>1. Len(t) \in Nat /\ Len(t) >= 1 /\ t # <<>>
        BY <1>1, <2>1, <2>4, TopSound DEF Path
      <3>2. QED
        BY <2>1, <2>4, <3>1
    <2>10. \A x \in Nodes : Shown(listing, x) => Before(x, Entry)
      BY <1>4, <2>1, <2>6
    <2>11. Placed(stack') /\ AllAhead(stack', listing)
      BY <2>4, <2>8, <2>9, <2>10, OrderCalls
    <2>12. QED
      BY <1>3, <2>2, <2>11
  <1>12. CASE UNCHANGED treeVars
    BY <1>1, <1>3, <1>12 DEF treeVars
  <1>13. QED
    BY <1>6, <1>8, <1>9, <1>10, <1>11, <1>12 DEF TreeNext, Proceeds, ReturnAction

(* The picture is true (main.c:580-633), on every volume that is a tree    *)
(* and whichever calls fail: every name is at its depth, none comes twice, *)
(* and each comes after those that are before it in the volume.            *)
THEOREM PictureIsTrue == TreeSpec => []ListingInOrder
  <1>1. OrderInv => ListingInOrder
    BY DEF OrderInv
  <1>2. QED
    BY <1>1, OrderInit, OrderStep, PTL DEF TreeSpec
=============================================================================
