------------------------------ MODULE TreeWalk -----------------------------
(***************************************************************************)
(* The listing of the boot volume (tree, main.c:572-637).  tree recurses;  *)
(* here its activations are a stack.  Every call to the file protocol may  *)
(* fail; tree then prints an error and returns to its caller, which does   *)
(* not learn of it and goes on.                                            *)
(*                                                                         *)
(* A directory's entries are read one by one through a handle that keeps   *)
(* its position; "." and ".." are among them, except in the root.          *)
(***************************************************************************)
EXTENDS Naturals, Sequences, FiniteSets

CONSTANTS
    Root,
    Directories,
    Files,
    EntriesOf       \* directory -> what reading it returns, one by one

Dot    == "."
DotDot == ".."
Nodes  == Directories \cup Files

Children(d) == {EntriesOf[d][k] : k \in 1 .. Len(EntriesOf[d])} \cap Nodes

ASSUME NodesAssumption ==
    /\ Root \in Directories /\ Directories \cap Files = {}
    /\ Nodes \cap {Dot, DotDot, "error"} = {}
ASSUME VolumeAssumption ==      \* a tree, with every name once
    /\ EntriesOf \in [Directories -> Seq(Nodes \cup {Dot, DotDot})]
    /\ \A d \in Directories :
           /\ Root \notin Children(d)
           /\ \A j \in 1 .. Len(EntriesOf[d]) : \A i \in 1 .. j - 1 :
                  EntriesOf[d][j] = EntriesOf[d][i] => EntriesOf[d][j] \notin Nodes
    /\ \A n \in Nodes \ {Root} : \E d \in Directories \ {n} :
           n \in Children(d) /\ \A e \in Directories \ {d} : n \notin Children(e)

VARIABLES
    stack,      \* activations of tree; the last one runs
    open,       \* node -> handles of it that tree has opened
    listing,    \* lines printed: <<indent, node>>, or <<indent, "error">>
    failed      \* nodes whose activation an error has ended

treeVars == <<stack, open, listing, failed>>

Activation == [file : Nodes, pos : Nat, at : {"info", "read", "close"}]
Call(n)    == [file |-> n, pos |-> 0, at |-> "info"]

Top     == stack[Len(stack)]
Entry   == EntriesOf[Top.file][Top.pos + 1]     \* what Read returns next

IndentOfCallee == Len(stack)    \* plausible bug: off by one

Indent == Len(stack) - 1

Running(at) == stack # <<>> /\ Top.at = at
Callers == SubSeq(stack, 1, Len(stack) - 1)
ShowLine(indent, what) == listing' = Append(listing, <<indent, what>>)
----------------------------------------------------------------------------
TreeInit ==
    /\ stack = <<Call(Root)>>
    /\ open = [n \in Nodes |-> 0]
    /\ listing = <<>>
    /\ failed = {}

(* Lines 583-588, 601-608, 624-631: the error is indented like the entry   *)
(* it stands for, and the activation returns.                              *)
Stops(indent) ==
    /\ ShowLine(indent, "error")
    /\ stack' = Callers
    /\ failed' = failed \cup {Top.file}
    /\ UNCHANGED open

InfoFails == Running("info") /\ Stops(Indent)

ListFile ==
    /\ Running("info") /\ Top.file \in Files
    /\ ShowLine(Indent, Top.file)
    /\ stack' = Callers
    /\ UNCHANGED <<open, failed>>

ListDirectory ==
    /\ Running("info") /\ Top.file \in Directories
    /\ ShowLine(Indent, Top.file)
    /\ stack' = [stack EXCEPT ![Len(stack)].at = "read"]
    /\ UNCHANGED <<open, failed>>

AtEntry == Running("read") /\ Top.pos < Len(EntriesOf[Top.file])

ReadFails == Running("read") /\ Stops(Indent + 1)

EndOfDirectory ==
    /\ Running("read") /\ Top.pos = Len(EntriesOf[Top.file])
    /\ stack' = Callers
    /\ UNCHANGED <<open, listing, failed>>

IsDot(e) == e = Dot                 \* plausible bug: the parent is not skipped

IsDots(e) == e \in {Dot, DotDot}

SkipDotsStuck ==        \* plausible bug: the entry is not read past
    /\ AtEntry /\ IsDots(Entry)
    /\ UNCHANGED treeVars

SkipDots ==
    /\ AtEntry /\ IsDots(Entry)
    /\ stack' = [stack EXCEPT ![Len(stack)].pos = @ + 1]
    /\ UNCHANGED <<open, listing, failed>>

OpenFails == AtEntry /\ ~IsDots(Entry) /\ Stops(Indent + 1)

EnterLeaks ==           \* plausible bug: the entry is not closed
    /\ AtEntry /\ ~IsDots(Entry)
    /\ open' = [open EXCEPT ![Entry] = @ + 1]
    /\ stack' = Append([stack EXCEPT ![Len(stack)].at = "read", ![Len(stack)].pos = @ + 1],
                       Call(Entry))
    /\ UNCHANGED <<listing, failed>>

(* Lines 622-633.                                                          *)
Enter ==
    /\ AtEntry /\ ~IsDots(Entry)
    /\ open' = [open EXCEPT ![Entry] = @ + 1]
    /\ stack' = Append([stack EXCEPT ![Len(stack)].at = "close"], Call(Entry))
    /\ UNCHANGED <<listing, failed>>

(* Line 635, when the callee has returned, for whatever reason; then the   *)
(* next entry is read.                                                     *)
StopAfterError ==       \* plausible bug: an error below ends the caller too
    /\ Running("close")
    /\ open' = [open EXCEPT ![Entry] = @ - 1]
    /\ stack' = IF Entry \in failed THEN Callers
                ELSE [stack EXCEPT ![Len(stack)].at = "read", ![Len(stack)].pos = @ + 1]
    /\ UNCHANGED <<listing, failed>>

CloseEntry ==
    /\ Running("close")
    /\ open' = [open EXCEPT ![Entry] = @ - 1]
    /\ stack' = [stack EXCEPT ![Len(stack)].at = "read", ![Len(stack)].pos = @ + 1]
    /\ UNCHANGED <<listing, failed>>

Proceeds ==
    ListFile \/ ListDirectory \/ EndOfDirectory \/ SkipDots \/ Enter \/ CloseEntry

TreeNext == Proceeds \/ InfoFails \/ ReadFails \/ OpenFails

(* The walk goes on by itself; no call has to fail.                        *)
TreeSpec == TreeInit /\ [][TreeNext]_treeVars /\ WF_treeVars(Proceeds)
----------------------------------------------------------------------------
(* Properties *)

(* Every handle that tree opened is closed, whichever call fails           *)
(* (main.c:583-635): the open handles are always those of the activations  *)
(* on the stack, and of the one that has just returned; none is left when  *)
(* tree is done.                                                           *)
HandlesNest ==
    \A n \in Nodes :
        open[n] = Cardinality({k \in 1 .. Len(stack) : k > 1 /\ stack[k].file = n})
                  + IF Running("close") /\ Entry = n THEN 1 ELSE 0

Parent(n) == CHOOSE d \in Directories : n \in Children(d)

(* n is m or somewhere below it: every set with m that has, with a         *)
(* directory, what is in it has n.                                         *)
Below(m, n) ==
    m \in Nodes /\ \A S \in SUBSET Nodes :
        m \in S /\ (\A d \in S \cap Directories : Children(d) \subseteq S) => n \in S

Above(n) == {d \in Directories : d # n /\ Below(d, n)}

(* The order of the picture: a directory, then for one entry after the     *)
(* other all that is there.                                                *)
Before(m, n) ==
    \/ m \in Above(n)
    \/ \E d \in Directories : \E j \in 1 .. Len(EntriesOf[d]) : \E i \in 1 .. j - 1 :
           Below(EntriesOf[d][i], m) /\ Below(EntriesOf[d][j], n)

(* The picture of the volume is true (main.c:580-633): names come at their *)
(* depth, each at most once, a directory before what is in it and all of   *)
(* that before the next entry.                                             *)
ListingInOrder ==
    \A k \in 1 .. Len(listing) :
        LET name == listing[k][2]
        IN  name \in Nodes =>
                /\ listing[k][1] = Cardinality(Above(name))
                /\ \A j \in 1 .. k - 1 :
                       LET other == listing[j][2]
                       IN  other \in Nodes => Before(other, name) /\ ~Before(name, other)

(* An error hides no more than it must (main.c:583-635): when tree is done *)
(* a name is missing only if it could not be looked at, or its directory   *)
(* is missing or was cut short by an error of its own; the directories     *)
(* above and beside go on.                                                 *)
Listed(n) == \E k \in 1 .. Len(listing) : listing[k][2] = n
OnlyErrorsHide ==
    stack = <<>> =>
        \A n \in Nodes :
            \/ Listed(n) \/ n \in failed
            \/ n # Root /\ (~Listed(Parent(n)) \/ Parent(n) \in failed)

(* The walk ends (main.c:597-636), on every volume that is a tree.         *)
TreeEnds == <>(stack = <<>>)
=============================================================================
