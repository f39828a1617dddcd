---------------------------- MODULE PagedArray ----------------------------
(***************************************************************************)
(* rq_vector and rq_array_partitioned: a list of blocks, each a table of   *)
(* pages that are allocated when they are written to.  The vector sets any *)
(* element, the partitioned array appends.                                 *)
(***************************************************************************)
EXTENDS Integers, Sequences

CONSTANTS
    PageSize,   \* bound: elements of a page (20 of an array)
    BlockSize,  \* bound: pages of a block (10 of an array)
    MaxOffset,  \* bound: elements beyond it are not set
    Value,      \* what the elements are set to, but for zero
    NoPage

ASSUME PageAssumption == {PageSize, BlockSize} \subseteq Nat \ {0} /\ MaxOffset \in Nat
ASSUME ValueAssumption == 0 \notin Value

Page == [0..PageSize-1 -> Value \cup {0}]
Block == [0..BlockSize-1 -> Page \cup {NoPage}]

ASSUME NoPageAssumption == NoPage \notin Page

VARIABLES
    vec,    \* the blocks and the size
    owns,   \* whether the array was given a free_func
    given,  \* history: what each element was set to last
    back    \* history: an element was set that is not of the last block

pagedVars == <<vec, owns, given, back>>

PerBlock == PageSize * BlockSize
BlankPage == [i \in 0..PageSize-1 |-> 0]
BlankBlock == [p \in 0..BlockSize-1 |-> NoPage]
Larger(a, b) == IF a > b THEN a ELSE b

\* Slip: the new block is not made the tail.
Write_OldTail(blocks, o, x) ==
    LET n == Larger(Len(blocks), o \div PerBlock + 1)
        grown == [b \in 1..n |-> IF b \in DOMAIN blocks THEN blocks[b] ELSE BlankBlock]
        p == (o % PerBlock) \div PageSize
        page == IF blocks[Len(blocks)][p] = NoPage THEN BlankPage ELSE blocks[Len(blocks)][p]
    IN [grown EXCEPT ![Len(blocks)][p] = [page EXCEPT ![o % PageSize] = x]]

\* The blocks once x is written to element o: as many as o needs; but it is the
\* last one that is written to.
Write(blocks, o, x) ==
    LET n == Larger(Len(blocks), o \div PerBlock + 1)
        grown == [b \in 1..n |-> IF b \in DOMAIN blocks THEN blocks[b] ELSE BlankBlock]
        p == (o % PerBlock) \div PageSize
        page == IF grown[n][p] = NoPage THEN BlankPage ELSE grown[n][p]
    IN [grown EXCEPT ![n][p] = [page EXCEPT ![o % PageSize] = x]]

\* The page an element is read from, in its own block.
PageOf(blocks, o) == blocks[o \div PerBlock + 1][(o % PerBlock) \div PageSize]

\* rq_vector_get and rq_array_partitioned_get_at; there must be a page.
ElementAt(v, o) == IF o >= v.size THEN 0 ELSE PageOf(v.blocks, o)[o % PageSize]

IsBack(o) == o \div PerBlock + 1 < Len(vec.blocks)
Told(o, x) == given' = [given EXCEPT ![o] = x] /\ back' = (back \/ IsBack(o))
-----------------------------------------------------------------------------
\* rq_vector_alloc and rq_array_partitioned_alloc: a block with a page.
PagedInit ==
    /\ vec = [blocks |-> <<[BlankBlock EXCEPT ![0] = BlankPage]>>, size |-> 0]
    /\ owns \in BOOLEAN
    /\ given = [o \in 0..MaxOffset |-> 0]
    /\ back = FALSE

\* rq_vector_set.
VectorSet(o, x) ==
    /\ vec' = [blocks |-> Write(vec.blocks, o, x), size |-> Larger(vec.size, o + 1)]
    /\ Told(o, x) /\ UNCHANGED owns

\* rq_array_partitioned_push_back.
PartitionedPush(x) ==
    /\ vec.size <= MaxOffset
    /\ vec' = [blocks |-> Write(vec.blocks, vec.size, x), size |-> vec.size + 1]
    /\ Told(vec.size, x) /\ UNCHANGED owns

\* Every page blank, and none of the blocks freed.
Wiped(blocks) ==
    [b \in DOMAIN blocks |-> [p \in 0..BlockSize-1 |->
        IF blocks[b][p] = NoPage THEN NoPage ELSE BlankPage]]

\* rq_vector_clear.
VectorClear ==
    /\ vec' = [blocks |-> Wiped(vec.blocks), size |-> 0]
    /\ given' = [o \in 0..MaxOffset |-> 0]
    /\ UNCHANGED <<owns, back>>

\* rq_array_partitioned_clear: what the array does not own stays on its pages.
PartitionedClear ==
    /\ vec' = [blocks |-> IF owns THEN Wiped(vec.blocks) ELSE vec.blocks, size |-> 0]
    /\ given' = [o \in 0..MaxOffset |-> 0]
    /\ UNCHANGED <<owns, back>>

VectorNext == VectorClear \/ \E o \in 0..MaxOffset, x \in Value : VectorSet(o, x)
PartitionedNext == PartitionedClear \/ \E x \in Value : PartitionedPush(x)

VectorSpec == PagedInit /\ [][VectorNext]_pagedVars
PartitionedSpec == PagedInit /\ [][PartitionedNext]_pagedVars
-----------------------------------------------------------------------------
\* As long as only elements of the last block are set, every element that has a
\* page is read as it was set last, in whatever block it is, before and after the
\* array was cleared; an element without a page was never set.
ElementsKept ==
    ~back => \A o \in 0..vec.size-1 :
                IF PageOf(vec.blocks, o) = NoPage THEN given[o] = 0
                ELSE ElementAt(vec, o) = given[o]
=============================================================================
