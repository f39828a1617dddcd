----------------------------- MODULE StringSet -----------------------------
(***************************************************************************)
(* rq_set_rb, the set of rq_string_set: a search tree without parents,     *)
(* which turns nodes on the way down.  An addition is a step for each node *)
(* it passes.  Larger keys are on the left, and child[s] is the field of   *)
(* that side.  A node is told by its key, and a key by its place in the    *)
(* order of strings.                                                       *)
(***************************************************************************)
EXTENDS Integers, FiniteSets

CONSTANTS
    Word, NoWord,
    Strcmp   \* what strcmp answers for two words: C tells its sign, and not how much

ASSUME WordAssumption == Word \subseteq Int /\ NoWord \notin Word
ASSUME StrcmpAssumption ==
    \A n, k \in Word : /\ Strcmp[n, k] \in Int
                       /\ Strcmp[n, k] < 0 <=> n < k
                       /\ Strcmp[n, k] = 0 <=> n = k

VARIABLES
    words,   \* the tree: head, and the fields of the nodes
    walk,    \* the locals of rq_set_rb_add
    asked    \* history: the keys that were added

setVars == <<words, walk, asked>>

Turned(s) == IF s = "left" THEN "right" ELSE "left"
Toward(cmp) == IF cmp < 0 THEN "left" ELSE "right"
Way(n, k) == Toward(Strcmp[n, k])
NoWalk == [adding |-> NoWord, n |-> NoWord, p |-> NoWord, g |-> NoWord, gg |-> NoWord,
           pCmp |-> 0, gCmp |-> 0, ggCmp |-> 0]
NoTree == [head |-> NoWord, child |-> [s \in {"left", "right"} |-> [k \in Word |-> NoWord]],
           red |-> [k \in Word |-> FALSE]]

\* rq_set_rb_find: where the walk for a key ends.
SetFind(t, k) ==
    LET below == [n \in Word \cup {NoWord} |->
                     IF n \in {k, NoWord} THEN n ELSE t.child[Way(n, k)][n]]
        at[i \in 0..Cardinality(Word)] == IF i = 0 THEN t.head ELSE below[at[i-1]]
    IN at[Cardinality(Word)]

\* n has c for its child on side s.
Hung(t, s, n, c) == [t EXCEPT !.child[s][n] = c]
Coloured(t, n, red) == [t EXCEPT !.red[n] = red]

\* Slip: the child's child is not moved over.
TurnUnder_Drops(t, parent, u, n, s) ==
    LET c == t.child[s][n]
    IN Hung(Hung(Hung(t, s, n, NoWord), Turned(s), c, n), u, parent, c)

\* The child of n on side s comes up, n goes down on its other side, and what was
\* there moves over to n; the parent, if any, has the child on side u.
TurnUnder(t, parent, u, n, s) ==
    LET c == t.child[s][n]
    IN Hung(Hung(Hung(t, s, n, t.child[Turned(s)][c]), Turned(s), c, n), u, parent, c)

\* Whether the parent is turned: if it and the grandparent compared differently,
\* as they do where w.n is an inner grandchild, and may do where it is not.
TurnsParent(w) == w.gCmp # w.pCmp

\* A red node w.n has a red parent w.p: the parent may be turned first, and then
\* the grandparent is, unless that one is the head.
Repaired(t, w) ==
    IF w.g = NoWord THEN t
    ELSE LET reddened == Coloured(t, w.g, TRUE)
             outer == IF TurnsParent(w)
                      THEN TurnUnder(reddened, w.g, Toward(w.gCmp), w.p, Toward(w.pCmp))
                      ELSE reddened
         IN IF w.gg = NoWord THEN outer
            ELSE LET up == TurnUnder(outer, w.gg, Toward(w.ggCmp), w.g, Toward(w.gCmp))
                 IN Coloured(up, up.child[Toward(w.ggCmp)][w.gg], FALSE)

\* Where the walk goes on: p is the grandchild if that came up, and n is what took
\* the grandparent's place.
WalkOn(t, w) ==
    [w EXCEPT !.p = IF w.g # NoWord /\ TurnsParent(w) THEN w.n ELSE @,
              !.n = IF w.g # NoWord /\ w.gg # NoWord
                    THEN Repaired(t, w).child[Toward(w.ggCmp)][w.gg] ELSE @]
-----------------------------------------------------------------------------
SetInit == words = NoTree /\ walk = NoWalk /\ asked = {}

SetIdle == walk.adding = NoWord

\* The first key is a black head, for any other the walk starts there.
SetAdd(k) ==
    /\ SetIdle
    /\ IF words.head = NoWord
       THEN words' = [words EXCEPT !.head = k] /\ asked' = {k} /\ UNCHANGED walk
       ELSE walk' = [NoWalk EXCEPT !.adding = k, !.n = words.head] /\ UNCHANGED <<words, asked>>

\* The next node on the way, with the three above it.
Below(w) ==
    LET cmp == Strcmp[w.n, w.adding]
    IN [w EXCEPT !.gg = w.g, !.g = w.p, !.p = w.n, !.n = words.child[Toward(cmp)][w.n],
                 !.ggCmp = w.gCmp, !.gCmp = w.pCmp, !.pCmp = cmp]

\* A node with two red children: the colours flip, and a red parent is repaired.
Flipped(t, n) ==
    Coloured(Coloured(Coloured(t, n, TRUE), t.child["left"][n], FALSE), t.child["right"][n], FALSE)
TwoRed(n) == \A s \in {"left", "right"} :
                words.child[s][n] # NoWord /\ words.red[words.child[s][n]]

SetDescend ==
    LET w == Below(walk) IN
    /\ ~SetIdle /\ walk.n \notin {NoWord, walk.adding}
    /\ IF w.n # NoWord /\ TwoRed(w.n)
       THEN LET t == Flipped(words, w.n)
            IN IF words.red[w.p] THEN words' = Repaired(t, w) /\ walk' = WalkOn(t, w)
                                 ELSE words' = t /\ walk' = w
       ELSE UNCHANGED words /\ walk' = w
    /\ UNCHANGED asked

\* The key is there.
SetThere ==
    /\ ~SetIdle /\ walk.n = walk.adding
    /\ walk' = NoWalk /\ UNCHANGED <<words, asked>>

\* The way ends: a red leaf, and a red parent is repaired.
SetLink ==
    LET k == walk.adding
        t == Coloured(Hung(words, Toward(walk.pCmp), walk.p, k), k, TRUE)
    IN /\ ~SetIdle /\ walk.n = NoWord
       /\ words' = IF words.red[walk.p] THEN Repaired(t, [walk EXCEPT !.n = k]) ELSE t
       /\ asked' = asked \cup {k}
       /\ walk' = NoWalk

\* rq_set_rb_clear.
SetClear == SetIdle /\ words' = NoTree /\ asked' = {} /\ UNCHANGED walk

SetNext == \/ \E k \in Word : SetAdd(k)
           \/ SetDescend \/ SetThere \/ SetLink \/ SetClear
SetSpec == SetInit /\ [][SetNext]_setVars
-----------------------------------------------------------------------------
\* At every step of an addition a key is found if it was added: no turn that is
\* left half done, done from a remembered comparison, or done because two words of
\* one side compared differently, loses one.
SetKeeps == \A k \in Word : SetFind(words, k) = IF k \in asked THEN k ELSE NoWord
=============================================================================
