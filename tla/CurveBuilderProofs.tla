------------------------- MODULE CurveBuilderProofs -------------------------
(***************************************************************************)
(* What holds of the bootstrap engine, and of pricing trades over it, for  *)
(* every set of curves, every configuration, every mapping and trade, and  *)
(* every client: the proofs.                                               *)
(***************************************************************************)
EXTENDS TradePricing, Induction, SequenceTheorems, FiniteSetTheorems, TLAPS

USE DEF Enters, InLoop, LoopDone, HasAdapter, Unchanged

-----------------------------------------------------------------------------
\* Sequences: what Pop, EnterLoop and DepBuilt do to the stack.

\* Popping keeps the activations below (the return of the recursive call).
LEMMA PopSeq ==
    ASSUME NEW S, NEW s \in Seq(S), s # <<>>
    PROVE  LET t == SubSeq(s, 1, Len(s) - 1) IN
           /\ t \in Seq(S) /\ Len(t) = Len(s) - 1
           /\ \A i \in 1..Len(t) : t[i] = s[i]
<1> DEFINE n == Len(s) - 1
           t == SubSeq(s, 1, n)
<1>1. n \in Nat /\ n + 1 = Len(s)
    OBVIOUS
<1>2. \A i \in 1..n : s[i] \in S
    BY <1>1
<1> HIDE DEF n, t
<1>3. /\ t \in Seq(S)
      /\ Len(t) = IF 1 <= n THEN n - 1 + 1 ELSE 0
      /\ \A i \in 1..(n - 1 + 1) : t[i] = s[1 + i - 1]
    BY <1>1, <1>2, SubSeqProperties DEF t
<1>4. Len(t) = n /\ \A i \in 1..n : t[i] = s[i]
    BY <1>1, <1>3
<1>5. QED
    BY <1>3, <1>4 DEF t, n

\* Changing the activation on top keeps those below (the loop advances).
LEMMA ReplaceTop ==
    ASSUME NEW S, NEW s \in Seq(S), s # <<>>, NEW x \in S
    PROVE  LET t == [s EXCEPT ![Len(s)] = x] IN
           /\ t \in Seq(S) /\ Len(t) = Len(s)
           /\ t[Len(s)] = x
           /\ \A i \in 1..(Len(s) - 1) : t[i] = s[i]
<1> DEFINE n == Len(s)
           t == [s EXCEPT ![n] = x]
<1>1. n \in Nat \ {0} /\ DOMAIN s = 1..n /\ n \in 1..n
    OBVIOUS
<1>2. \A i \in 1..n : s[i] \in S
    OBVIOUS
<1>3. DOMAIN t = 1..n /\ \A i \in 1..n : t[i] = IF i = n THEN x ELSE s[i]
    BY <1>1
<1>4. t \in [1..n -> S]
    BY <1>1, <1>2
<1> HIDE DEF n, t
<1>5. t \in Seq(S)
    BY <1>1, <1>4
<1>6. Len(t) = n
    BY <1>1, <1>3, <1>5
<1>7. t[n] = x /\ \A i \in 1..(n - 1) : t[i] = s[i]
    BY <1>1, <1>3
<1>8. QED
    BY <1>5, <1>6, <1>7 DEF t, n

\* The activation on top is one of the stack.
LEMMA TopInStack ==
    ASSUME TypeOK, stack # <<>>
    PROVE  /\ Len(stack) \in Nat \ {0} /\ Len(stack) \in 1..Len(stack)
           /\ Len(stack) \in DOMAIN stack /\ DOMAIN stack = 1..Len(stack)
           /\ top \in Frame /\ top.key \in Key
           /\ Cfg(top.key) # None /\ AdapterOf(top.key) \in Adapter
<1>1. stack \in Seq(Frame)
    BY DEF TypeOK
<1>2. Len(stack) \in Nat \ {0} /\ DOMAIN stack = 1..Len(stack)
    BY <1>1
<1>3. top \in Frame
    BY <1>1, <1>2 DEF top
<1>4. QED
    BY <1>2, <1>3 DEF TypeOK, Frame, top
-----------------------------------------------------------------------------
\* Types.

\* An adapter declares a list of curves.
LEMMA DepListType ==
    ASSUME TypeOK, NEW k \in Key, Cfg(k) # None
    PROVE  DepList(k) \in Seq(Key)
<1>1. Cfg(k) \in Config
    BY DEF TypeOK, Cfg
<1>2. CASE DepFn(k) # "own" \/ ListFails(k) \/ Cfg(k).id1 = None
    BY <1>2 DEF DepList
<1>3. CASE DepFn(k) = "own" /\ ~ListFails(k) /\ Cfg(k).id1 # None
    <2>1. Cfg(k).id1 \in Id
        BY <1>1, <1>3 DEF Config
    <2>2. Yield(Cfg(k).id1) \in Key /\ Forward(Cfg(k).id1) \in Key /\ Cds(Cfg(k).id1) \in Key
        BY <2>1 DEF Key, Types, Yield, Forward, Cds
    <2>3. CASE Cfg(k).method = "composite"
        <3>1. Cfg(k).id2 \in Id
            BY <1>1, <1>3, <2>3 DEF Config, ListFails
        <3>2. Yield(Cfg(k).id2) \in Key
            BY <3>1 DEF Key, Types, Yield
        <3>3. DepList(k) = <<Yield(Cfg(k).id1), Yield(Cfg(k).id2)>>
            BY <1>3, <2>3 DEF DepList
        <3>4. QED
            BY <3>2, <3>3, <2>2
    <2>4. CASE Cfg(k).method = "bbi"
        BY <1>3, <2>2, <2>4 DEF DepList
    <2>5. CASE Cfg(k).method # "composite" /\ Cfg(k).method # "bbi"
        <3>1. DepList(k) = IF Cfg(Cds(Cfg(k).id1)) # None THEN <<Cds(Cfg(k).id1)>>
                                                          ELSE <<Yield(Cfg(k).id1)>>
            BY <1>3, <2>5 DEF DepList
        <3>2. QED
            BY <3>1, <2>2
    <2>6. QED
        BY <2>3, <2>4, <2>5
<1>4. QED
    BY <1>2, <1>3

\* A bootstrap function makes a curve.
LEMMA NewCurveType ==
    ASSUME TypeOK, NEW k \in Key, Cfg(k) # None, Bootstraps(k)
    PROVE  NewCurve(k) \in Curve /\ Published(k) \subseteq SUBSET Asset
<1>1. Cfg(k) \in Config
    BY DEF TypeOK, Cfg
<1>2. Pointers(k) \in SUBSET (Key \X Nat)
    <2>1. CASE Cfg(k).method # "composite"
        BY <2>1 DEF Pointers
    <2>2. CASE Cfg(k).method = "composite"
        <3>1. HasBoth(k)
            BY <2>2 DEF Bootstraps
        <3>2. Cfg(k).id1 \in Id /\ Cfg(k).id2 \in Id
            BY <1>1, <3>1 DEF Config, HasBoth
        <3>3. \A d \in {Yield(Cfg(k).id1), Yield(Cfg(k).id2)} : d \in Key /\ market[d] \in Curve
            BY <3>1, <3>2 DEF HasBoth, InMarket, TypeOK, Key, Types, Yield
        <3>4. \A d \in {Yield(Cfg(k).id1), Yield(Cfg(k).id2)} : <<d, market[d].gen>> \in Key \X Nat
            BY <3>3 DEF Curve
        <3>5. QED
            BY <2>2, <3>4 DEF Pointers
    <2>3. QED
        BY <2>1, <2>2
<1>3. NewCurve(k) \in Curve
    BY <1>1, <1>2 DEF NewCurve, Curve, Config, TypeOK
<1>4. Published(k) \subseteq SUBSET Asset
    BY <1>1, AssetAssumption DEF Published, TypeOK, Config
<1>5. QED
    BY <1>3, <1>4
-----------------------------------------------------------------------------
\* The inductive invariant.

Inv == TypeOK /\ StackInv

\* While the engine runs, neither the configurations nor the adapters change,
\* and so neither do the dependency lists.
LEMMA SameLists ==
    ASSUME UNCHANGED <<config, depFn>>, NEW k
    PROVE  /\ Cfg(k)' = Cfg(k) /\ AdapterOf(k)' = AdapterOf(k)
           /\ DepList(k)' = DepList(k) /\ ListFails(k)' = ListFails(k)
<1>1. \A d : Cfg(d)' = Cfg(d)
    BY DEF Cfg
<1>2. AdapterOf(k)' = AdapterOf(k) /\ DepFn(k)' = DepFn(k)
    BY <1>1 DEF AdapterOf, DepFn
<1>3. ListFails(k)' = ListFails(k)
    BY <1>1, <1>2 DEF ListFails
<1>4. DepList(k)' = DepList(k)
    BY <1>1, <1>2, <1>3 DEF DepList
<1>5. QED
    BY <1>1, <1>2, <1>3, <1>4

\* An activation is left as it is by a step that only adds to the market, and
\* not its curve.
LEMMA SameFrame ==
    ASSUME UNCHANGED <<config, depFn>>, NEW f \in Frame, FrameOK(f),
           \A d \in Key : InMarket(d) => InMarket(d)', ~InMarket(f.key)'
    PROVE  /\ f.deps = DepList(f.key)' /\ f.iter <= Len(f.deps) + 1
           /\ \A j \in 1..(f.iter - 1) : InMarket(f.deps[j])'
<1>1. DepList(f.key)' = DepList(f.key)
    BY SameLists
<1>2. f.deps \in Seq(Key) /\ f.iter \in Nat \ {0}
    BY DEF Frame
<1>3. f.deps = DepList(f.key) /\ f.iter <= Len(f.deps) + 1
    BY DEF FrameOK
<1>4. \A j \in 1..(f.iter - 1) : InMarket(f.deps[j])
    BY DEF FrameOK
<1>5. \A j \in 1..(f.iter - 1) : f.deps[j] \in Key
    BY <1>2, <1>3
<1>6. QED
    BY <1>1, <1>3, <1>4, <1>5

\* Nothing is called or served yet.
LEMMA InitInv == Init => Inv
<1> SUFFICES ASSUME Init PROVE Inv
    OBVIOUS
<1>1. TypeOK
    BY DEF Init, TypeOK, Quotes, Halts, Frame
<1>2. StackInv
    BY DEF Init, StackInv
<1>3. QED
    BY <1>1, <1>2 DEF Inv

\* The client acts only when the stack is empty.
LEMMA ClientInv == ASSUME Inv, Application PROVE Inv'
<1> USE DEF Idle, engine, client
<1>1. TypeOK
    BY DEF Inv
<1>2. ASSUME NEW o \in Offers, AddConfig(o[1], o[2])
      PROVE  TypeOK'
    <2>1. o[1] \in Key /\ o[2] \in Config
        BY OffersAssumption
    <2>2. config' \in [Key -> Config \cup {None}]
        BY <1>1, <1>2, <2>1 DEF AddConfig, TypeOK
    <2>3. stack' = <<>> /\ pc' = "idle"
        BY <1>1, <1>2 DEF AddConfig, TypeOK
    <2>4. QED
        BY <1>1, <1>2, <2>2, <2>3 DEF AddConfig, TypeOK
<1>3. ASSUME NEW r \in Rates, AddRates(r[1], r[2])
      PROVE  TypeOK'
    <2>1. quote' \in [Key -> Quotes]
        BY <1>1, <1>3, RatesAssumption DEF AddRates, TypeOK
    <2>2. stack' = <<>> /\ pc' = "idle"
        BY <1>1, <1>3 DEF AddRates, TypeOK
    <2>3. QED
        BY <1>1, <1>3, <2>1, <2>2 DEF AddRates, TypeOK
<1>4. ASSUME NEW k \in Key, NEW a \in Asset \cup {None}, AddCurve(k, a)
      PROVE  TypeOK'
    <2>1. gen + 1 \in Nat \ {0} /\ {} \in SUBSET (Key \X Nat)
        BY <1>1 DEF TypeOK
    <2>2. [gen |-> gen + 1, asset |-> a, composite |-> FALSE, refs |-> {}] \in Curve
        BY <2>1 DEF Curve
    <2>3. market' \in [Key -> Curve \cup {None}] /\ gen' \in Nat
        BY <1>1, <1>4, <2>1, <2>2 DEF AddCurve, TypeOK
    <2>4. stack' = <<>> /\ pc' = "idle"
        BY <1>1, <1>4 DEF AddCurve, TypeOK
    <2>5. QED
        BY <1>1, <1>4, <2>3, <2>4 DEF AddCurve, TypeOK, Cfg, AdapterOf
<1>5. ASSUME ClearMarket PROVE TypeOK'
    <2>1. quote' \in [Key -> Quotes] /\ spot' \subseteq Asset
        BY <1>1, <1>5 DEF ClearMarket, Quotes
    <2>2. market' \in [Key -> Curve \cup {None}]
        BY <1>1, <1>5 DEF ClearMarket, TypeOK
    <2>3. stack' = <<>> /\ pc' = "idle"
        BY <1>1, <1>5 DEF ClearMarket, TypeOK
    <2>4. QED
        BY <1>1, <1>5, <2>1, <2>2, <2>3 DEF ClearMarket, TypeOK, Cfg, AdapterOf
<1>6. ASSUME CloneMarket PROVE TypeOK'
    <2>1. ASSUME NEW k \in Key, InMarket(k) PROVE Copy(market[k]) \in Curve
        <3>1. market[k] \in Curve /\ gen + 1 \in Nat \ {0}
            BY <1>1, <2>1 DEF InMarket, TypeOK
        <3>2. QED
            BY <3>1 DEF Curve, Copy
    <2>2. market' \in [Key -> Curve \cup {None}] /\ gen' \in Nat
        BY <1>1, <1>6, <2>1 DEF CloneMarket, TypeOK
    <2>3. stack' = <<>> /\ pc' = "idle"
        BY <1>1, <1>6 DEF CloneMarket, TypeOK
    <2>4. QED
        BY <1>1, <1>6, <2>2, <2>3 DEF CloneMarket, TypeOK, Cfg, AdapterOf
<1>7. ASSUME CloneAdapters PROVE TypeOK'
    <2>1. depFn' \in [Adapter -> {"own", "null", "wild"}]
        BY <1>7 DEF CloneAdapters
    <2>2. stack' = <<>> /\ pc' = "idle"
        BY <1>1, <1>7 DEF CloneAdapters, TypeOK
    <2>3. QED
        BY <1>1, <1>7, <2>1, <2>2 DEF CloneAdapters, TypeOK, Cfg, AdapterOf
<1>8. ASSUME NEW k \in Key, Request(k) PROVE TypeOK'
    <2>1. stack' = <<>> /\ pc' = "call" /\ arg' = k /\ val' = 0 /\ Cfg(k)' # None
        BY <1>1, <1>8 DEF Request, TypeOK, Cfg
    <2>2. QED
        BY <1>1, <1>8, <2>1 DEF Request, TypeOK, Cfg, AdapterOf
<1>9. TypeOK'
    BY <1>2, <1>3, <1>4, <1>5, <1>6, <1>7, <1>8 DEF Application
<1>10. stack' = <<>> /\ pc' \in {"idle", "call"}
    BY <1>1 DEF Application, AddConfig, AddRates, AddCurve, ClearMarket, CloneMarket,
           CloneAdapters, Request, TypeOK
<1>11. StackInv'
    BY <1>10 DEF StackInv
<1>12. QED
    BY <1>9, <1>11 DEF Inv
-----------------------------------------------------------------------------
\* The engine's steps.

\* Steps that leave the stack and the market alone.
LEMMA StayInv ==
    ASSUME Inv, Unchanged, UNCHANGED stack,
           \/ arg' = arg /\ val' = val /\ pc' \in Halts
           \/ /\ arg' = arg /\ pc = "call" /\ pc' = "ret"
              /\ val' \in Nat /\ (val' # 0 => InMarket(arg))
           \/ /\ InLoop /\ val' = val /\ pc' = "call"
              /\ arg' = top.deps[top.iter] /\ Cfg(arg)' # None
    PROVE  Inv'
<1> USE DEF client
<1>1. TypeOK /\ StackInv
    BY DEF Inv
<1>2. /\ \A k : Cfg(k)' = Cfg(k) /\ AdapterOf(k)' = AdapterOf(k)
      /\ \A k : DepList(k)' = DepList(k) /\ InMarket(k)' = InMarket(k)
    BY SameLists DEF InMarket
<1>3. InLoop => top.deps[top.iter] \in Key /\ stack # <<>>
    <2>1. SUFFICES ASSUME InLoop PROVE top.deps[top.iter] \in Key /\ stack # <<>>
        OBVIOUS
    <2>2. stack # <<>>
        BY <1>1, <2>1 DEF TypeOK
    <2>3. top \in Frame
        BY <1>1, <2>2, TopInStack
    <2>4. QED
        BY <2>1, <2>2, <2>3 DEF Frame
<1>4. TypeOK'
    <2>1. /\ config' \in [Key -> Config \cup {None}]
          /\ quote' \in [Key -> Quotes]
          /\ depFn' \in [Adapter -> {"own", "null", "wild"}]
          /\ market' \in [Key -> Curve \cup {None}]
          /\ spot' \subseteq Asset /\ gen' \in Nat /\ last' \in Key \cup {None}
          /\ stack' \in Seq(Frame)
        BY <1>1 DEF TypeOK
    <2>2. /\ pc' \in {"call", "ret"} \cup Halts
          /\ val' \in Nat /\ arg' \in Key \cup {None}
          /\ pc' \in {"call", "ret"} => arg' \in Key
          /\ pc' = "call" => Cfg(arg)' # None
        BY <1>1, <1>2, <1>3 DEF TypeOK, Halts
    <2>3. \A i \in DOMAIN stack' : /\ Cfg(stack[i].key)' # None
                                   /\ AdapterOf(stack[i].key)' \in Adapter
        BY <1>1, <1>2 DEF TypeOK
    <2>4. QED
        BY <2>1, <2>2, <2>3 DEF TypeOK, Halts
<1>5. \A f : FrameOK(f)' = FrameOK(f)
    BY <1>2 DEF FrameOK
<1>6. StackInv'
    BY <1>1, <1>2, <1>3, <1>5 DEF StackInv, Awaits, top, Halts
<1>7. QED
    BY <1>4, <1>6 DEF Inv

\* The activation on top returns NULL.
LEMMA PopInv ==
    ASSUME Inv, stack # <<>>, Pop(0), Unchanged
    PROVE  Inv'
<1> USE DEF client
<1>1. TypeOK /\ StackInv
    BY DEF Inv
<1>2. /\ \A k : Cfg(k)' = Cfg(k) /\ AdapterOf(k)' = AdapterOf(k)
      /\ \A k : DepList(k)' = DepList(k) /\ InMarket(k)' = InMarket(k)
    BY SameLists DEF InMarket
<1>3. \A f : FrameOK(f)' = FrameOK(f)
    BY <1>2 DEF FrameOK
<1>4. /\ top.key \in Key /\ Cfg(top.key) # None
      /\ Len(stack) \in Nat \ {0} /\ DOMAIN stack = 1..Len(stack)
    BY <1>1, TopInStack
<1>5. /\ stack' \in Seq(Frame) /\ Len(stack') = Len(stack) - 1
      /\ \A i \in 1..Len(stack') : stack'[i] = stack[i]
    BY <1>1, PopSeq DEF TypeOK, Pop
<1>6. DOMAIN stack' = 1..Len(stack')
    BY <1>5
<1>7. pc' = "ret" /\ arg' = top.key /\ val' = 0
    BY DEF Pop
<1>8. TypeOK'
    BY <1>1, <1>2, <1>4, <1>5, <1>6, <1>7 DEF TypeOK
<1>9. ASSUME NEW i \in 1..Len(stack') PROVE FrameOK(stack[i])'
    <2>1. i \in 1..Len(stack) /\ stack'[i] = stack[i]
        BY <1>4, <1>5, <1>9
    <2>2. FrameOK(stack[i])
        BY <1>1, <2>1 DEF StackInv
    <2>3. QED
        BY <1>2, <2>1, <2>2 DEF FrameOK
<1>10. ASSUME NEW i \in 1..(Len(stack') - 1) PROVE Awaits(stack[i], stack[i+1].key)'
    <2>1. /\ i \in 1..(Len(stack) - 1)
          /\ stack'[i] = stack[i] /\ stack'[i+1] = stack[i+1]
        BY <1>4, <1>5, <1>10
    <2>2. Awaits(stack[i], stack[i+1].key)
        BY <1>1, <2>1 DEF StackInv
    <2>3. QED
        BY <2>1, <2>2 DEF Awaits
<1>11. stack' # <<>> => Awaits(top, arg)'
    <2>1. SUFFICES ASSUME stack' # <<>> PROVE Awaits(top, arg)'
        OBVIOUS
    <2>2. /\ Len(stack') \in 1..(Len(stack) - 1) /\ Len(stack') + 1 = Len(stack)
          /\ stack'[Len(stack')] = stack[Len(stack')]
        BY <1>4, <1>5, <2>1
    <2>3. Awaits(stack[Len(stack')], stack[Len(stack') + 1].key)
        BY <1>1, <2>2 DEF StackInv
    <2>4. QED
        BY <1>7, <2>2, <2>3 DEF Awaits, top
<1>12. StackInv'
    BY <1>7, <1>9, <1>10, <1>11 DEF StackInv
<1>13. QED
    BY <1>8, <1>12 DEF Inv

\* An activation starts its loop: none of its dependencies is behind it.
LEMMA EnterLoopInv == ASSUME Inv, EnterLoop PROVE Inv'
<1> USE DEF client
<1>1. TypeOK /\ StackInv
    BY DEF Inv
<1>2. /\ \A k : Cfg(k)' = Cfg(k) /\ AdapterOf(k)' = AdapterOf(k)
      /\ \A k : DepList(k)' = DepList(k) /\ InMarket(k)' = InMarket(k)
    BY SameLists DEF EnterLoop, InMarket
<1>3. /\ pc = "call" /\ arg \in Key /\ Cfg(arg) # None /\ ~InMarket(arg)
      /\ AdapterOf(arg) \in Adapter
      /\ pc' = "loop" /\ arg' = arg /\ val' = val
    BY <1>1 DEF EnterLoop, TypeOK
<1>4. DepList(arg) \in Seq(Key)
    BY <1>1, <1>3, DepListType
<1>5. PICK f : f \in Frame /\ f = [key |-> arg, deps |-> DepList(arg), iter |-> 1]
    <2>1. [key |-> arg, deps |-> DepList(arg), iter |-> 1] \in Frame
        BY <1>3, <1>4 DEF Frame
    <2>2. QED
        BY <2>1
<1>6. stack \in Seq(Frame) /\ stack' = Append(stack, f)
    BY <1>1, <1>5 DEF EnterLoop, TypeOK
<1>7. f.key = arg /\ f.deps = DepList(arg) /\ f.iter = 1
    BY <1>5
<1>8. FrameOK(f)
    <2>1. Len(f.deps) \in Nat
        BY <1>4, <1>7
    <2>2. QED
        BY <1>3, <1>7, <2>1 DEF FrameOK
<1>9. /\ stack' \in Seq(Frame) /\ Len(stack') = Len(stack) + 1 /\ Len(stack) \in Nat
      /\ \A i \in 1..Len(stack) : stack'[i] = stack[i]
      /\ stack'[Len(stack')] = f
      /\ DOMAIN stack' = 1..Len(stack') /\ DOMAIN stack = 1..Len(stack)
    BY <1>5, <1>6
<1>10. TypeOK'
    <2>1. \A i \in DOMAIN stack' : /\ Cfg(stack'[i].key) # None
                                   /\ AdapterOf(stack'[i].key) \in Adapter
        BY <1>1, <1>3, <1>7, <1>9 DEF TypeOK
    <2>2. \A i \in DOMAIN stack' : /\ Cfg(stack[i].key)' # None
                                   /\ AdapterOf(stack[i].key)' \in Adapter
        BY <1>2, <2>1
    <2>3. stack' # <<>>
        BY <1>9
    <2>4. /\ config' \in [Key -> Config \cup {None}]
          /\ quote' \in [Key -> Quotes]
          /\ depFn' \in [Adapter -> {"own", "null", "wild"}]
          /\ market' \in [Key -> Curve \cup {None}]
          /\ spot' \subseteq Asset /\ gen' \in Nat /\ last' \in Key \cup {None}
          /\ val' \in Nat
        BY <1>1, <1>3 DEF TypeOK, EnterLoop
    <2>5. QED
        BY <1>3, <1>9, <2>2, <2>3, <2>4 DEF TypeOK
<1>11. ASSUME NEW i \in 1..Len(stack') PROVE FrameOK(stack[i])'
    <2>1. CASE i = Len(stack')
        BY <1>2, <1>8, <1>9, <2>1 DEF FrameOK
    <2>2. CASE i \in 1..Len(stack)
        <3>1. FrameOK(stack[i]) /\ stack'[i] = stack[i]
            BY <1>1, <1>9, <2>2 DEF StackInv
        <3>2. QED
            BY <1>2, <3>1 DEF FrameOK
    <2>3. QED
        BY <1>9, <2>1, <2>2
<1>12. ASSUME NEW i \in 1..(Len(stack') - 1) PROVE Awaits(stack[i], stack[i+1].key)'
    <2>1. CASE i = Len(stack)
        <3>1. stack # <<>> /\ stack'[i] = stack[i] /\ stack'[i+1] = f
            BY <1>9, <2>1
        <3>2. Awaits(stack[i], arg)
            BY <1>1, <1>3, <2>1, <3>1 DEF StackInv, top
        <3>3. QED
            BY <1>7, <3>1, <3>2 DEF Awaits
    <2>2. CASE i \in 1..(Len(stack) - 1)
        <3>1. stack'[i] = stack[i] /\ stack'[i+1] = stack[i+1]
            BY <1>9, <2>2
        <3>2. Awaits(stack[i], stack[i+1].key)
            BY <1>1, <2>2 DEF StackInv
        <3>3. QED
            BY <3>1, <3>2 DEF Awaits
    <2>3. i = Len(stack) \/ i \in 1..(Len(stack) - 1)
        <3>1. Len(stack') = Len(stack) + 1 /\ Len(stack) \in Nat
            BY <1>9
        <3>2. QED
            BY <1>12, <3>1
    <2>4. QED
        BY <2>1, <2>2, <2>3
<1>13. StackInv'
    BY <1>3, <1>11, <1>12 DEF StackInv
<1>14. QED
    BY <1>10, <1>13 DEF Inv

\* A dependency was built: the activation on top moves past it.
LEMMA DepBuiltInv == ASSUME Inv, DepBuilt PROVE Inv'
<1> USE DEF client
<1> DEFINE n == Len(stack)
<1>1. TypeOK /\ StackInv
    BY DEF Inv
<1>2. /\ \A k : Cfg(k)' = Cfg(k) /\ AdapterOf(k)' = AdapterOf(k)
      /\ \A k : DepList(k)' = DepList(k) /\ InMarket(k)' = InMarket(k)
    BY SameLists DEF DepBuilt, InMarket
<1>3. /\ stack # <<>> /\ pc = "ret" /\ val # 0 /\ InMarket(arg) /\ Awaits(top, arg)
      /\ pc' = "loop" /\ arg' = arg /\ val' = val
    BY <1>1 DEF DepBuilt, StackInv
<1>4. /\ n \in Nat \ {0} /\ n \in 1..n /\ DOMAIN stack = 1..n
      /\ top \in Frame /\ Cfg(top.key) # None /\ AdapterOf(top.key) \in Adapter
    BY <1>1, <1>3, TopInStack
<1>5. PICK f : /\ f \in Frame /\ f = [top EXCEPT !.iter = @ + 1]
               /\ f.key = top.key /\ f.deps = top.deps /\ f.iter = top.iter + 1
    <2> DEFINE g == [top EXCEPT !.iter = @ + 1]
    <2>1. g \in Frame /\ g.key = top.key /\ g.deps = top.deps /\ g.iter = top.iter + 1
        BY <1>4 DEF Frame
    <2>2. QED
        BY <2>1
<1>6. stack \in Seq(Frame) /\ stack' = [stack EXCEPT ![n] = f]
    BY <1>1, <1>5 DEF DepBuilt, TypeOK, top
<1>7. FrameOK(f)
    <2>1. FrameOK(top)
        BY <1>1, <1>4 DEF StackInv, top
    <2>2. top.iter \in Nat \ {0} /\ Len(top.deps) \in Nat
        BY <1>4 DEF Frame
    <2>3. top.iter <= Len(top.deps) /\ InMarket(top.deps[top.iter])
        BY <1>3 DEF Awaits
    <2>4. \A j \in 1..(f.iter - 1) : InMarket(f.deps[j])
        <3>1. \A j \in 1..(f.iter - 1) : j \in 1..(top.iter - 1) \/ j = top.iter
            BY <1>5, <2>2
        <3>2. QED
            BY <1>5, <2>1, <2>3, <3>1 DEF FrameOK
    <2>5. QED
        BY <1>5, <2>1, <2>2, <2>3, <2>4 DEF FrameOK
<1>8. /\ stack' \in Seq(Frame) /\ Len(stack') = n /\ DOMAIN stack' = 1..n
      /\ stack'[n] = f /\ stack' # <<>>
      /\ \A i \in 1..(n - 1) : stack'[i] = stack[i]
    <2>1. /\ stack' \in Seq(Frame) /\ Len(stack') = n /\ stack'[n] = f
          /\ \A i \in 1..(n - 1) : stack'[i] = stack[i]
        BY <1>3, <1>5, <1>6, ReplaceTop
    <2>2. DOMAIN stack' = 1..n /\ stack' # <<>>
        BY <1>4, <2>1
    <2>3. QED
        BY <2>1, <2>2
<1> HIDE DEF n
<1>9. \A i \in 1..n : i \in 1..(n - 1) \/ i = n
    BY <1>4
<1>10. \A i \in 1..(n - 1) : i \in 1..n /\ i + 1 \in 1..n
    BY <1>4
<1>11. \A i \in 1..n : stack'[i].key = stack[i].key
    BY <1>5, <1>8, <1>9 DEF top, n
<1>12. TypeOK'
    <2>1. \A i \in DOMAIN stack' : /\ Cfg(stack[i].key)' # None
                                   /\ AdapterOf(stack[i].key)' \in Adapter
        BY <1>1, <1>2, <1>4, <1>8, <1>11 DEF TypeOK
    <2>2. /\ config' \in [Key -> Config \cup {None}]
          /\ quote' \in [Key -> Quotes]
          /\ depFn' \in [Adapter -> {"own", "null", "wild"}]
          /\ market' \in [Key -> Curve \cup {None}]
          /\ spot' \subseteq Asset /\ gen' \in Nat /\ last' \in Key \cup {None}
          /\ val' \in Nat /\ arg' \in Key \cup {None}
        BY <1>1, <1>3 DEF TypeOK, DepBuilt
    <2>3. QED
        BY <1>3, <1>8, <2>1, <2>2 DEF TypeOK
<1>13. ASSUME NEW i \in 1..n PROVE FrameOK(stack[i])'
    <2>1. CASE i = n
        BY <1>2, <1>7, <1>8, <2>1 DEF FrameOK
    <2>2. CASE i \in 1..(n - 1)
        <3>1. FrameOK(stack[i]) /\ stack'[i] = stack[i]
            BY <1>1, <1>8, <1>10, <2>2 DEF StackInv, n
        <3>2. QED
            BY <1>2, <3>1 DEF FrameOK
    <2>3. QED
        BY <1>9, <2>1, <2>2
<1>14. ASSUME NEW i \in 1..(n - 1) PROVE Awaits(stack[i], stack[i+1].key)'
    <2>1. stack'[i] = stack[i] /\ stack'[i+1].key = stack[i+1].key
        BY <1>8, <1>10, <1>11
    <2>2. Awaits(stack[i], stack[i+1].key)
        BY <1>1 DEF StackInv, n
    <2>3. QED
        BY <2>1, <2>2 DEF Awaits
<1>15. StackInv'
    BY <1>3, <1>8, <1>13, <1>14 DEF StackInv
<1>16. QED
    BY <1>12, <1>15 DEF Inv


\* No activation below is about the curve on top, once the loop on top is over:
\* that activation waits for a dependency, and all of these are in the market.
LEMMA TopOnce ==
    ASSUME Inv, LoopDone, NEW i \in 1..(Len(stack) - 1)
    PROVE  stack[i].key # top.key
<1> SUFFICES ASSUME stack[i].key = top.key PROVE FALSE
    OBVIOUS
<1>1. TypeOK /\ StackInv /\ stack # <<>>
    BY DEF Inv, TypeOK
<1>2. /\ Len(stack) \in 1..Len(stack) /\ Len(stack) \in Nat \ {0} /\ top \in Frame
      /\ DOMAIN stack = 1..Len(stack)
    BY <1>1, TopInStack
<1>3. i \in 1..Len(stack) /\ i + 1 \in 1..Len(stack)
    BY <1>2
<1>4. FrameOK(stack[i]) /\ FrameOK(stack[i+1]) /\ Awaits(stack[i], stack[i+1].key)
    BY <1>1, <1>3 DEF StackInv
<1>5. stack[i] \in Frame
    BY <1>1, <1>2, <1>3 DEF TypeOK
<1>6. FrameOK(top)
    BY <1>1, <1>2 DEF StackInv, top
<1>7. stack[i].deps = top.deps
    BY <1>4, <1>6 DEF FrameOK
<1>8. Len(top.deps) \in Nat /\ top.iter \in Nat /\ stack[i].iter \in Nat \ {0}
    BY <1>2, <1>5 DEF Frame
<1>9. stack[i].iter \in 1..(top.iter - 1)
    BY <1>4, <1>7, <1>8 DEF Awaits
<1>10. InMarket(top.deps[stack[i].iter])
    BY <1>6, <1>9 DEF FrameOK
<1>11. InMarket(stack[i+1].key)
    BY <1>4, <1>7, <1>10 DEF Awaits
<1>12. QED
    BY <1>4, <1>11 DEF FrameOK

\* The activation on top makes its curve, and adds it to the market.
LEMMA BootstrapInv == ASSUME Inv, Bootstrap PROVE Inv'
<1> USE DEF client
<1>1. TypeOK /\ StackInv /\ stack # <<>> /\ LoopDone
    BY DEF Inv, TypeOK, Bootstrap
<1>2. /\ \A k : Cfg(k)' = Cfg(k) /\ AdapterOf(k)' = AdapterOf(k)
      /\ UNCHANGED <<config, depFn>>
    BY SameLists DEF Bootstrap
<1>3. PICK k : k = top.key
    OBVIOUS
<1>4. /\ k \in Key /\ Cfg(k) # None /\ Bootstraps(k)
      /\ Len(stack) \in Nat \ {0} /\ DOMAIN stack = 1..Len(stack)
    BY <1>1, <1>3, TopInStack DEF Bootstrap
<1>5. /\ stack' \in Seq(Frame) /\ Len(stack') = Len(stack) - 1
      /\ \A i \in 1..Len(stack') : stack'[i] = stack[i]
    BY <1>1, PopSeq DEF TypeOK, Pop, Bootstrap
<1>6. DOMAIN stack' = 1..Len(stack')
    BY <1>5
<1>7. /\ pc' = "ret" /\ arg' = k /\ val' = gen + 1 /\ gen' = gen + 1
      /\ gen \in Nat /\ gen + 1 \in Nat
    BY <1>1, <1>3 DEF Pop, Bootstrap, TypeOK
<1>8. NewCurve(k) \in Curve /\ Published(k) \subseteq SUBSET Asset
    BY <1>1, <1>4, NewCurveType
<1>9. /\ market' = [market EXCEPT ![k] = NewCurve(k)]
      /\ market' \in [Key -> Curve \cup {None}] /\ spot' \subseteq Asset
    BY <1>1, <1>3, <1>4, <1>8 DEF Bootstrap, TypeOK
<1>10. InMarket(k)' /\ \A d \in Key : d # k => InMarket(d)' = InMarket(d)
    BY <1>1, <1>4, <1>8, <1>9, NoneAssumption DEF InMarket, TypeOK
<1>11. \A i \in 1..Len(stack') : i \in 1..(Len(stack) - 1) /\ i \in 1..Len(stack)
    BY <1>4, <1>5
<1>12. TypeOK'
    <2>1. \A i \in DOMAIN stack' : /\ Cfg(stack[i].key)' # None
                                   /\ AdapterOf(stack[i].key)' \in Adapter
        BY <1>1, <1>2, <1>4, <1>5, <1>6, <1>11 DEF TypeOK
    <2>2. /\ config' \in [Key -> Config \cup {None}]
          /\ quote' \in [Key -> Quotes]
          /\ depFn' \in [Adapter -> {"own", "null", "wild"}]
          /\ last' \in Key \cup {None}
        BY <1>1 DEF TypeOK, Bootstrap
    <2>3. QED
        BY <1>4, <1>5, <1>7, <1>9, <2>1, <2>2 DEF TypeOK
<1>13. ASSUME NEW i \in 1..Len(stack') PROVE FrameOK(stack[i])'
    <2>1. i \in 1..(Len(stack) - 1) /\ i \in 1..Len(stack) /\ stack'[i] = stack[i]
        BY <1>5, <1>11
    <2>2. stack[i].key # k
        <3>1. stack[i].key # top.key
            BY <1>1, <2>1, TopOnce
        <3>2. QED
            BY <1>3, <3>1
    <2>3. stack[i] \in Frame /\ stack[i].key \in Key /\ FrameOK(stack[i])
        <3>1. stack[i] \in Frame
            BY <1>1, <2>1 DEF TypeOK
        <3>2. FrameOK(stack[i])
            BY <1>1, <2>1 DEF StackInv
        <3>3. QED
            BY <3>1, <3>2 DEF Frame
    <2>4. PICK f \in Frame : f = stack[i]
        BY <2>3
    <2>5. ~InMarket(f.key)' /\ FrameOK(f)
        BY <1>10, <2>2, <2>3, <2>4 DEF FrameOK
    <2>6. \A d \in Key : InMarket(d) => InMarket(d)'
        BY <1>10
    <2>7. /\ f.deps = DepList(f.key)' /\ f.iter <= Len(f.deps) + 1
          /\ \A j \in 1..(f.iter - 1) : InMarket(f.deps[j])'
        BY <1>2, <2>5, <2>6, SameFrame
    <2>8. QED
        BY <2>1, <2>4, <2>5, <2>7 DEF FrameOK
<1>14. ASSUME NEW i \in 1..(Len(stack') - 1) PROVE Awaits(stack[i], stack[i+1].key)'
    <2>1. /\ i \in 1..(Len(stack) - 1)
          /\ stack'[i] = stack[i] /\ stack'[i+1] = stack[i+1]
        BY <1>4, <1>5, <1>14
    <2>2. Awaits(stack[i], stack[i+1].key)
        BY <1>1, <2>1 DEF StackInv
    <2>3. QED
        BY <2>1, <2>2 DEF Awaits
<1>15. stack' # <<>> => Awaits(top, arg)'
    <2>1. SUFFICES ASSUME stack' # <<>> PROVE Awaits(top, arg)'
        OBVIOUS
    <2>2. /\ Len(stack') \in 1..(Len(stack) - 1) /\ Len(stack') + 1 = Len(stack)
          /\ stack'[Len(stack')] = stack[Len(stack')]
        BY <1>4, <1>5, <2>1
    <2>3. Awaits(stack[Len(stack')], stack[Len(stack') + 1].key)
        BY <1>1, <2>2 DEF StackInv
    <2>4. stack[Len(stack') + 1].key = k
        BY <1>3, <2>2 DEF top
    <2>5. QED
        BY <1>7, <2>2, <2>3, <2>4 DEF Awaits, top
<1>16. StackInv'
    BY <1>7, <1>10, <1>13, <1>14, <1>15 DEF StackInv
<1>17. QED
    BY <1>12, <1>16 DEF Inv

\* The client has its answer.
LEMMA AnswerInv == ASSUME Inv, Answer PROVE Inv'
<1>1. TypeOK /\ stack = <<>> /\ pc = "ret"
    BY DEF Inv, Answer
<1>2. TypeOK'
    BY <1>1 DEF TypeOK, Answer, client, Cfg, AdapterOf
<1>3. StackInv'
    BY <1>1 DEF StackInv, Answer
<1>4. QED
    BY <1>2, <1>3 DEF Inv

\* Every step of the engine.
LEMMA BuildInv == ASSUME Inv, Build PROVE Inv'
<1>1. TypeOK /\ StackInv
    BY DEF Inv
<1>2. CASE Overflow \/ NullMethod \/ WildCall \/ BootstrapHalts
    BY <1>2, StayInv DEF Overflow, NullMethod, WildCall, BootstrapHalts, Halt, Halts
<1>3. CASE Found
    <2>1. arg \in Key /\ market[arg] \in Curve /\ market[arg].gen \in Nat
        BY <1>1, <1>3 DEF Found, TypeOK, InMarket, Curve
    <2>2. QED
        BY <1>3, <2>1, StayInv DEF Found, ReturnFromCall
<1>4. CASE NoAdapter \/ NoDepList
    BY <1>4, StayInv DEF NoAdapter, NoDepList, ReturnFromCall
<1>5. CASE EnterLoop
    BY <1>5, EnterLoopInv
<1>6. CASE CallDep
    <2>1. Cfg(arg)' # None
        BY <1>6 DEF CallDep, Cfg, client
    <2>2. UNCHANGED val /\ UNCHANGED stack /\ pc' = "call" /\ arg' = top.deps[top.iter]
        BY <1>6 DEF CallDep
    <2>3. InLoop /\ UNCHANGED <<client, market, spot, gen, last>>
        BY <1>6 DEF CallDep
    <2>4. QED
        BY <2>1, <2>2, <2>3, StayInv
<1>7. CASE DepUnknown \/ DepFailed \/ BootstrapFails
    <2>1. stack # <<>>
        BY <1>1, <1>7 DEF DepUnknown, DepFailed, BootstrapFails, TypeOK
    <2>2. QED
        BY <1>7, <2>1, PopInv DEF DepUnknown, DepFailed, BootstrapFails
<1>8. CASE DepBuilt
    BY <1>8, DepBuiltInv
<1>9. CASE Bootstrap
    BY <1>9, BootstrapInv
<1>10. CASE Answer
    BY <1>10, AnswerInv
<1>11. QED
    BY <1>2, <1>3, <1>4, <1>5, <1>6, <1>7, <1>8, <1>9, <1>10 DEF Build

\* The invariant is inductive.
LEMMA InvNext == Inv /\ [Next]_vars => Inv'
<1> SUFFICES ASSUME Inv, [Next]_vars PROVE Inv'
    OBVIOUS
<1>1. CASE UNCHANGED vars
    BY <1>1 DEF vars, Inv, TypeOK, StackInv, FrameOK, Awaits, InMarket, Cfg,
                AdapterOf, DepList, DepFn, ListFails, top
<1>2. QED
    BY <1>1, ClientInv, BuildInv DEF Next
-----------------------------------------------------------------------------
\* The theorems.

\* The invariant holds of every run of the engine.
THEOREM Invariance == Spec => []Inv
<1>1. Init => Inv
    BY InitInv
<1>2. Inv /\ [Next]_vars => Inv'
    BY InvNext
<1>3. QED
    BY <1>1, <1>2, PTL DEF Spec

\* Type correctness, with what the engine dereferences: no activation loses
\* the configuration or the adapter that it was entered with.
THEOREM TypeCorrect == Spec => []TypeOK
<1>1. Inv => TypeOK
    BY DEF Inv
<1>2. QED
    BY <1>1, Invariance, PTL

\* The chain of activations: each waits for a dependency that is missing until
\* the next one has made it.
THEOREM ChainOfCalls == Spec => []StackInv
<1>1. Inv => StackInv
    BY DEF Inv
<1>2. QED
    BY <1>1, Invariance, PTL

\* No build, however deep its recursion and whatever it finds on the way,
\* replaces a curve that the market has: the managers would free the curve that
\* the client and composite curves still point to.
THEOREM KeepsCurves == Spec => BuildKeepsCurves
<1> DEFINE Keeps == pc # "idle" => \A k \in Key : InMarket(k) => market'[k] = market[k]
<1>1. ASSUME Inv, [Next]_vars PROVE [Keeps]_vars
    <2>1. CASE UNCHANGED vars
        BY <2>1
    <2>2. CASE Application
        BY <2>2 DEF Application, AddConfig, AddRates, AddCurve, ClearMarket,
                    CloneMarket, CloneAdapters, Request, Idle
    <2>3. CASE Build /\ ~Bootstrap
        BY <2>3 DEF Build, Overflow, Found, NullMethod, NoAdapter, WildCall, NoDepList,
                    EnterLoop, CallDep, DepUnknown, DepBuilt, DepFailed, BootstrapFails,
                    BootstrapHalts, Answer, ReturnFromCall, Halt
    <2>4. CASE Bootstrap
        <3>1. stack # <<>> /\ TypeOK
            BY <1>1, <2>4 DEF Inv, TypeOK, Bootstrap
        <3>2. FrameOK(top) /\ top.key \in Key
            BY <1>1, <3>1, TopInStack DEF Inv, StackInv, top
        <3>3. QED
            BY <2>4, <3>1, <3>2 DEF Bootstrap, FrameOK, TypeOK, InMarket
    <2>5. QED
        BY <1>1, <2>1, <2>2, <2>3, <2>4 DEF Next
<1>2. QED
    BY <1>1, Invariance, PTL DEF Spec, BuildKeepsCurves

\* A curve enters the market only after every curve its adapter declared, in
\* the order of the declaration and whatever else was built in between.
THEOREM DepsAreFirst == Spec => DepsFirst
<1> DEFINE First == \A k \in Key : pc = "loop" /\ ~InMarket(k) /\ (InMarket(k))'
                        => \A d \in DepSet(k) : InMarket(d)
<1>1. ASSUME Inv, [Next]_vars PROVE [First]_vars
    <2>1. CASE UNCHANGED market
        BY <2>1 DEF InMarket
    <2>2. CASE Application
        BY <2>2 DEF Application, AddConfig, AddRates, AddCurve, ClearMarket,
                    CloneMarket, CloneAdapters, Request, Idle
    <2>3. CASE Bootstrap
        <3>1. SUFFICES ASSUME NEW k \in Key, ~InMarket(k), InMarket(k)',
                              NEW d \in DepSet(k)
                       PROVE  InMarket(d)
            OBVIOUS
        <3>2. stack # <<>> /\ TypeOK
            BY <1>1, <2>3 DEF Inv, TypeOK, Bootstrap
        <3>3. FrameOK(top) /\ top \in Frame
            BY <1>1, <3>2, TopInStack DEF Inv, StackInv, top
        <3>4. k = top.key
            BY <2>3, <3>1, <3>2 DEF Bootstrap, InMarket, TypeOK
        <3>5. top.deps = DepList(k) /\ top.deps \in Seq(Key)
            BY <3>3, <3>4 DEF FrameOK, Frame
        <3>6. PICK i \in 1..Len(top.deps) : d = top.deps[i]
            BY <3>1, <3>5 DEF DepSet
        <3>7. i \in 1..(top.iter - 1)
            <4>1. top.iter \in Nat /\ Len(top.deps) \in Nat /\ top.iter > Len(top.deps)
                BY <2>3, <3>3, <3>5 DEF Bootstrap, Frame
            <4>2. QED
                BY <3>6, <4>1
        <3>8. QED
            BY <3>3, <3>6, <3>7 DEF FrameOK
    <2>4. CASE Build /\ ~Bootstrap
        BY <2>4, <2>1 DEF Build, Overflow, Found, NullMethod, NoAdapter, WildCall, NoDepList,
                    EnterLoop, CallDep, DepUnknown, DepBuilt, DepFailed, BootstrapFails,
                    BootstrapHalts, Answer, ReturnFromCall, Halt
    <2>5. QED
        BY <1>1, <2>1, <2>2, <2>3, <2>4 DEF Next, vars
<1>2. QED
    BY <1>1, Invariance, PTL DEF Spec, DepsFirst
-----------------------------------------------------------------------------
\* The refinement: the engine implements the catalogue of curves.

\* What the catalogue needs is made of curves.
NeedsOK == Needs \in [Key -> SUBSET Key]

LEMMA NeedsType == TypeOK => NeedsOK
<1> SUFFICES ASSUME TypeOK, NEW k \in Key, Cfg(k) # None PROVE DepSet(k) \subseteq Key
    BY DEF Needs, NeedsOK
<1>1. DepList(k) \in Seq(Key)
    BY DepListType
<1>2. QED
    BY <1>1 DEF DepSet

\* Only the client changes what the catalogue needs.
LEMMA SameNeeds == UNCHANGED <<config, depFn>> => UNCHANGED Needs
<1> SUFFICES ASSUME UNCHANGED <<config, depFn>> PROVE UNCHANGED Needs
    OBVIOUS
<1>1. ASSUME NEW k
      PROVE  Cfg(k)' = Cfg(k) /\ AdapterOf(k)' = AdapterOf(k) /\ DepList(k)' = DepList(k)
    BY SameLists
<1>2. ASSUME NEW k PROVE DepSet(k)' = DepSet(k)
    BY <1>1 DEF DepSet
<1>3. QED
    BY <1>1, <1>2 DEF Needs

\* The request that is served is the one at the bottom of the stack, and a
\* return from there leaves it in arg.
LEMMA PopServes ==
    ASSUME TypeOK, stack # <<>>, pc # "idle", NEW v, Pop(v)
    PROVE  Served' = Served
<1>1. /\ stack' \in Seq(Frame) /\ Len(stack') = Len(stack) - 1
      /\ \A i \in 1..Len(stack') : stack'[i] = stack[i]
    BY PopSeq DEF TypeOK, Pop
<1>2. Len(stack) \in Nat \ {0}
    BY TopInStack
<1>3. pc' = "ret" /\ arg' = stack[Len(stack)].key
    BY DEF Pop, top
<1>4. CASE Len(stack) = 1
    <2>1. stack' = <<>>
        BY <1>1, <1>4
    <2>2. QED
        BY <1>3, <1>4, <2>1 DEF Served
<1>5. CASE Len(stack) # 1
    <2>1. 1 \in 1..Len(stack') /\ stack' # <<>>
        BY <1>1, <1>2, <1>5
    <2>2. stack'[1] = stack[1]
        BY <1>1, <2>1
    <2>3. QED
        BY <1>3, <2>1, <2>2 DEF Served
<1>6. QED
    BY <1>4, <1>5

\* Every step that makes no curve and gives no answer leaves the catalogue alone.
LEMMA StutterStep ==
    ASSUME Inv, Build, ~Bootstrap, ~Answer
    PROVE  UNCHANGED <<Needs, Present, Served, last>>
<1> USE DEF client
<1>1. TypeOK
    BY DEF Inv
<1>2. UNCHANGED <<config, depFn, market, last>> /\ pc # "idle"
    BY DEF Build, Overflow, Found, NullMethod, NoAdapter, WildCall, NoDepList,
           EnterLoop, CallDep, DepUnknown, DepBuilt, DepFailed, BootstrapFails,
           BootstrapHalts, ReturnFromCall, Halt
<1>3. UNCHANGED Needs /\ UNCHANGED Present
    BY <1>2, SameNeeds DEF Present, InMarket
<1>4. CASE Overflow \/ Found \/ NullMethod \/ NoAdapter \/ WildCall \/ NoDepList \/ BootstrapHalts
    BY <1>2, <1>3, <1>4 DEF Overflow, Found, NullMethod, NoAdapter, WildCall, NoDepList,
           BootstrapHalts, ReturnFromCall, Halt, Halts, Served
<1>5. CASE EnterLoop
    <2>1. PICK f : f.key = arg /\ stack' = Append(stack, f) /\ pc' = "loop"
        BY <1>5 DEF EnterLoop
    <2>2. stack \in Seq(Frame)
        BY <1>1 DEF TypeOK
    <2>3. Len(stack') = Len(stack) + 1 /\ stack' # <<>> /\ Len(stack) \in Nat
        BY <2>1, <2>2
    <2>4. stack = <<>> => stack'[1] = f
        BY <2>1, <2>2
    <2>5. stack # <<>> => stack'[1] = stack[1]
        BY <2>1, <2>2
    <2>6. QED
        BY <1>2, <1>3, <2>1, <2>3, <2>4, <2>5 DEF Served
<1>6. CASE CallDep
    <2>1. stack # <<>> /\ pc' = "call" /\ stack' = stack
        BY <1>1, <1>6 DEF CallDep, TypeOK
    <2>2. QED
        BY <1>2, <1>3, <2>1 DEF Served
<1>7. CASE DepUnknown \/ DepFailed \/ BootstrapFails
    <2>1. stack # <<>> /\ Pop(0)
        BY <1>1, <1>7 DEF DepUnknown, DepFailed, BootstrapFails, TypeOK
    <2>2. QED
        BY <1>1, <1>2, <1>3, <2>1, PopServes
<1>8. CASE DepBuilt
    <2>1. /\ stack # <<>> /\ pc' = "loop" /\ stack \in Seq(Frame)
          /\ stack' = [stack EXCEPT ![Len(stack)] = [top EXCEPT !.iter = @ + 1]]
        BY <1>1, <1>8 DEF DepBuilt, TypeOK, top
    <2>2. Len(stack) \in Nat \ {0} /\ top \in Frame /\ DOMAIN stack = 1..Len(stack)
        BY <1>1, <2>1, TopInStack
    <2>3. stack'[1].key = stack[1].key
        <3>1. [top EXCEPT !.iter = @ + 1].key = top.key
            BY <2>2 DEF Frame
        <3>2. 1 \in DOMAIN stack
            BY <2>2
        <3>3. QED
            BY <2>1, <3>1, <3>2 DEF top
    <2>4. stack' # <<>>
        BY <2>1, <2>2
    <2>5. QED
        BY <1>2, <1>3, <2>1, <2>3, <2>4 DEF Served
<1>9. QED
    BY <1>4, <1>5, <1>6, <1>7, <1>8 DEF Build

\* The bootstrap of a curve is its installation in the catalogue.
LEMMA InstallStep ==
    ASSUME Inv, Bootstrap
    PROVE  Catalogue!Install(top.key) /\ top.key \in Key
<1> USE DEF client
<1>1. TypeOK /\ StackInv /\ stack # <<>> /\ pc = "loop"
    BY DEF Inv, TypeOK, Bootstrap
<1>2. /\ top.key \in Key /\ top \in Frame /\ Cfg(top.key) # None
      /\ AdapterOf(top.key) \in Adapter /\ FrameOK(top)
      /\ Len(stack) \in Nat \ {0} /\ DOMAIN stack = 1..Len(stack)
    BY <1>1, TopInStack DEF StackInv, top
<1>3. Served # None
    <2>1. stack[1] \in Frame
        BY <1>1, <1>2 DEF TypeOK
    <2>2. QED
        BY <1>1, <2>1, NoneAssumption DEF Served, Frame
<1>4. Needs[top.key] = DepSet(top.key)
    BY <1>2 DEF Needs
<1>5. DepSet(top.key) \subseteq Present
    <2>1. SUFFICES ASSUME NEW d \in DepSet(top.key) PROVE d \in Key /\ InMarket(d)
        BY DEF Present
    <2>2. top.deps = DepList(top.key) /\ top.deps \in Seq(Key)
        BY <1>2 DEF FrameOK, Frame
    <2>3. PICK i \in 1..Len(top.deps) : d = top.deps[i]
        BY <2>1, <2>2 DEF DepSet
    <2>4. i \in 1..(top.iter - 1)
        <3>1. top.iter \in Nat /\ Len(top.deps) \in Nat /\ top.iter > Len(top.deps)
            BY <1>2, <2>2 DEF Bootstrap, Frame
        <3>2. QED
            BY <2>3, <3>1
    <2>5. QED
        BY <1>2, <2>2, <2>3, <2>4 DEF FrameOK
<1>6. top.key \notin Present
    BY <1>2 DEF FrameOK, Present
<1>7. Present' = Present \cup {top.key}
    <2>1. NewCurve(top.key) # None
        <3>1. Bootstraps(top.key)
            BY DEF Bootstrap
        <3>2. QED
            BY <1>1, <1>2, <3>1, NewCurveType, NoneAssumption
    <2>2. /\ market' = [market EXCEPT ![top.key] = NewCurve(top.key)]
          /\ DOMAIN market = Key
        BY <1>1 DEF Bootstrap, TypeOK
    <2>3. QED
        BY <1>2, <2>1, <2>2 DEF Present, InMarket
<1>8. UNCHANGED Needs
    BY SameNeeds DEF Bootstrap
<1>9. UNCHANGED Served
    BY <1>1, PopServes DEF Bootstrap
<1>10. UNCHANGED last
    BY DEF Bootstrap
<1>11. QED
    BY <1>2, <1>3, <1>4, <1>5, <1>6, <1>7, <1>8, <1>9, <1>10 DEF Catalogue!Install

\* What the client does between requests.
LEMMA ClientStep ==
    ASSUME Inv, Application, NeedsOK'
    PROVE  Catalogue!Next
<1> USE DEF client, engine, Idle
<1>1. TypeOK /\ pc = "idle" /\ stack = <<>>
    BY DEF Inv, TypeOK, Application, AddConfig, AddRates, AddCurve, ClearMarket,
           CloneMarket, CloneAdapters, Request
<1>2. Served = None
    BY <1>1 DEF Served
<1>3. CASE \E k \in Key : Request(k)
    <2>1. PICK k \in Key : Request(k)
        BY <1>3
    <2>2. Served' = k
        BY <1>1, <2>1 DEF Request, Served
    <2>3. UNCHANGED Needs /\ UNCHANGED Present
        BY <2>1, SameNeeds DEF Request, Present, InMarket
    <2>4. UNCHANGED last
        BY <2>1 DEF Request
    <2>5. Catalogue!Ask(k)
        BY <1>2, <2>2, <2>3, <2>4 DEF Catalogue!Ask
    <2>6. QED
        BY <2>1, <2>5 DEF Catalogue!Next
<1>4. CASE ~\E k \in Key : Request(k)
    <2>1. pc' = "idle" /\ UNCHANGED last
        BY <1>1, <1>4 DEF Application, AddConfig, AddRates, AddCurve, ClearMarket,
               CloneMarket, CloneAdapters
    <2>2. Served' = None
        BY <2>1 DEF Served
    <2>3. Present' \subseteq Key
        BY DEF Present
    <2>4. Catalogue!Arrange
        BY <1>2, <2>1, <2>2, <2>3 DEF Catalogue!Arrange, NeedsOK
    <2>5. QED
        BY <2>4 DEF Catalogue!Next
<1>5. QED
    BY <1>3, <1>4

\* The client gets the curve it asked for, which is then in the market, or NULL.
LEMMA ReplyStep ==
    ASSUME Inv, Answer
    PROVE  Catalogue!Reply
<1> USE DEF client
<1>1. TypeOK /\ StackInv
    BY DEF Inv
<1>2. arg \in Key /\ (val # 0 => InMarket(arg)) /\ Served = arg /\ Served' = None
    BY <1>1 DEF Answer, TypeOK, StackInv, Served
<1>3. arg # None
    BY <1>2, NoneAssumption
<1>4. last' \in {None} \cup ({Served} \cap Present)
    BY <1>2 DEF Answer, Present
<1>5. UNCHANGED Needs /\ UNCHANGED Present
    BY SameNeeds DEF Answer, Present, InMarket
<1>6. QED
    BY <1>2, <1>3, <1>4, <1>5 DEF Catalogue!Reply

\* The engine, with its call stack and its failures, implements the catalogue:
\* it only ever adds, after what is needed, and answers with what is there.
THEOREM Refinement == Spec => CatalogueSafety
<1>1. Init => Catalogue!Init
    <2> SUFFICES ASSUME Init PROVE Catalogue!Init
        OBVIOUS
    <2>1. Needs = [k \in Key |-> {}] /\ Present = {} /\ Served = None /\ last = None
        BY DEF Init, Needs, Present, InMarket, Served, Cfg
    <2>2. QED
        BY <2>1 DEF Catalogue!Init
<1>2. Inv' => NeedsOK'
    <2>1. Inv => NeedsOK
        BY NeedsType DEF Inv
    <2>2. QED
        BY <2>1, PTL
<1>3. Inv /\ Inv' /\ [Next]_vars => [Catalogue!Next]_Catalogue!vars
    <2> SUFFICES ASSUME Inv, Inv', [Next]_vars PROVE [Catalogue!Next]_Catalogue!vars
        OBVIOUS
    <2>1. CASE UNCHANGED vars
        <3>1. UNCHANGED Needs /\ UNCHANGED Present /\ UNCHANGED Served /\ UNCHANGED last
            BY <2>1, SameNeeds DEF vars, Present, InMarket, Served
        <3>2. QED
            BY <3>1 DEF Catalogue!vars
    <2>2. CASE Application
        BY <1>2, <2>2, ClientStep
    <2>3. CASE Bootstrap
        BY <2>3, InstallStep DEF Catalogue!Next
    <2>4. CASE Answer
        BY <2>4, ReplyStep DEF Catalogue!Next
    <2>5. CASE Build /\ ~Bootstrap /\ ~Answer
        BY <2>5, StutterStep DEF Catalogue!vars
    <2>6. QED
        BY <2>1, <2>2, <2>3, <2>4, <2>5 DEF Next
<1>4. QED
    BY <1>1, <1>3, Invariance, PTL DEF Spec, CatalogueSafety, Catalogue!Spec
-----------------------------------------------------------------------------
\* The pointers of composite curves.

\* RefsAlive is not inductive by itself: rq_market_clear keeps the cds curves,
\* so these must have no pointers into what it drops.
CdsHasNoRefs == \A k \in Key : InMarket(k) /\ k[1] = "cds" => market[k].refs = {}
RefInv == RefsAlive /\ CdsHasNoRefs

\* A new curve breaks no pointers, because nothing had its key, and has none
\* but to curves that are there.
LEMMA BootstrapRefs == ASSUME Inv, RefInv, Bootstrap PROVE RefInv'
<1>1. TypeOK /\ StackInv /\ stack # <<>>
    BY DEF Inv, TypeOK, Bootstrap
<1>2. PICK k : k = top.key
    OBVIOUS
<1>3. /\ k \in Key /\ Cfg(k) # None /\ AdapterOf(k) \in Adapter /\ ~InMarket(k)
      /\ Bootstraps(k)
    BY <1>1, <1>2, TopInStack DEF StackInv, FrameOK, Bootstrap, top
<1>4. Cfg(k) \in Config
    BY <1>1, <1>3 DEF TypeOK, Cfg
<1>5. /\ market'[k] = NewCurve(k) /\ \A d \in Key : d # k => market'[d] = market[d]
    BY <1>1, <1>2, <1>3 DEF Bootstrap, TypeOK
<1>6. NewCurve(k) # None /\ NewCurve(k).refs = Pointers(k)
    <2>1. NewCurve(k) \in Curve
        BY <1>1, <1>3, NewCurveType
    <2>2. QED
        BY <2>1, NoneAssumption DEF NewCurve
<1>7. \A r \in Pointers(k) : r[1] \in Key /\ InMarket(r[1]) /\ market[r[1]].gen = r[2]
    <2>1. CASE Cfg(k).method # "composite"
        BY <2>1 DEF Pointers
    <2>2. CASE Cfg(k).method = "composite"
        <3>1. HasBoth(k)
            BY <1>3, <2>2 DEF Bootstraps
        <3>2. Cfg(k).id1 \in Id /\ Cfg(k).id2 \in Id
            BY <1>4, <3>1 DEF Config, HasBoth
        <3>3. \A d \in {Yield(Cfg(k).id1), Yield(Cfg(k).id2)} : d \in Key /\ InMarket(d)
            BY <3>1, <3>2 DEF HasBoth, Key, Types, Yield
        <3>4. QED
            BY <2>2, <3>3 DEF Pointers
    <2>3. QED
        BY <2>1, <2>2
<1>8. k[1] = "cds" => Pointers(k) = {}
    BY <1>3 DEF Pointers, AdapterOf, Adapter
<1>9. InMarket(k)' /\ \A d \in Key : InMarket(d) => InMarket(d)' /\ market'[d] = market[d]
    BY <1>3, <1>5, <1>6 DEF InMarket
<1>10. ASSUME NEW d \in Key, InMarket(d)', d # k
       PROVE  InMarket(d) /\ market'[d] = market[d]
    BY <1>5, <1>10 DEF InMarket
<1>11. RefsAlive'
    <2>1. SUFFICES ASSUME NEW d \in Key, InMarket(d)', NEW r \in market'[d].refs
                   PROVE  InMarket(r[1])' /\ market'[r[1]].gen = r[2]
        BY DEF RefsAlive
    <2>2. CASE d = k
        BY <1>5, <1>6, <1>7, <1>9, <2>1, <2>2
    <2>3. CASE d # k
        <3>1. InMarket(d) /\ market'[d] = market[d]
            BY <1>10, <2>1, <2>3
        <3>2. InMarket(r[1]) /\ market[r[1]].gen = r[2]
            BY <2>1, <3>1 DEF RefInv, RefsAlive
        <3>3. r[1] \in Key
            <4>1. market[d] \in Curve
                BY <1>1, <3>1 DEF TypeOK, InMarket
            <4>2. r \in Key \X Nat
                BY <2>1, <3>1, <4>1 DEF Curve
            <4>3. QED
                BY <4>2
        <3>4. QED
            BY <1>9, <3>2, <3>3
    <2>4. QED
        BY <2>2, <2>3
<1>12. CdsHasNoRefs'
    <2>1. SUFFICES ASSUME NEW d \in Key, InMarket(d)', d[1] = "cds"
                   PROVE  market'[d].refs = {}
        BY DEF CdsHasNoRefs
    <2>2. CASE d = k
        BY <1>5, <1>6, <1>8, <2>1, <2>2
    <2>3. CASE d # k
        BY <1>10, <2>1, <2>3 DEF RefInv, CdsHasNoRefs
    <2>4. QED
        BY <2>2, <2>3
<1>13. QED
    BY <1>11, <1>12 DEF RefInv

\* Unless the application replaces curves itself, no composite curve ever points
\* to a curve that was freed: not after a clear, a copy, a failed build, or a
\* build with copied adapters.
THEOREM PointersAlive ==
    ASSUME "replace" \notin Client
    PROVE  Spec => []RefsAlive
<1>1. Init => RefInv
    BY DEF Init, RefInv, RefsAlive, CdsHasNoRefs, InMarket
<1>2. Inv /\ RefInv /\ [Next]_vars => RefInv'
    <2> SUFFICES ASSUME Inv, RefInv, [Next]_vars PROVE RefInv'
        OBVIOUS
    <2>1. TypeOK
        BY DEF Inv
    <2>2. CASE UNCHANGED market
        BY <2>2 DEF RefInv, RefsAlive, CdsHasNoRefs, InMarket
    <2>3. ASSUME NEW k \in Key, NEW a \in Asset \cup {None}, AddCurve(k, a)
          PROVE  RefInv'
        <3>1. ~InMarket(k)
            BY <2>3 DEF AddCurve
        <3>2. PICK c : /\ c.refs = {} /\ market'[k] = c
                       /\ \A d \in Key : d # k => market'[d] = market[d]
            BY <2>1, <2>3 DEF AddCurve, TypeOK
        <3>3. \A d \in Key : InMarket(d) => InMarket(d)' /\ market'[d] = market[d]
            BY <3>1, <3>2 DEF InMarket
        <3>4. ASSUME NEW d \in Key, InMarket(d)', d # k
              PROVE  InMarket(d) /\ market'[d] = market[d]
            BY <3>2, <3>4 DEF InMarket
        <3>5. ASSUME NEW d \in Key, InMarket(d)', NEW r \in market'[d].refs
              PROVE  InMarket(r[1])' /\ market'[r[1]].gen = r[2]
            <4>1. d # k
                BY <3>2, <3>5
            <4>2. InMarket(d) /\ market'[d] = market[d]
                BY <3>4, <3>5, <4>1
            <4>3. InMarket(r[1]) /\ market[r[1]].gen = r[2]
                BY <3>5, <4>2 DEF RefInv, RefsAlive
            <4>4. r[1] \in Key
                <5>1. market[d] \in Curve
                    BY <2>1, <4>2 DEF TypeOK, InMarket
                <5>2. r \in Key \X Nat
                    BY <3>5, <4>2, <5>1 DEF Curve
                <5>3. QED
                    BY <5>2
            <4>5. QED
                BY <3>3, <4>3, <4>4
        <3>6. CdsHasNoRefs'
            BY <3>2, <3>4 DEF RefInv, CdsHasNoRefs
        <3>7. QED
            BY <3>5, <3>6 DEF RefInv, RefsAlive
    <2>4. CASE ClearMarket
        <3>1. \A d \in Key : market'[d] = IF d[1] = "cds" THEN market[d] ELSE None
            BY <2>4 DEF ClearMarket
        <3>2. \A d \in Key : InMarket(d)' => InMarket(d) /\ d[1] = "cds" /\ market'[d].refs = {}
            BY <3>1 DEF InMarket, RefInv, CdsHasNoRefs
        <3>3. QED
            BY <3>2 DEF RefInv, RefsAlive, CdsHasNoRefs
    <2>5. CASE CloneMarket
        <3>1. \A d \in Key : market'[d] = IF InMarket(d) THEN Copy(market[d]) ELSE None
            BY <2>5 DEF CloneMarket
        <3>2. ASSUME NEW d \in Key, InMarket(d)' PROVE market'[d].refs = {}
            <4>1. InMarket(d) /\ market[d] \in Curve
                BY <2>1, <3>1, <3>2 DEF InMarket, TypeOK
            <4>2. QED
                BY <3>1, <4>1 DEF Copy, Curve
        <3>3. QED
            BY <3>2 DEF RefInv, RefsAlive, CdsHasNoRefs
    <2>6. CASE Bootstrap
        BY <2>6, BootstrapRefs
    <2>7. CASE Build /\ ~Bootstrap
        BY <2>7, <2>2 DEF Build, Overflow, Found, NullMethod, NoAdapter, WildCall, NoDepList,
                    EnterLoop, CallDep, DepUnknown, DepBuilt, DepFailed, BootstrapFails,
                    BootstrapHalts, Answer, ReturnFromCall, Halt
    <2>8. CASE Application
        BY <2>2, <2>3, <2>4, <2>5, <2>8 DEF Application, AddConfig, AddRates,
                    CloneAdapters, Request
    <2>9. QED
        BY <2>2, <2>6, <2>7, <2>8 DEF Next, vars
<1>3. RefInv => RefsAlive
    BY DEF RefInv
<1>4. QED
    BY <1>1, <1>2, <1>3, Invariance, PTL DEF Spec
-----------------------------------------------------------------------------
\* The overflow of the C stack.

\* A curve that an adapter declares has an id that the configuration names.
LEMMA DepsAreNamed ==
    ASSUME TypeOK, NEW k \in Key, Cfg(k) # None, NEW i \in 1..Len(DepList(k))
    PROVE  Names(k, DepList(k)[i])
<1>1. Cfg(k).id1 # None /\ DepFn(k) = "own" /\ ~ListFails(k)
    BY DEF DepList
<1>2. CASE Cfg(k).method = "composite"
    <2>1. DepList(k) = <<Yield(Cfg(k).id1), Yield(Cfg(k).id2)>>
        BY <1>1, <1>2 DEF DepList
    <2>2. i \in {1, 2}
        BY <2>1
    <2>3. QED
        BY <2>1, <2>2 DEF Names, Yield
<1>3. CASE Cfg(k).method # "composite"
    <2>1. \/ DepList(k) = <<Forward(Cfg(k).id1)>>
          \/ DepList(k) = <<Cds(Cfg(k).id1)>>
          \/ DepList(k) = <<Yield(Cfg(k).id1)>>
        BY <1>1, <1>3 DEF DepList
    <2>2. i = 1
        <3>1. Len(DepList(k)) = 1
            BY <2>1
        <3>2. QED
            BY <3>1
    <2>3. QED
        BY <2>1, <2>2 DEF Names, Yield, Forward, Cds
<1>4. QED
    BY <1>2, <1>3

\* Of more calls than there are ids two are for the same id, and the curves
\* between them lead from that id to itself.
LEMMA LongPathTurns ==
    ASSUME IsFiniteSet(Id), NEW n \in Nat, n > Cardinality(Id), NEW p \in [1..n -> Key],
           \A i \in 1..(n-1) : Names(p[i], p[i+1])
    PROVE  \E S \in (SUBSET Key) \ {{}} : \A k \in S : \E d \in S : Names(k, d)
<1> DEFINE f == [i \in 1..n |-> p[i][2]]
<1>1. f \in [1..n -> Id]
    BY DEF Key
<1>2. IsFiniteSet(1..n) /\ Cardinality(1..n) = n
    BY FS_Interval
<1>3. Cardinality(Id) \in Nat
    BY FS_CardinalityType
<1>4. \E x, y \in 1..n : x # y /\ f[x] = f[y]
    <2> HIDE DEF f
    <2>1. QED
        BY <1>1, <1>2, <1>3, FS_PigeonHole
<1>5. PICK i \in 1..n, j \in 1..n : i < j /\ p[i][2] = p[j][2]
    <2>1. PICK x \in 1..n, y \in 1..n : x # y /\ p[x][2] = p[y][2]
        BY <1>4
    <2>2. CASE x < y
        BY <2>1, <2>2
    <2>3. CASE y < x
        BY <2>1, <2>3
    <2>4. QED
        BY <2>1, <2>2, <2>3
<1> DEFINE S == {p[m] : m \in i..(j-1)}
<1>6. S \subseteq Key /\ p[i] \in S
    BY <1>5
<1>7. ASSUME NEW m \in i..(j-1) PROVE \E d \in S : Names(p[m], d)
    <2>1. m \in 1..(n-1) /\ m + 1 \in i..j /\ Names(p[m], p[m+1])
        BY <1>5
    <2>2. CASE m + 1 < j
        <3>1. p[m+1] \in S
            BY <2>1, <2>2
        <3>2. QED
            BY <2>1, <3>1
    <2>3. CASE m + 1 = j
        <3>1. Names(p[m], p[i])
            BY <1>5, <2>1, <2>3 DEF Names
        <3>2. QED
            BY <1>6, <3>1
    <2>4. QED
        BY <2>1, <2>2, <2>3
<1>8. \A k \in S : \E d \in S : Names(k, d)
    BY <1>7
<1> HIDE DEF S
<1>9. QED
    BY <1>6, <1>8

\* An activation names the curve it waits for.
LEMMA AwaitedNamed ==
    ASSUME Inv, NEW i \in 1..Len(stack), NEW k, Awaits(stack[i], k)
    PROVE  Names(stack[i].key, k)
<1>1. stack[i] \in Frame /\ Cfg(stack[i].key) # None /\ FrameOK(stack[i])
    BY DEF Inv, TypeOK, StackInv
<1>2. stack[i].iter \in 1..Len(DepList(stack[i].key)) /\ k = DepList(stack[i].key)[stack[i].iter]
    BY <1>1 DEF Frame, FrameOK, Awaits
<1>3. QED
    BY <1>1, <1>2, DepsAreNamed DEF Inv, Frame

\* With a stack that holds as many activations as there are ids, only
\* configurations that lead from an id back to itself overflow it.
THEOREM CyclesOverflow ==
    ASSUME IsFiniteSet(Id), MaxDepth >= Cardinality(Id)
    PROVE  Spec => []OverflowMeansCycle
<1>1. Init => OverflowMeansCycle
    BY DEF Init, OverflowMeansCycle
<1>2. Inv /\ OverflowMeansCycle /\ [Next]_vars => OverflowMeansCycle'
    <2> SUFFICES ASSUME Inv, OverflowMeansCycle, [Next]_vars, pc' = "overflow"
                 PROVE  OverflowMeansCycle'
        BY DEF OverflowMeansCycle
    <2>1. CASE UNCHANGED vars
        BY <2>1 DEF vars, OverflowMeansCycle, Names, Cfg
    <2>2. CASE Overflow
        <3> DEFINE n == MaxDepth + 1
                   p == [i \in 1..n |-> IF i = n THEN arg ELSE stack[i].key]
        <3>1. TypeOK /\ StackInv /\ pc = "call" /\ Len(stack) = MaxDepth /\ UNCHANGED config
            BY <2>2 DEF Overflow, Halt, client, Inv
        <3>2. MaxDepth \in Nat /\ Cardinality(Id) \in Nat /\ stack \in Seq(Frame) /\ arg \in Key
            BY <3>1, BoundsAssumption, FS_CardinalityType DEF TypeOK
        <3>3. p \in [1..n -> Key]
            <4>1. ASSUME NEW i \in 1..n PROVE p[i] \in Key
                <5>1. i # n => i \in 1..Len(stack)
                    BY <3>1, <3>2
                <5>2. i # n => stack[i] \in Frame
                    BY <3>2, <5>1
                <5>3. QED
                    BY <3>2, <5>2 DEF Frame
            <4>2. QED
                BY <4>1
        <3>4. ASSUME NEW i \in 1..(n-1) PROVE Names(p[i], p[i+1])
            <4>1. i \in 1..Len(stack) /\ p[i] = stack[i].key
                BY <3>1, <3>2
            <4>2. CASE i = MaxDepth
                <5>1. stack # <<>> /\ top = stack[i] /\ p[i+1] = arg
                    BY <3>1, <3>2, <4>2 DEF top
                <5>2. Awaits(stack[i], arg)
                    BY <3>1, <5>1 DEF StackInv
                <5>3. QED
                    BY <4>1, <5>1, <5>2, AwaitedNamed
            <4>3. CASE i # MaxDepth
                <5>1. i \in 1..(Len(stack) - 1) /\ p[i+1] = stack[i+1].key
                    BY <3>1, <3>2, <4>3
                <5>2. Awaits(stack[i], stack[i+1].key)
                    BY <3>1, <5>1 DEF StackInv
                <5>3. QED
                    BY <4>1, <5>1, <5>2, AwaitedNamed
            <4>4. QED
                BY <4>2, <4>3
        <3>a. n \in Nat /\ n > Cardinality(Id)
            BY <3>2
        <3> HIDE DEF p, n
        <3>5. \E S \in (SUBSET Key) \ {{}} : \A k \in S : \E d \in S : Names(k, d)
            BY <3>3, <3>4, <3>a, LongPathTurns
        <3>6. \A k, d : Names(k, d)' = Names(k, d)
            BY <3>1 DEF Names, Cfg
        <3>7. QED
            BY <3>5, <3>6 DEF OverflowMeansCycle
    <2>3. QED
        <3>1. ~Application
            BY DEF Application, AddConfig, AddRates, AddCurve, ClearMarket, CloneMarket,
                   CloneAdapters, Request, Idle, engine
        <3>2. Build => Overflow
            BY DEF Build, Found, NullMethod, NoAdapter, WildCall, NoDepList, EnterLoop, CallDep,
                   DepUnknown, DepBuilt, DepFailed, Bootstrap, BootstrapFails, BootstrapHalts,
                   Answer, ReturnFromCall, Halt, Pop
        <3>3. QED
            BY <2>1, <2>2, <3>1, <3>2 DEF Next
<1>3. QED
    BY <1>1, <1>2, Invariance, PTL DEF Spec
-----------------------------------------------------------------------------
\* Spot prices.

\* Every configuration is one that the application may load, so that the method
\* a curve was made with is among those it may load for the curve.
ConfigsOffered == \A k \in Key : Cfg(k) # None => <<k, Cfg(k)>> \in Offers

MayBeIndex(k) == \E o \in Offers : o[1] = k /\ o[2].method = "bbi"

\* A forward curve that is made publishes its asset.
LEMMA BootstrapPublishes ==
    ASSUME Inv, ConfigsOffered, SpotWithCurve, Bootstrap
    PROVE  SpotWithCurve'
<1>1. TypeOK /\ StackInv /\ stack # <<>>
    BY DEF Inv, TypeOK, Bootstrap
<1>2. PICK k : k = top.key
    OBVIOUS
<1>3. k \in Key /\ Cfg(k) # None
    BY <1>1, <1>2, TopInStack
<1>4. /\ market'[k] = NewCurve(k) /\ \A d \in Key : d # k => market'[d] = market[d]
      /\ spot' \in Published(k) /\ ~BootstrapCrashes(k)
    BY <1>1, <1>2, <1>3 DEF Bootstrap, TypeOK
<1>5. spot \subseteq spot' /\ spot' \subseteq Registered
    BY <1>4 DEF Published, SpotWithCurve
<1>6. k[1] = "forward" /\ Cfg(k).asset \in Registered \ Pair /\ Cfg(k).method # "bbi" =>
          Cfg(k).asset \in spot'
    BY <1>4 DEF Published
<1>7. Cfg(k).method = "bbi" => MayBeIndex(k)
    BY <1>3 DEF ConfigsOffered, MayBeIndex
<1>8. SUFFICES ASSUME NEW d \in Key, InMarket(d)', d[1] = "forward", d \notin Preload,
                      market'[d].asset \in Registered \ Pair, ~MayBeIndex(d)
               PROVE  market'[d].asset \in spot'
    BY <1>5 DEF SpotWithCurve, MayBeIndex
<1>9. CASE d = k
    <2>1. market'[d].asset = Cfg(k).asset
        BY <1>4, <1>9 DEF NewCurve
    <2>2. QED
        BY <1>6, <1>7, <1>8, <1>9, <2>1
<1>10. CASE d # k
    <2>1. InMarket(d) /\ market'[d] = market[d]
        BY <1>4, <1>8, <1>10 DEF InMarket
    <2>2. QED
        BY <1>5, <1>8, <2>1 DEF SpotWithCurve, MayBeIndex
<1>11. QED
    BY <1>9, <1>10

\* The market never has a forward curve of a registered plain asset, other than an
\* index curve, without the spot price of the asset, nor a spot price of an asset
\* that is not registered, though both are cleared and copied by different managers.
THEOREM SpotPublished == Spec => []SpotWithCurve
<1>1. Init => ConfigsOffered /\ SpotWithCurve
    BY DEF Init, ConfigsOffered, SpotWithCurve, Cfg, InMarket
<1>2. Inv /\ ConfigsOffered /\ SpotWithCurve /\ [Next]_vars
        => ConfigsOffered' /\ SpotWithCurve'
    <2> SUFFICES ASSUME Inv, ConfigsOffered, SpotWithCurve, [Next]_vars
                 PROVE  ConfigsOffered' /\ SpotWithCurve'
        OBVIOUS
    <2>1. TypeOK
        BY DEF Inv
    <2>2. ASSUME UNCHANGED config PROVE ConfigsOffered'
        BY <2>2 DEF ConfigsOffered, Cfg
    <2>3. ASSUME UNCHANGED <<market, spot>> PROVE SpotWithCurve'
        BY <2>3 DEF SpotWithCurve, InMarket
    <2>4. ASSUME NEW o \in Offers, AddConfig(o[1], o[2])
          PROVE  ConfigsOffered' /\ SpotWithCurve'
        <3>1. o[1] \in Key /\ o = <<o[1], o[2]>>
            BY OffersAssumption
        <3>2. \A k \in Key : Cfg(k)' = IF k = o[1] THEN o[2] ELSE Cfg(k)
            BY <2>1, <2>4, <3>1 DEF AddConfig, Cfg, TypeOK
        <3>3. ConfigsOffered'
            BY <3>1, <3>2 DEF ConfigsOffered
        <3>4. QED
            BY <2>3, <2>4, <3>3 DEF AddConfig
    <2>5. ASSUME NEW k \in Key, NEW a \in Asset \cup {None}, AddCurve(k, a)
          PROVE  SpotWithCurve'
        <3>1. k \in Preload /\ spot' = spot /\ \A d \in Key : d # k => market'[d] = market[d]
            BY <2>1, <2>5 DEF AddCurve, TypeOK
        <3>2. QED
            BY <3>1 DEF SpotWithCurve, InMarket
    <2>6. ASSUME ClearMarket PROVE SpotWithCurve'
        <3>1. spot' = {} /\ \A k \in Key : k[1] = "forward" => ~InMarket(k)'
            BY <2>6 DEF ClearMarket, InMarket
        <3>2. QED
            BY <3>1 DEF SpotWithCurve
    <2>7. ASSUME CloneMarket PROVE SpotWithCurve'
        <3>1. spot' = spot /\ \A k \in Key : InMarket(k)' =>
                                 InMarket(k) /\ market'[k].asset = market[k].asset
            <4>1. SUFFICES ASSUME NEW k \in Key, InMarket(k)'
                           PROVE  InMarket(k) /\ market'[k].asset = market[k].asset
                BY <2>7 DEF CloneMarket
            <4>2. InMarket(k)
                BY <2>7, <4>1 DEF CloneMarket, InMarket
            <4>3. market[k] \in Curve /\ market'[k] = Copy(market[k])
                BY <2>1, <2>7, <4>2 DEF CloneMarket, TypeOK, InMarket
            <4>4. QED
                BY <4>2, <4>3 DEF Copy, Curve
        <3>2. QED
            BY <3>1 DEF SpotWithCurve
    <2>8. CASE Application
        <3>1. CASE \E o \in Offers : AddConfig(o[1], o[2])
            BY <2>4, <3>1
        <3>2. CASE ~\E o \in Offers : AddConfig(o[1], o[2])
            <4>1. UNCHANGED config
                BY <2>8, <3>2 DEF Application, AddRates, AddCurve, ClearMarket, CloneMarket,
                                  CloneAdapters, Request, client
            <4>2. \/ UNCHANGED <<market, spot>> \/ ClearMarket \/ CloneMarket
                  \/ \E k \in Key, a \in Asset \cup {None} : AddCurve(k, a)
                BY <2>8, <3>2 DEF Application, AddRates, CloneAdapters, Request
            <4>3. QED
                BY <2>2, <2>3, <2>5, <2>6, <2>7, <4>1, <4>2
        <3>3. QED
            BY <3>1, <3>2
    <2>9. CASE Build
        <3>1. UNCHANGED config
            BY <2>9 DEF Build, Overflow, Found, NullMethod, NoAdapter, WildCall, NoDepList,
                   EnterLoop, CallDep, DepUnknown, DepBuilt, DepFailed, Bootstrap, BootstrapFails,
                   BootstrapHalts, Answer, ReturnFromCall, Halt, client
        <3>2. Bootstrap \/ UNCHANGED <<market, spot>>
            BY <2>9 DEF Build, Overflow, Found, NullMethod, NoAdapter, WildCall, NoDepList,
                   EnterLoop, CallDep, DepUnknown, DepBuilt, DepFailed, BootstrapFails,
                   BootstrapHalts, Answer, ReturnFromCall, Halt
        <3>3. QED
            BY <2>2, <2>3, <3>1, <3>2, BootstrapPublishes
    <2>10. CASE UNCHANGED vars
        BY <2>2, <2>3, <2>10 DEF vars
    <2>11. QED
        BY <2>8, <2>9, <2>10 DEF Next
<1>3. QED
    BY <1>1, <1>2, Invariance, PTL DEF Spec
-----------------------------------------------------------------------------
(***************************************************************************)
(* A trade is priced from the curves of the market.                        *)
(***************************************************************************)
Need == Types \X Use

\* What the engine knows of the curve it is about to return: its generation,
\* and that a curve of before the trade was not made again.
Returning ==
    pc = "ret" =>
        /\ val # 0 => market[arg].gen = val
        /\ stack = <<>> /\ arg \in DOMAIN before => val = before[arg]

\* Between two needs, or while one is built, of a trade.
Shape ==
    /\ mapping \in [Use -> Id \cup {None}]
    /\ needs \in Seq(Need) /\ at \in Nat \ {0}
    /\ phase \in {"none", "building", "pricing"}
    /\ phase # "building" => pc = "idle"
    /\ phase = "pricing" => at > Len(needs)
    /\ \A n \in DOMAIN cache : cache[n][1] \in Key

\* The curves that were there before the trade are still there.
BeforeKept == \A k \in DOMAIN before : k \in Key /\ InMarket(k) /\ market[k].gen = before[k]

\* The needs the helper is past have the curves that were there before.
Had(n) == Configured(n) /\ CurveFor(n) \in DOMAIN before
Holds(n) == n \in DOMAIN cache /\ cache[n] = <<CurveFor(n), before[CurveFor(n)]>>
PastServed == \A i \in 1..Len(needs) : i < at /\ Had(needs[i]) => Holds(needs[i])

\* The engine builds the curve of the need the helper is at.
BuildsNeed ==
    pc # "idle" =>
        /\ at \in 1..Len(needs) /\ Configured(needs[at])
        /\ Served = CurveFor(needs[at])

PInv ==
    /\ Inv /\ Shape
    /\ phase # "none" => CacheAlive /\ BeforeKept /\ PastServed /\ BuildsNeed /\ Returning

-----------------------------------------------------------------------------
\* The engine, seen from a trade.

\* A build leaves every curve of the market where it is (as in KeepsCurves).
LEMMA BuildKeeps ==
    ASSUME Inv, Build
    PROVE  \A k \in Key : InMarket(k) => market'[k] = market[k] /\ InMarket(k)'
<1>1. CASE ~Bootstrap
    BY <1>1 DEF Build, Overflow, Found, NullMethod, NoAdapter, WildCall, NoDepList,
                EnterLoop, CallDep, DepUnknown, DepBuilt, DepFailed, BootstrapFails,
                BootstrapHalts, Answer, ReturnFromCall, Halt, InMarket
<1>2. CASE Bootstrap
    <2>1. stack # <<>> /\ TypeOK
        BY <1>2 DEF Inv, TypeOK, Bootstrap
    <2>2. FrameOK(top) /\ top.key \in Key
        BY <2>1, TopInStack DEF Inv, StackInv, top
    <2>3. \A k \in Key : InMarket(k) => market'[k] = market[k]
        BY <1>2, <2>1, <2>2 DEF Bootstrap, FrameOK, TypeOK, InMarket
    <2>4. QED
        BY <2>3 DEF InMarket
<1>3. QED
    BY <1>1, <1>2

\* A build does not change what it is for until it answers.
LEMMA BuildServes ==
    ASSUME Inv, Build, pc' # "idle"
    PROVE  Served' = Served /\ pc # "idle" /\ UNCHANGED <<config, depFn>>
<1>1. ~Answer
    BY DEF Answer
<1>2. pc # "idle" /\ UNCHANGED <<config, depFn>>
    BY DEF Build, Overflow, Found, NullMethod, NoAdapter, WildCall, NoDepList,
           EnterLoop, CallDep, DepUnknown, DepBuilt, DepFailed, Bootstrap, BootstrapFails,
           BootstrapHalts, Answer, ReturnFromCall, Halt, client
<1>3. CASE Bootstrap
    <2>1. TypeOK /\ stack # <<>> /\ Pop(gen + 1)
        BY <1>3 DEF Inv, TypeOK, Bootstrap
    <2>2. QED
        BY <1>2, <2>1, PopServes
<1>4. CASE ~Bootstrap
    BY <1>1, <1>2, <1>4, StutterStep
<1>5. QED
    BY <1>3, <1>4

\* What it returns is the curve the market has, and the one of before if there
\* was one.
LEMMA BuildReturns ==
    ASSUME Inv, Build, BeforeKept, Returning, UNCHANGED before
    PROVE  Returning'
<1> USE DEF client
<1>1. TypeOK /\ StackInv
    BY DEF Inv
<1>2. CASE Overflow \/ NullMethod \/ WildCall \/ EnterLoop \/ CallDep \/ DepBuilt
           \/ BootstrapHalts \/ Answer
    BY <1>2 DEF Overflow, NullMethod, WildCall, EnterLoop, CallDep, DepBuilt, BootstrapHalts,
                Answer, Halt, Halts, Returning
<1>3. CASE Found
    BY <1>3 DEF Found, ReturnFromCall, Returning, BeforeKept
<1>4. CASE NoAdapter \/ NoDepList
    BY <1>4 DEF NoAdapter, NoDepList, ReturnFromCall, Returning, BeforeKept
<1>5. CASE DepUnknown \/ DepFailed \/ Bootstrap \/ BootstrapFails
    <2>1. stack # <<>>
        BY <1>1, <1>5 DEF DepUnknown, DepFailed, Bootstrap, BootstrapFails, TypeOK
    <2>2. top.key \in Key /\ FrameOK(top)
        BY <1>1, <2>1, TopInStack DEF StackInv, top
    <2>3. top.key \notin DOMAIN before
        BY <2>2 DEF FrameOK, BeforeKept
    <2>4. arg' = top.key /\ arg' \notin DOMAIN before'
        BY <1>5, <2>3 DEF DepUnknown, DepFailed, Bootstrap, BootstrapFails, Pop
    <2>5. CASE DepUnknown \/ DepFailed \/ BootstrapFails
        BY <2>4, <2>5 DEF DepUnknown, DepFailed, BootstrapFails, Pop, Returning
    <2>6. CASE Bootstrap
        <3>1. market'[top.key] = NewCurve(top.key) /\ val' = gen + 1
            BY <1>1, <2>2, <2>6 DEF Bootstrap, Pop, TypeOK
        <3>2. QED
            BY <2>4, <3>1 DEF NewCurve, Returning
    <2>7. QED
        BY <1>5, <2>5, <2>6
<1>6. QED
    BY <1>2, <1>3, <1>4, <1>5 DEF Build

\* The requirements of a trade are a list of needs.
LEMMA InOrderType == ASSUME NEW t \in Trades PROVE InOrder(t) \in Seq(Need)
<1>1. t["yield"] \in Seq(Use) /\ t["forward"] \in Seq(Use) /\ t["cds"] \in Seq(Use)
    BY TradesAssumption DEF Types
<1>2. /\ [i \in 1..Len(t["yield"]) |-> <<"yield", t["yield"][i]>>] \in Seq(Need)
      /\ [i \in 1..Len(t["forward"]) |-> <<"forward", t["forward"][i]>>] \in Seq(Need)
      /\ [i \in 1..Len(t["cds"]) |-> <<"cds", t["cds"][i]>>] \in Seq(Need)
    BY <1>1 DEF Need, Types
<1>3. QED
    BY <1>2 DEF InOrder
-----------------------------------------------------------------------------
\* The invariant.

\* A need that is configured is for a curve of the engine.
LEMMA CurveForKey ==
    ASSUME Shape, NEW n \in Need, Configured(n)
    PROVE  CurveFor(n) \in Key
BY DEF Shape, Need, Configured, CurveFor, Key

LEMMA NeedAt == ASSUME Shape, NEW i \in 1..Len(needs) PROVE needs[i] \in Need
BY DEF Shape

LEMMA InitPInv == PricingInit => PInv
<1> SUFFICES ASSUME PricingInit PROVE PInv
    OBVIOUS
<1>1. Inv
    BY InitInv DEF PricingInit
<1>2. Shape
    BY DEF PricingInit, NoTrade, Shape, Init, Nothing
<1>3. QED
    BY <1>1, <1>2 DEF PInv, PricingInit, NoTrade

\* Nothing of the engine changes.
LEMMA Same ==
    ASSUME UNCHANGED vars
    PROVE  /\ Inv => Inv'
           /\ \A k : Cfg(k)' = Cfg(k) /\ InMarket(k)' = InMarket(k)
           /\ Served' = Served
<1>1. Inv => Inv'
    BY InvNext
<1>2. QED
    BY <1>1 DEF vars, Cfg, InMarket, Served

\* Between trades the application does what it wants.
LEMMA PrepareKeeps == ASSUME PInv, Prepare PROVE PInv'
<1>1. Inv'
    BY ClientInv DEF PInv, Prepare
<1>2. Shape'
    BY DEF PInv, Shape, Prepare, Idle
<1>3. QED
    BY <1>1, <1>2 DEF PInv, Prepare

LEMMA MapKeeps == ASSUME PInv, NEW m \in Maps, MapCurve(m[1], m[2]) PROVE PInv'
<1>1. Inv'
    BY Same DEF PInv, MapCurve
<1>2. m[1] \in Use /\ m[2] \in Id
    BY MapsAssumption
<1>3. mapping' \in [Use -> Id \cup {None}]
    BY <1>2 DEF PInv, Shape, MapCurve
<1>4. Shape'
    BY <1>3 DEF PInv, Shape, MapCurve, vars
<1>5. QED
    BY <1>1, <1>4 DEF PInv, MapCurve

\* A trade comes: nothing is cached, what there is is what there was.
LEMMA ValueKeeps == ASSUME PInv, NEW t \in Trades, ValueTrade(t) PROVE PInv'
<1>1. Inv'
    BY Same DEF PInv, ValueTrade
<1>2. needs' \in Seq(Need)
    BY InOrderType DEF ValueTrade
<1>3. Shape'
    BY <1>2 DEF PInv, Shape, ValueTrade, Nothing
<1>4. pc' = "idle"
    BY DEF ValueTrade, Idle, vars
<1>5. CacheAlive'
    BY DEF CacheAlive, ValueTrade, Nothing
<1>6. BeforeKept'
    <2>1. \A k : InMarket(k)' = InMarket(k) /\ market' = market
        BY DEF InMarket, ValueTrade, vars
    <2>2. QED
        BY <2>1 DEF BeforeKept, ValueTrade, Present
<1>7. PastServed'
    BY DEF PastServed, ValueTrade
<1>8. QED
    BY <1>1, <1>3, <1>4, <1>5, <1>6, <1>7 DEF PInv, BuildsNeed, Returning

\* Steps that leave the market, the configurations, the cache and the trade alone.
LEMMA SameTrade ==
    ASSUME UNCHANGED <<config, market, mapping, needs, cache, before>>
    PROVE  /\ CacheAlive' = CacheAlive /\ BeforeKept' = BeforeKept
           /\ \A n : /\ Configured(n)' = Configured(n) /\ CurveFor(n)' = CurveFor(n)
                     /\ Had(n)' = Had(n) /\ Holds(n)' = Holds(n)
<1>1. \A k : Cfg(k)' = Cfg(k) /\ InMarket(k)' = InMarket(k)
    BY DEF Cfg, InMarket
<1>2. \A n : CurveFor(n)' = CurveFor(n)
    BY DEF CurveFor
<1>3. \A n : Configured(n)' = Configured(n)
    BY <1>1, <1>2 DEF Configured
<1>4. CacheAlive' = CacheAlive
    BY <1>1, <1>2 DEF CacheAlive
<1>5. BeforeKept' = BeforeKept
    BY <1>1 DEF BeforeKept
<1>6. QED
    BY <1>2, <1>3, <1>4, <1>5 DEF Had, Holds

LEMMA PassOverKeeps == ASSUME PInv, PassOver PROVE PInv'
<1>1. Inv'
    BY Same DEF PInv, PassOver
<1>2. Shape'
    BY DEF PInv, Shape, PassOver, More, vars
<1>3. pc' = "idle" /\ phase # "none"
    BY DEF PassOver, More, Idle, vars
<1>4. UNCHANGED <<config, market, mapping, needs, cache, before>>
    BY DEF PassOver, vars
<1>5. CacheAlive' /\ BeforeKept'
    BY <1>3, <1>4, SameTrade DEF PInv
<1>6. PastServed'
    <2>1. SUFFICES ASSUME NEW i \in 1..Len(needs), i < at', Had(needs[i]) PROVE Holds(needs[i])
        BY <1>4, SameTrade DEF PastServed
    <2>2. i # at
        BY <2>1 DEF PassOver, Had
    <2>3. i < at
        BY <2>1, <2>2 DEF PassOver, PInv, Shape
    <2>4. QED
        BY <1>3, <2>1, <2>3 DEF PInv, PastServed
<1>7. QED
    BY <1>1, <1>2, <1>3, <1>5, <1>6 DEF PInv, BuildsNeed, Returning

LEMMA AskKeeps == ASSUME PInv, AskEngine PROVE PInv'
<1>1. at \in 1..Len(needs) /\ Configured(needs[at]) /\ phase = "building"
    BY DEF PInv, Shape, AskEngine, More
<1>2. CurveFor(needs[at]) \in Key
    BY <1>1, NeedAt, CurveForKey DEF PInv
<1>3. Inv'
    BY <1>2, ClientInv DEF PInv, AskEngine, Application
<1>4. Shape'
    BY DEF PInv, Shape, AskEngine, pricing, More
<1>5. UNCHANGED <<config, market, mapping, needs, cache, before, at, phase>>
    BY DEF AskEngine, pricing, Request, client
<1>6. CacheAlive' /\ BeforeKept' /\ PastServed'
    BY <1>1, <1>5, SameTrade DEF PInv, PastServed
<1>7. pc' = "call" /\ arg' = CurveFor(needs[at]) /\ stack' = <<>>
    BY DEF AskEngine, Request, Idle, PInv, Inv, TypeOK
<1>8. BuildsNeed'
    BY <1>1, <1>5, <1>7, SameTrade DEF BuildsNeed, Served
<1>9. QED
    BY <1>3, <1>4, <1>6, <1>7, <1>8 DEF PInv, Returning

\* While the engine builds, the cache's curves stay where they are.
LEMMA EngineKeeps == ASSUME PInv, EngineStep PROVE PInv'
<1>1. Inv /\ Build /\ pc' # "idle" /\ phase = "building" /\ UNCHANGED pricing
    BY DEF PInv, EngineStep, Idle
<1>2. Inv'
    BY <1>1, BuildInv
<1>3. Shape'
    BY <1>1 DEF PInv, Shape, pricing
<1>4. Served' = Served /\ pc # "idle" /\ UNCHANGED <<config, depFn>>
    BY <1>1, BuildServes
<1>5. \A k \in Key : InMarket(k) => market'[k] = market[k] /\ InMarket(k)'
    BY <1>1, BuildKeeps
<1>6. /\ CacheAlive /\ BeforeKept /\ PastServed /\ BuildsNeed /\ Returning
    BY <1>1 DEF PInv
<1>7. /\ \A n : Configured(n)' = Configured(n) /\ CurveFor(n)' = CurveFor(n)
      /\ \A n : Had(n)' = Had(n) /\ Holds(n)' = Holds(n)
    BY <1>1, <1>4 DEF Configured, CurveFor, Had, Holds, Cfg, pricing
<1>8. UNCHANGED <<needs, at, cache, before>>
    BY <1>1 DEF pricing
<1>9. CacheAlive'
    <2>1. \A n \in DOMAIN cache : cache[n][1] \in Key
        BY DEF PInv, Shape
    <2>2. QED
        BY <1>5, <1>6, <1>7, <1>8, <2>1 DEF CacheAlive
<1>10. BeforeKept'
    BY <1>5, <1>6, <1>8 DEF BeforeKept
<1>11. PastServed' /\ BuildsNeed'
    BY <1>4, <1>6, <1>7, <1>8 DEF PastServed, BuildsNeed
<1>12. Returning'
    BY <1>1, <1>6, <1>8, BuildReturns
<1>13. QED
    BY <1>2, <1>3, <1>9, <1>10, <1>11, <1>12 DEF PInv

\* The curve that the engine returns is put into the cache.
LEMMA KeepKeeps == ASSUME PInv, Keep PROVE PInv'
<1> DEFINE n == needs[at]
           k == CurveFor(n)
<1>1. /\ Inv /\ Shape /\ Answer /\ phase = "building" /\ pc = "ret" /\ stack = <<>>
      /\ CacheAlive /\ BeforeKept /\ PastServed /\ BuildsNeed /\ Returning
    BY DEF PInv, Keep, Answer
<1>2. Inv'
    BY <1>1, AnswerInv
<1>3. /\ UNCHANGED <<config, market, mapping, needs, before, phase>> /\ at' = at + 1
      /\ cache' = IF val = 0 THEN cache ELSE Put(cache, n, <<arg, val>>)
      /\ pc' = "idle"
    BY DEF Keep, Answer, client
<1>4. at \in 1..Len(needs) /\ Configured(n) /\ arg = k /\ k \in Key
    BY <1>1, NeedAt, CurveForKey DEF BuildsNeed, Served
<1>5. val # 0 => InMarket(k) /\ market[k].gen = val
    BY <1>1, <1>4 DEF Inv, StackInv, Returning
<1>6. k \in DOMAIN before => val = before[k] /\ val # 0
    <2>1. k \in DOMAIN before => market[k] \in Curve /\ market[k].gen = before[k]
        BY <1>1, <1>4 DEF BeforeKept, Inv, TypeOK, InMarket
    <2>2. k \in DOMAIN before => before[k] # 0
        BY <2>1 DEF Curve
    <2>3. QED
        BY <1>1, <1>4, <2>2 DEF Returning
<1> HIDE DEF k
<1>7. \A m \in DOMAIN cache' :
         cache'[m] = IF val # 0 /\ m = n THEN <<k, val>> ELSE cache[m]
    BY <1>3, <1>4 DEF Put
<1>8. \A m \in DOMAIN cache' : (val # 0 /\ m = n) \/ m \in DOMAIN cache
    BY <1>3 DEF Put
<1>9. /\ DOMAIN cache \subseteq DOMAIN cache'
      /\ val # 0 => n \in DOMAIN cache'
    BY <1>3 DEF Put
<1>10. \A m : /\ CurveFor(m)' = CurveFor(m) /\ Configured(m)' = Configured(m)
              /\ InMarket(m)' = InMarket(m) /\ Had(m)' = Had(m)
    BY <1>3 DEF CurveFor, Configured, InMarket, Cfg, Had
<1>11. Shape'
    <2>1. \A m \in DOMAIN cache' : cache'[m][1] \in Key
        BY <1>1, <1>4, <1>7, <1>8 DEF Shape
    <2>2. QED
        BY <1>1, <1>3, <2>1 DEF Shape
<1>12. CacheAlive'
    <2>1. SUFFICES ASSUME NEW m \in DOMAIN cache'
                   PROVE  LET j == cache'[m][1] IN
                          j = CurveFor(m) /\ InMarket(j) /\ market[j].gen = cache'[m][2]
        BY <1>3, <1>10 DEF CacheAlive
    <2>2. CASE val # 0 /\ m = n
        BY <1>5, <1>7, <2>2 DEF k
    <2>3. CASE ~(val # 0 /\ m = n)
        BY <1>1, <1>7, <1>8, <2>3 DEF CacheAlive
    <2>4. QED
        BY <2>2, <2>3
<1>13. BeforeKept'
    BY <1>1, <1>3, <1>10 DEF BeforeKept
<1>14. PastServed'
    <2>1. SUFFICES ASSUME NEW i \in 1..Len(needs), i < at + 1, Had(needs[i])
                   PROVE  /\ needs[i] \in DOMAIN cache'
                          /\ cache'[needs[i]] = <<CurveFor(needs[i]), before[CurveFor(needs[i])]>>
        BY <1>3, <1>10 DEF PastServed, Holds
    <2>2. CASE needs[i] = n
        BY <1>6, <1>7, <1>9, <2>1, <2>2 DEF Had, k
    <2>3. CASE needs[i] # n
        <3>1. i < at
            BY <1>1, <2>1, <2>3 DEF Shape
        <3>2. Holds(needs[i])
            BY <1>1, <2>1, <3>1 DEF PastServed
        <3>3. QED
            BY <1>7, <1>9, <2>3, <3>2 DEF Holds
    <2>4. QED
        BY <2>2, <2>3
<1>15. QED
    BY <1>2, <1>3, <1>11, <1>12, <1>13, <1>14 DEF PInv, BuildsNeed, Returning

LEMMA CallKeeps == ASSUME PInv, CallAdapter PROVE PInv'
<1>1. Inv'
    BY Same DEF PInv, CallAdapter
<1>2. Shape' /\ pc' = "idle"
    BY DEF PInv, Shape, CallAdapter, Idle, vars
<1>3. UNCHANGED <<config, market, mapping, needs, cache, before, at>>
    BY DEF CallAdapter, vars
<1>4. CacheAlive' /\ BeforeKept' /\ PastServed'
    BY <1>3, SameTrade DEF PInv, PastServed, CallAdapter
<1>5. QED
    BY <1>1, <1>2, <1>4 DEF PInv, BuildsNeed, Returning

LEMMA PriceKeeps == ASSUME PInv, Price PROVE PInv'
<1>1. Inv'
    BY Same DEF PInv, Price
<1>2. Shape'
    BY DEF PInv, Shape, Price, vars, Nothing
<1>3. QED
    BY <1>1, <1>2 DEF PInv, Price

LEMMA PNext == PInv /\ [PricingNext]_<<vars, pricing>> => PInv'
<1> SUFFICES ASSUME PInv, [PricingNext]_<<vars, pricing>> PROVE PInv'
    OBVIOUS
<1>1. CASE UNCHANGED <<vars, pricing>>
    <2>1. Inv'
        BY <1>1, Same DEF PInv
    <2>2. UNCHANGED <<config, market, mapping, needs, cache, before, at, phase, pc, val, arg, stack>>
        BY <1>1 DEF vars, pricing
    <2>3. Shape'
        BY <2>2 DEF PInv, Shape
    <2>4. phase # "none" => CacheAlive' /\ BeforeKept' /\ PastServed'
        BY <2>2, SameTrade DEF PInv, PastServed
    <2>5. phase # "none" => BuildsNeed' /\ Returning'
        BY <2>2, SameTrade DEF PInv, BuildsNeed, Returning, Served
    <2>6. QED
        BY <2>1, <2>2, <2>3, <2>4, <2>5 DEF PInv
<1>2. QED
    BY <1>1, PrepareKeeps, PassOverKeeps, AskKeeps, EngineKeeps, KeepKeeps, CallKeeps,
       PriceKeeps, MapKeeps, ValueKeeps DEF PricingNext
-----------------------------------------------------------------------------
\* The theorems.

\* The inductive invariant of pricing trades over the engine.
THEOREM Pricing == PricingSpec => []PInv
<1>1. PricingInit => PInv
    BY InitPInv
<1>2. PInv /\ [PricingNext]_<<vars, pricing>> => PInv'
    BY PNext
<1>3. QED
    BY <1>1, <1>2, PTL DEF PricingSpec

\* Whatever the later needs of a trade make the engine build, the cache it is
\* priced from has no pointer to a freed curve, and every need for which the
\* market had a curve has that curve (rq_pricing_helper_value_trade).
THEOREM MarketPrices == PricingSpec => []PricedFromMarket
<1>1. ASSUME PInv PROVE PricedFromMarket
    <2>1. SUFFICES ASSUME phase = "pricing" PROVE CacheAlive /\ CacheHasOld
        BY DEF PricedFromMarket
    <2>2. CacheAlive /\ PastServed /\ Shape
        BY <1>1, <2>1 DEF PInv
    <2>3. DOMAIN needs = 1..Len(needs) /\ at > Len(needs) /\ at \in Nat
        BY <2>1, <2>2 DEF Shape
    <2>4. \A i \in DOMAIN needs : Had(needs[i]) => Holds(needs[i])
        BY <2>2, <2>3 DEF PastServed, Shape
    <2>5. CacheHasOld
        BY <2>4 DEF CacheHasOld, Had, Holds
    <2>6. QED
        BY <2>2, <2>5
<1>2. QED
    BY <1>1, Pricing, PTL
-----------------------------------------------------------------------------
(***************************************************************************)
(* A trade is priced again: what was missing is missing for good.          *)
(***************************************************************************)

\* The recursion down the spread curves, as a function of the configurations.
BaseIn(c, k) ==
    LET on(l) == /\ c[l].method = "spread" /\ c[l].id1 # None
                 /\ c[Yield(c[l].id1)] # None
        layer[n \in 0..Cardinality(Id)] ==
            IF n = 0 THEN k
            ELSE LET l == layer[n-1]
                 IN IF on(l) THEN Yield(c[l].id1) ELSE l
    IN layer[Cardinality(Id)]

\* Why a curve cannot be made whatever there is in the market.
Hopeless(k) ==
    /\ Cfg(k) # None
    /\ LET c == Cfg(k) IN
       \/ AdapterOf(k) \notin Adapter
       \/ ListFails(k)
       \/ \E d \in DepSet(k) : Cfg(d) = None
       \/ c.method = "simple" /\ ~HasRates(k)
       \/ c.method = "spread" /\ Cfg(BaseIn(config, k)).method = "spread"
       \/ c.method = "bbi" /\ ~HasCashRates(k)
       \/ /\ c.method = "cds" /\ ~Undeclared(k)
          /\ quote[k] # "survival" /\ (quote[k] = "none" \/ c.id1 = None)

\* Curves that are missing and stay so: each cannot be made, or declares another.
StuckWith(S) ==
    \A s \in S : /\ ~InMarket(s) /\ Cfg(s) # None
                 /\ Hopeless(s) \/ \E d \in DepSet(s) : d \in S
Stuck(k) == \E S \in SUBSET Key : k \in S /\ StuckWith(S)

\* All of this is a matter of the configurations and the rates.
LEMMA SameHope ==
    ASSUME UNCHANGED <<config, quote, depFn>>, NEW k
    PROVE  /\ Cfg(k)' = Cfg(k) /\ DepSet(k)' = DepSet(k) /\ Hopeless(k)' = Hopeless(k)
           /\ AllDeclared(k)' = AllDeclared(k) /\ AdapterOf(k)' = AdapterOf(k)
<1>1. \A d : Cfg(d)' = Cfg(d) /\ AdapterOf(d)' = AdapterOf(d) /\ ListFails(d)' = ListFails(d)
             /\ DepList(d)' = DepList(d)
    BY SameLists
<1>2. \A d : DepSet(d)' = DepSet(d) /\ DepFn(d)' = DepFn(d)
    BY <1>1 DEF DepSet, DepFn
<1>3. \A d : Undeclared(d)' = Undeclared(d)
    BY <1>1, <1>2 DEF Undeclared
<1>4. BaseIn(config, k)' = BaseIn(config, k)
    <2> HIDE DEF BaseIn
    <2>1. QED
        OBVIOUS
<1>5. HasRates(k)' = HasRates(k) /\ HasCashRates(k)' = HasCashRates(k)
    BY <1>1 DEF HasRates, HasCashRates
<1>6. Hopeless(k)' = Hopeless(k)
    BY <1>1, <1>2, <1>3, <1>4, <1>5 DEF Hopeless
<1>7. Needs' = Needs
    BY <1>1, <1>2 DEF Needs
<1>8. AllDeclared(k)' = AllDeclared(k)
    BY <1>1, <1>3, <1>7 DEF AllDeclared
<1>9. QED
    BY <1>1, <1>2, <1>6, <1>8

\* Stuck curves stay stuck as long as none of them is made.
LEMMA StuckKept ==
    ASSUME UNCHANGED <<config, quote, depFn>>, NEW S \in SUBSET Key, StuckWith(S),
           \A s \in S : ~InMarket(s)'
    PROVE  StuckWith(S)'
BY SameHope DEF StuckWith

\* A cds curve that declares what it takes is made if its quotes are there.
LEMMA PlainCds ==
    ASSUME IsFiniteSet(Id), NEW k \in Key, Cfg(k).method = "cds", ~Undeclared(k), NEW have
    PROVE  LET n == CdsNet(k, have)
           IN /\ n.given \/ (n.net /\ n.base) <=> \/ quote[k] = "survival"
                                                 \/ /\ quote[k] # "none" /\ Cfg(k).id1 # None
                                                    /\ Yield(Cfg(k).id1) \in have
              /\ ~n.endless
<1> DEFINE N == Cardinality(Id)
           more(c) == /\ quote[c] # "survival" /\ Cfg(c).id1 # None
                      /\ Yield(Cfg(c).id1) \notin have
                      /\ Cfg(Cds(Cfg(c).id1)) # None
           l0 == [at |-> k, net |-> quote[k] # "none"]
           IsIt(f) == f = [n \in 0..N |->
                         IF n = 0 THEN l0
                         ELSE LET l == f[n-1]
                                  below == Cds(Cfg(l.at).id1)
                              IN IF more(l.at)
                                 THEN [at |-> below, net |-> l.net \/ quote[below] # "none"]
                                 ELSE l]
           it == CHOOSE f : IsIt(f)
           end == it[N]
<1>1. N \in Nat
    BY FS_CardinalityType
<1>2. ~more(k)
    BY DEF Undeclared
<1>3. CdsNet(k, have) = [net |-> end.net, endless |-> more(end.at),
                         given |-> quote[end.at] = "survival",
                         base |-> Cfg(end.at).id1 # None /\ Yield(Cfg(end.at).id1) \in have]
    BY DEF CdsNet
<1> HIDE DEF more
<1>4. IsIt([n \in 0..N |-> l0])
    BY <1>1, <1>2
<1>5. IsIt(it)
    <2> HIDE DEF IsIt
    <2>1. QED
        BY <1>4
<1> HIDE DEF it
<1>6. it[0] = l0 /\ \A n \in 1..N : it[n-1] = l0 => it[n] = l0
    BY <1>1, <1>2, <1>5
<1> DEFINE S == {n \in 0..N : it[n] = l0}
<1>7. 0..N \subseteq S
    <2>1. 0 \in S /\ \A n \in 1..N : n - 1 \in S => n \in S
        BY <1>1, <1>6
    <2> HIDE DEF S
    <2>2. QED
        BY <1>1, <2>1, Upwards
<1>8. end = l0
    BY <1>1, <1>7
<1> HIDE DEF end
<1>9. CdsNet(k, have).net = (quote[k] # "none") /\ CdsNet(k, have).given = (quote[k] = "survival")
      /\ CdsNet(k, have).base = (Cfg(k).id1 # None /\ Yield(Cfg(k).id1) \in have)
      /\ CdsNet(k, have).endless = more(k)
    BY <1>3, <1>8
<1>10. QED
    BY <1>2, <1>9

\* A hopeless curve cannot be made.
LEMMA HopelessFails ==
    ASSUME IsFiniteSet(Id), NEW k \in Key, Cfg(k) # None, AdapterOf(k) \in Adapter,
           \A d \in DepSet(k) : Cfg(d) # None, Hopeless(k)
    PROVE  ~Bootstraps(k)
<1> DEFINE c == Cfg(k)
<1>1. c.method \in {"simple", "composite", "spread", "bbi", "crossccy", "cds"}
    BY DEF AdapterOf, Adapter
<1>2. CASE ListFails(k)
    BY <1>1, <1>2 DEF ListFails, Bootstraps, HasBoth, HasCashRates
<1>3. CASE c.method = "simple" /\ ~HasRates(k)
    BY <1>3 DEF Bootstraps
<1>4. CASE c.method = "spread" /\ Cfg(BaseIn(config, k)).method = "spread"
    <2>1. SpreadBase(k) = BaseIn(config, k)
        BY DEF SpreadBase, BaseIn, OnSpread, Cfg
    <2>2. QED
        BY <1>4, <2>1 DEF Bootstraps
<1>5. CASE c.method = "bbi" /\ ~HasCashRates(k)
    BY <1>5 DEF Bootstraps
<1>6. CASE /\ c.method = "cds" /\ ~Undeclared(k)
           /\ quote[k] # "survival" /\ (quote[k] = "none" \/ c.id1 = None)
    BY <1>6, PlainCds DEF Bootstraps, HasSpreads
<1>7. QED
    BY <1>2, <1>3, <1>4, <1>5, <1>6 DEF Hopeless

\* A curve that cannot be made though all that it declares is there is hopeless.
LEMMA FailsHopeless ==
    ASSUME IsFiniteSet(Id), NEW k \in Key, Cfg(k) # None, AdapterOf(k) \in Adapter,
           ~Undeclared(k), \A d \in DepSet(k) : d \in Key /\ InMarket(d), ~Bootstraps(k)
    PROVE  Hopeless(k)
<1> DEFINE c == Cfg(k)
<1>1. c.method \in {"simple", "composite", "spread", "bbi", "cds"}
    BY DEF AdapterOf, Adapter, Undeclared
<1>2. CASE ListFails(k)
    BY <1>2 DEF Hopeless
<1>3. CASE c.method = "simple"
    BY <1>3 DEF Hopeless, Bootstraps
<1>4. CASE c.method = "spread"
    <2>1. SpreadBase(k) = BaseIn(config, k)
        BY DEF SpreadBase, BaseIn, OnSpread, Cfg
    <2>2. QED
        BY <1>4, <2>1 DEF Hopeless, Bootstraps
<1>5. CASE c.method = "bbi"
    BY <1>5 DEF Hopeless, Bootstraps
<1>6. CASE c.method = "composite" /\ ~ListFails(k)
    <2>1. DepFn(k) = "own" /\ c.id1 # None /\ c.id2 # None
        BY <1>6 DEF Undeclared, ListFails
    <2>2. DepList(k) = <<Yield(c.id1), Yield(c.id2)>>
        BY <1>6, <2>1 DEF DepList
    <2>3. Yield(c.id1) \in DepSet(k) /\ Yield(c.id2) \in DepSet(k)
        BY <2>2 DEF DepSet
    <2>4. QED
        BY <1>6, <2>1, <2>3 DEF Bootstraps, HasBoth
<1>7. CASE c.method = "cds" /\ ~ListFails(k)
    <2>1. c.id1 # None => Yield(c.id1) \in Present
        <3>1. SUFFICES ASSUME c.id1 # None PROVE Yield(c.id1) \in Present
            OBVIOUS
        <3>2. DepList(k) = <<Yield(c.id1)>>
            BY <1>7, <3>1 DEF DepList, Undeclared
        <3>3. Yield(c.id1) \in DepSet(k)
            BY <3>2 DEF DepSet
        <3>4. QED
            BY <3>3 DEF Present
    <2>2. ~HasSpreads(k)
        BY <1>7 DEF Bootstraps
    <2>3. QED
        BY <1>7, <2>1, <2>2, PlainCds DEF Hopeless, HasSpreads
<1>8. QED
    BY <1>1, <1>2, <1>3, <1>4, <1>5, <1>6, <1>7

\* While curves are built: those the engine is past have configurations, and one
\* that it returns NULL for is missing for good, unless it takes curves that it
\* does not declare.
Waiting ==
    /\ pc = "ret" => Cfg(arg) # None
    /\ \A i \in 1..Len(stack) : \A j \in 1..(stack[i].iter - 1) : Cfg(stack[i].deps[j]) # None
    /\ pc = "ret" /\ val = 0 /\ AllDeclared(arg) => Stuck(arg)

\* What the activation on top has when its loop is over.
LEMMA LoopIsDone ==
    ASSUME Inv, Waiting, LoopDone
    PROVE  /\ stack # <<>> /\ top.key \in Key /\ Cfg(top.key) # None
           /\ AdapterOf(top.key) \in Adapter /\ ~InMarket(top.key)
           /\ \A d \in DepSet(top.key) : d \in Key /\ InMarket(d) /\ Cfg(d) # None
<1>1. TypeOK /\ StackInv /\ stack # <<>>
    BY DEF Inv, TypeOK
<1>2. /\ top \in Frame /\ top.key \in Key /\ FrameOK(top)
      /\ Cfg(top.key) # None /\ AdapterOf(top.key) \in Adapter
    BY <1>1, TopInStack DEF StackInv, top
<1>3. top.deps = DepList(top.key) /\ top.deps \in Seq(Key) /\ top.iter > Len(top.deps)
    BY <1>2 DEF FrameOK, Frame
<1>4. ASSUME NEW d \in DepSet(top.key) PROVE d \in Key /\ InMarket(d) /\ Cfg(d) # None
    <2>1. PICK i \in 1..Len(top.deps) : d = top.deps[i]
        BY <1>3 DEF DepSet
    <2>2. i \in 1..(top.iter - 1)
        <3>1. top.iter \in Nat /\ Len(top.deps) \in Nat
            BY <1>2, <1>3 DEF Frame
        <3>2. QED
            BY <1>3, <3>1
    <2>3. Len(stack) \in 1..Len(stack)
        BY <1>1, TopInStack
    <2>4. QED
        BY <1>2, <1>3, <2>1, <2>2, <2>3 DEF FrameOK, Waiting, top
<1>5. QED
    BY <1>1, <1>2, <1>4 DEF FrameOK

\* No step of a build makes a curve that is stuck.
LEMMA StuckStays ==
    ASSUME IsFiniteSet(Id), Inv, Waiting, Build
    PROVE  /\ UNCHANGED <<config, quote, depFn>>
           /\ \A k : Stuck(k) => Stuck(k)'
<1>1. UNCHANGED <<config, quote, depFn>>
    BY DEF Build, Overflow, Found, NullMethod, NoAdapter, WildCall, NoDepList, EnterLoop,
           CallDep, DepUnknown, DepBuilt, DepFailed, Bootstrap, BootstrapFails,
           BootstrapHalts, Answer, ReturnFromCall, Halt, client
<1>2. ASSUME NEW S \in SUBSET Key, StuckWith(S) PROVE \A s \in S : ~InMarket(s)'
    <2>1. CASE ~Bootstrap
        <3>1. UNCHANGED market
            BY <2>1 DEF Build, Overflow, Found, NullMethod, NoAdapter, WildCall, NoDepList,
                   EnterLoop, CallDep, DepUnknown, DepBuilt, DepFailed, BootstrapFails,
                   BootstrapHalts, Answer, ReturnFromCall, Halt
        <3>2. QED
            BY <1>2, <3>1 DEF StuckWith, InMarket
    <2>2. CASE Bootstrap
        <3>1. LoopDone /\ Bootstraps(top.key)
            BY <2>2 DEF Bootstrap
        <3>2. /\ top.key \in Key /\ Cfg(top.key) # None /\ AdapterOf(top.key) \in Adapter
              /\ \A d \in DepSet(top.key) : d \in Key /\ InMarket(d) /\ Cfg(d) # None
            BY <3>1, LoopIsDone
        <3>3. ~Hopeless(top.key)
            BY <3>1, <3>2, HopelessFails
        <3>4. top.key \notin S
            BY <1>2, <3>2, <3>3 DEF StuckWith
        <3>5. \A s \in S : market'[s] = market[s]
            BY <2>2, <3>4 DEF Bootstrap, Inv, TypeOK
        <3>6. QED
            BY <1>2, <3>5 DEF StuckWith, InMarket
    <2>3. QED
        BY <2>1, <2>2
<1>3. ASSUME NEW k, Stuck(k) PROVE Stuck(k)'
    <2>1. PICK S \in SUBSET Key : k \in S /\ StuckWith(S)
        BY <1>3 DEF Stuck
    <2>2. StuckWith(S)'
        BY <1>1, <1>2, <2>1, StuckKept
    <2>3. QED
        BY <2>1, <2>2 DEF Stuck
<1>4. QED
    BY <1>1, <1>3

\* A missing curve is stuck if it is hopeless, or declares one that is stuck.
LEMMA StuckBy ==
    ASSUME NEW k \in Key, ~InMarket(k), Cfg(k) # None,
           Hopeless(k) \/ \E d \in DepSet(k) : Stuck(d)
    PROVE  Stuck(k)
<1>1. CASE Hopeless(k)
    <2>1. StuckWith({k})
        BY <1>1 DEF StuckWith
    <2>2. QED
        BY <2>1 DEF Stuck
<1>2. CASE \E d \in DepSet(k) : Stuck(d)
    <2>1. PICK d \in DepSet(k) : Stuck(d)
        BY <1>2
    <2>2. PICK S \in SUBSET Key : d \in S /\ StuckWith(S)
        BY <2>1 DEF Stuck
    <2>3. StuckWith(S \cup {k})
        BY <2>1, <2>2 DEF StuckWith
    <2>4. QED
        BY <2>3 DEF Stuck
<1>3. QED
    BY <1>1, <1>2

\* All that is declared of a curve is declared of those it declares.
LEMMA DeclaredDown ==
    ASSUME NEW k \in Key, Cfg(k) # None, AdapterOf(k) \in Adapter, AllDeclared(k)
    PROVE  ~Undeclared(k) /\ \A d \in DepSet(k) : AllDeclared(d)
<1>1. Needs[k] = DepSet(k)
    BY DEF Needs
<1>2. QED
    BY <1>1 DEF AllDeclared

\* Where the engine is in the declared list of the activation on top.
LEMMA TopDep ==
    ASSUME Inv, stack # <<>>
    PROVE  /\ top.key \in Key /\ Cfg(top.key) # None /\ AdapterOf(top.key) \in Adapter
           /\ ~InMarket(top.key)
           /\ InLoop => top.deps[top.iter] \in DepSet(top.key)
           /\ pc = "ret" => arg \in DepSet(top.key) /\ arg = top.deps[top.iter]
<1>1. TypeOK /\ StackInv
    BY DEF Inv
<1>2. /\ top \in Frame /\ top.key \in Key /\ FrameOK(top)
      /\ Cfg(top.key) # None /\ AdapterOf(top.key) \in Adapter
    BY <1>1, TopInStack DEF StackInv, top
<1>3. /\ top.deps = DepList(top.key) /\ top.deps \in Seq(Key) /\ top.iter \in Nat \ {0}
      /\ ~InMarket(top.key)
    BY <1>2 DEF FrameOK, Frame
<1>4. ASSUME top.iter <= Len(top.deps) PROVE top.deps[top.iter] \in DepSet(top.key)
    <2>1. top.iter \in DOMAIN DepList(top.key)
        BY <1>3, <1>4
    <2>2. QED
        BY <1>3, <2>1 DEF DepSet
<1>5. pc = "ret" => Awaits(top, arg)
    BY <1>1 DEF StackInv
<1>6. QED
    BY <1>2, <1>3, <1>4, <1>5 DEF Awaits

\* The activation on top returns.
LEMMA PopWaits ==
    ASSUME Inv, Waiting, stack # <<>>, UNCHANGED <<config, quote, depFn>>, NEW v, Pop(v),
           NEW k, k = top.key, v = 0 /\ AllDeclared(k) => Stuck(k)'
    PROVE  Waiting'
<1>1. TypeOK /\ stack \in Seq(Frame) /\ Len(stack) \in Nat \ {0}
    BY TopInStack DEF Inv, TypeOK
<1>2. /\ Len(stack') = Len(stack) - 1 /\ \A i \in 1..Len(stack') : stack'[i] = stack[i]
      /\ arg' = top.key /\ val' = v
    BY <1>1, PopSeq DEF Pop
<1>3. \A i \in 1..Len(stack') : i \in 1..Len(stack)
    BY <1>1, <1>2
<1>4. UNCHANGED config /\ AllDeclared(k)' = AllDeclared(k)
    BY SameHope
<1>5. Cfg(top.key) # None
    BY TopDep
<1>6. \A i \in 1..Len(stack') : \A j \in 1..(stack'[i].iter - 1) : Cfg(stack[i].deps[j])' # None
    BY <1>2, <1>3, <1>4 DEF Waiting, Cfg
<1>7. Cfg(arg)' # None
    BY <1>2, <1>4, <1>5 DEF Cfg
<1>a. val' = 0 /\ AllDeclared(arg)' => Stuck(arg)'
    <2>1. arg' = k
        BY <1>2
    <2>2. AllDeclared(arg)' = AllDeclared(k)' /\ Stuck(arg)' = Stuck(k)'
        BY <2>1 DEF AllDeclared, Stuck
    <2>3. QED
        BY <1>2, <1>4, <2>2
<1>8. QED
    BY <1>6, <1>7, <1>a DEF Waiting

\* A call returns without having been in the loop, or the stack stays otherwise.
LEMMA StayWaits ==
    ASSUME Inv, Waiting, UNCHANGED <<config, quote, depFn, stack, arg>>,
           pc' = "ret" => pc = "call",
           pc' = "ret" /\ val' = 0 => Stuck(arg)'
    PROVE  Waiting'
<1>1. \A k : Cfg(k)' = Cfg(k)
    BY SameHope
<1>2. pc = "call" => Cfg(arg) # None
    BY DEF Inv, TypeOK
<1>3. QED
    BY <1>1, <1>2 DEF Waiting

LEMMA WaitingNext ==
    ASSUME IsFiniteSet(Id), Inv, Waiting, [Next]_vars
    PROVE  Waiting'
<1>0. TypeOK /\ StackInv
    BY DEF Inv
<1>1. CASE UNCHANGED vars
    <2>1. UNCHANGED <<config, quote, depFn, market, stack, arg, val, pc>>
        BY <1>1 DEF vars
    <2>2. \A k : Cfg(k)' = Cfg(k) /\ AllDeclared(k)' = AllDeclared(k)
        BY <2>1, SameHope
    <2>3. \A S \in SUBSET Key : StuckWith(S) => StuckWith(S)'
        BY <2>1, StuckKept DEF StuckWith, InMarket
    <2>4. Stuck(arg) => Stuck(arg)'
        BY <2>1, <2>3 DEF Stuck
    <2>5. QED
        BY <2>1, <2>2, <2>4 DEF Waiting
<1>2. CASE Application
    <2>1. stack' = <<>> /\ pc' \in {"idle", "call"}
        BY <1>0, <1>2 DEF Application, AddConfig, AddRates, AddCurve, ClearMarket, CloneMarket,
               CloneAdapters, Request, TypeOK, Idle, engine
    <2>2. QED
        BY <2>1 DEF Waiting
<1>3. CASE Build
    <2>1. UNCHANGED <<config, quote, depFn>> /\ \A k : Stuck(k) => Stuck(k)'
        BY <1>3, StuckStays
    <2>2. CASE Overflow \/ NullMethod \/ WildCall \/ BootstrapHalts
        BY <2>1, <2>2, StayWaits DEF Overflow, NullMethod, WildCall, BootstrapHalts, Halt
    <2>3. CASE CallDep
        <3>1. UNCHANGED stack /\ pc' = "call"
            BY <2>3 DEF CallDep
        <3>2. \A k : Cfg(k)' = Cfg(k)
            BY <2>1, SameHope
        <3>3. QED
            BY <3>1, <3>2 DEF Waiting
    <2>4. CASE Found
        <3>1. UNCHANGED <<stack, arg>> /\ pc = "call" /\ pc' = "ret" /\ val' = market[arg].gen
            BY <2>4 DEF Found, ReturnFromCall
        <3>2. market[arg] \in Curve
            BY <1>0, <2>4 DEF Found, InMarket, TypeOK
        <3>3. val' # 0
            BY <3>1, <3>2 DEF Curve
        <3>4. QED
            BY <2>1, <3>1, <3>3, StayWaits
    <2>5. CASE NoAdapter \/ NoDepList
        <3>1. /\ UNCHANGED <<stack, arg>> /\ pc = "call" /\ pc' = "ret" /\ ~InMarket(arg)
              /\ AdapterOf(arg) \notin Adapter \/ ListFails(arg)
            BY <2>5 DEF NoAdapter, NoDepList, ReturnFromCall
        <3>2. arg \in Key /\ Cfg(arg) # None
            BY <1>0, <3>1 DEF TypeOK
        <3>3. Hopeless(arg)
            BY <3>1, <3>2 DEF Hopeless
        <3>4. Stuck(arg)
            BY <3>1, <3>2, <3>3, StuckBy
        <3>5. QED
            BY <2>1, <3>1, <3>4, StayWaits
    <2>6. CASE EnterLoop
        <3> DEFINE f == [key |-> arg, deps |-> DepList(arg), iter |-> 1]
        <3>1. stack' = Append(stack, f) /\ pc' = "loop" /\ stack \in Seq(Frame)
            BY <1>0, <2>6 DEF EnterLoop, TypeOK
        <3>2. \A k : Cfg(k)' = Cfg(k)
            BY <2>1, SameHope
        <3>3. ASSUME NEW i \in 1..Len(stack'), NEW j \in 1..(stack'[i].iter - 1)
              PROVE  Cfg(stack[i].deps[j])' # None
            <4>1. i \in 1..Len(stack) /\ stack'[i] = stack[i]
                <5>1. i # Len(stack) + 1
                    BY <3>1, <3>3
                <5>2. QED
                    BY <3>1, <5>1
            <4>2. QED
                BY <2>1, <3>3, <4>1 DEF Waiting, Cfg
        <3>4. QED
            BY <3>1, <3>3 DEF Waiting, Cfg
    <2>7. CASE DepBuilt
        <3> DEFINE n == Len(stack)
        <3>1. stack # <<>> /\ pc = "ret" /\ pc' = "loop" /\ stack \in Seq(Frame)
            BY <1>0, <2>7 DEF DepBuilt, TypeOK
        <3>2. /\ n \in Nat \ {0} /\ Len(stack') = n /\ stack'[n].deps = top.deps
              /\ stack'[n].iter = top.iter + 1 /\ \A i \in 1..(n-1) : stack'[i] = stack[i]
            <4>1. n \in Nat \ {0} /\ stack[n] \in Frame
                BY <1>0, <3>1, TopInStack DEF top
            <4>2. stack' = [stack EXCEPT ![n].iter = @ + 1]
                BY <2>7 DEF DepBuilt
            <4>3. QED
                BY <3>1, <4>1, <4>2 DEF Frame, top
        <3>3. \A k : Cfg(k)' = Cfg(k)
            BY <2>1, SameHope
        <3>4. Cfg(top.deps[top.iter]) # None
            BY <3>1, TopDep DEF Waiting
        <3>5. ASSUME NEW i \in 1..Len(stack'), NEW j \in 1..(stack'[i].iter - 1)
              PROVE  Cfg(stack[i].deps[j])' # None
            <4>1. CASE i = n
                <5>1. top.iter \in Nat
                    BY <1>0, <3>1, TopInStack DEF Frame
                <5>2. j = top.iter \/ j \in 1..(top.iter - 1)
                    BY <3>2, <3>5, <4>1, <5>1
                <5>3. \A m \in 1..(top.iter - 1) : Cfg(top.deps[m]) # None
                    BY <3>2 DEF Waiting, top
                <5>4. QED
                    BY <2>1, <3>2, <3>4, <4>1, <5>2, <5>3 DEF Cfg
            <4>2. CASE i # n
                <5>1. i \in 1..(n-1) /\ i \in 1..Len(stack)
                    BY <3>2, <4>2
                <5>2. QED
                    BY <2>1, <3>2, <3>5, <5>1 DEF Waiting, Cfg
            <4>3. QED
                BY <4>1, <4>2
        <3>6. QED
            BY <3>1, <3>5 DEF Waiting
    <2>8. CASE DepUnknown
        <3>1. stack # <<>> /\ InLoop /\ Pop(0) /\ Cfg(top.deps[top.iter]) = None
            BY <1>0, <2>8 DEF DepUnknown, TypeOK
        <3>2. Hopeless(top.key)
            BY <3>1, TopDep DEF Hopeless
        <3>3. Stuck(top.key)
            BY <3>1, <3>2, TopDep, StuckBy
        <3>4. QED
            BY <2>1, <3>1, <3>3, PopWaits
    <2>9. CASE DepFailed
        <3>1. stack # <<>> /\ Pop(0) /\ pc = "ret" /\ val = 0
            BY <2>9 DEF DepFailed
        <3>2. arg \in DepSet(top.key)
            BY <3>1, TopDep
        <3>3. AllDeclared(top.key) => Stuck(top.key)
            BY <3>1, <3>2, TopDep, DeclaredDown, StuckBy DEF Waiting
        <3>4. QED
            BY <2>1, <3>1, <3>3, PopWaits
    <2>10. CASE Bootstrap
        <3>1. stack # <<>> /\ Pop(gen + 1) /\ gen + 1 # 0
            BY <1>0, <2>10 DEF Bootstrap, TypeOK
        <3>2. QED
            BY <2>1, <3>1, PopWaits
    <2>11. CASE BootstrapFails
        <3>1. LoopDone /\ ~Bootstraps(top.key) /\ Pop(0)
            BY <2>11 DEF BootstrapFails
        <3>2. /\ stack # <<>> /\ top.key \in Key /\ Cfg(top.key) # None
              /\ AdapterOf(top.key) \in Adapter /\ ~InMarket(top.key)
              /\ \A d \in DepSet(top.key) : d \in Key /\ InMarket(d)
            BY <3>1, LoopIsDone
        <3>3. AllDeclared(top.key) => Hopeless(top.key)
            BY <3>1, <3>2, DeclaredDown, FailsHopeless
        <3>4. AllDeclared(top.key) => Stuck(top.key)
            BY <3>2, <3>3, StuckBy
        <3>5. QED
            BY <2>1, <3>1, <3>2, <3>4, PopWaits
    <2>12. CASE Answer
        <3>1. pc' = "idle" /\ stack' = <<>>
            BY <2>12 DEF Answer
        <3>2. QED
            BY <3>1 DEF Waiting
    <2>13. QED
        BY <1>3, <2>2, <2>3, <2>4, <2>5, <2>6, <2>7, <2>8, <2>9, <2>10, <2>11, <2>12 DEF Build
<1>4. QED
    BY <1>1, <1>2, <1>3 DEF Next

\* A need that gets no curve, and gets none when the trade comes again.
Missing(n) == ~Configured(n) \/ Stuck(CurveFor(n)) \/ ~AllDeclared(CurveFor(n))

IsNeed(n, list) == \E i \in 1..Len(list) : list[i] = n

\* The needs of the trade that are done with are in its cache, or missing.
DoneOrMissing ==
    phase # "none" =>
        /\ \A n \in DOMAIN cache : Configured(n) /\ IsNeed(n, needs)
        /\ \A i \in 1..Len(needs) : i < at /\ needs[i] \notin DOMAIN cache => Missing(needs[i])

\* So are those of the trade before, and what it found is still there.
FoundOrMissing ==
    found # None =>
        /\ found.needs \in Seq(Need)
        /\ \A n \in found.kept : /\ Configured(n) /\ InMarket(CurveFor(n)) /\ IsNeed(n, found.needs)
                                 /\ phase # "none" => CurveFor(n) \in DOMAIN before
        /\ \A i \in 1..Len(found.needs) : found.needs[i] \notin found.kept => Missing(found.needs[i])

RInv == PInv /\ Waiting /\ DoneOrMissing /\ FoundOrMissing

\* While nothing is changed and nothing that is stuck is made, the missing stays
\* missing.
LEMMA MissingStays ==
    ASSUME UNCHANGED <<config, quote, depFn, mapping>>, \A k : Stuck(k) => Stuck(k)', NEW n
    PROVE  /\ Configured(n)' = Configured(n) /\ CurveFor(n)' = CurveFor(n)
           /\ Missing(n) => Missing(n)'
<1>1. CurveFor(n)' = CurveFor(n) /\ Configured(n)' = Configured(n)
    BY DEF CurveFor, Configured, Cfg
<1>2. \A k : AllDeclared(k)' = AllDeclared(k)
    BY SameHope
<1> DEFINE k == CurveFor(n)
<1>3. PICK c : c = CurveFor(n)
    OBVIOUS
<1>4. CurveFor(n)' = c
    BY <1>1, <1>3
<1>5. Stuck(CurveFor(n))' = Stuck(c)' /\ AllDeclared(CurveFor(n))' = AllDeclared(c)'
    BY <1>4 DEF Stuck, AllDeclared
<1>6. QED
    BY <1>1, <1>2, <1>3, <1>5 DEF Missing

\* Nothing of the market and of what is loaded changes.
LEMMA StuckSame ==
    ASSUME UNCHANGED <<config, quote, depFn, market>>, NEW k, Stuck(k)
    PROVE  Stuck(k)'
<1>1. PICK S \in SUBSET Key : k \in S /\ StuckWith(S)
    BY DEF Stuck
<1>2. StuckWith(S)'
    BY <1>1, StuckKept DEF StuckWith, InMarket
<1>3. QED
    BY <1>1, <1>2 DEF Stuck

\* The trade before is left alone, and more curves are there.
LEMMA FoundStays ==
    ASSUME RInv, UNCHANGED <<config, quote, depFn, mapping, found>>,
           \A k : Stuck(k) => Stuck(k)', \A k \in Key : InMarket(k) => InMarket(k)',
           phase' # "none" => phase # "none" /\ UNCHANGED before
    PROVE  FoundOrMissing'
<1> SUFFICES ASSUME found # None
             PROVE  /\ found.needs \in Seq(Need)
                    /\ \A n \in found.kept :
                         /\ Configured(n)' /\ InMarket(CurveFor(n))' /\ IsNeed(n, found.needs)
                         /\ phase' # "none" => (CurveFor(n))' \in DOMAIN before'
                    /\ \A i \in 1..Len(found.needs) :
                         found.needs[i] \notin found.kept => Missing(found.needs[i])'
    BY DEF FoundOrMissing, IsNeed, Missing, Configured, CurveFor, Cfg
<1>1. ASSUME NEW n \in found.kept
      PROVE  /\ Configured(n)' /\ InMarket(CurveFor(n))' /\ IsNeed(n, found.needs)
             /\ phase' # "none" => (CurveFor(n))' \in DOMAIN before'
    <2>1. /\ Configured(n) /\ InMarket(CurveFor(n)) /\ IsNeed(n, found.needs)
          /\ phase # "none" => CurveFor(n) \in DOMAIN before
        BY DEF RInv, FoundOrMissing
    <2>2. n \in Need
        BY <2>1 DEF RInv, FoundOrMissing, IsNeed
    <2>3. PICK k \in Key : k = CurveFor(n)
        BY <2>1, <2>2, CurveForKey DEF RInv, PInv
    <2>4. (CurveFor(n))' = k /\ Configured(n)'
        BY <2>1, <2>3, MissingStays
    <2>5. InMarket(k)'
        BY <2>1, <2>3
    <2>6. InMarket(CurveFor(n))'
        BY <2>4, <2>5 DEF InMarket
    <2>7. QED
        BY <2>1, <2>3, <2>4, <2>6
<1>2. \A n : Missing(n) => Missing(n)'
    BY MissingStays
<1>3. QED
    BY <1>1, <1>2 DEF RInv, FoundOrMissing

LEMMA TradeStays ==
    ASSUME RInv, UNCHANGED <<config, quote, depFn, mapping, needs, cache>>,
           \A k : Stuck(k) => Stuck(k)', phase' # "none" => phase # "none",
           \A i \in 1..Len(needs) : i < at' => i < at \/ Missing(needs[i])
    PROVE  DoneOrMissing'
<1>1. \A n : (Missing(n) => Missing(n)') /\ (Configured(n) => Configured(n)')
    BY MissingStays
<1>2. QED
    BY <1>1 DEF RInv, DoneOrMissing, IsNeed

\* Steps of the engine while it builds for a trade.
LEMMA EngineRepeats ==
    ASSUME IsFiniteSet(Id), RInv, PInv', EngineStep
    PROVE  RInv'
<1>1. Inv /\ Build /\ UNCHANGED pricing /\ Waiting
    BY DEF RInv, PInv, EngineStep
<1>2. Waiting'
    BY <1>1, WaitingNext DEF Next
<1>3. UNCHANGED <<config, quote, depFn>> /\ \A k : Stuck(k) => Stuck(k)'
    BY <1>1, StuckStays
<1>4. \A k \in Key : InMarket(k) => InMarket(k)'
    BY <1>1, BuildKeeps
<1>5. UNCHANGED <<mapping, phase, needs, at, cache, before, found>>
    BY <1>1 DEF pricing
<1>6. FoundOrMissing'
    BY <1>3, <1>4, <1>5, FoundStays
<1>7. DoneOrMissing'
    BY <1>3, <1>5, TradeStays
<1>8. QED
    BY <1>2, <1>6, <1>7 DEF RInv

\* The engine has answered: the need has its curve, or never gets it.
LEMMA KeepRepeats ==
    ASSUME IsFiniteSet(Id), RInv, PInv', Keep
    PROVE  RInv'
<1> DEFINE m == needs[at]
<1>1. /\ Inv /\ Shape /\ Answer /\ phase = "building" /\ pc = "ret" /\ stack = <<>>
      /\ CacheAlive /\ BeforeKept /\ PastServed /\ BuildsNeed /\ Returning /\ Waiting
    BY DEF RInv, PInv, Keep, Answer
<1>2. /\ UNCHANGED <<config, quote, depFn, market, mapping, needs, before, phase, found>>
      /\ at' = at + 1 /\ pc' = "idle" /\ stack' = <<>>
      /\ cache' = IF val = 0 THEN cache ELSE Put(cache, m, <<arg, val>>)
    BY <1>1 DEF Keep, Answer, client
<1>3. Waiting'
    BY <1>2 DEF Waiting
<1>4. \A k : Stuck(k) => Stuck(k)'
    BY <1>2, StuckSame
<1>5. FoundOrMissing'
    BY <1>1, <1>2, <1>4, FoundStays DEF InMarket
<1>6. at \in 1..Len(needs) /\ Configured(m) /\ arg = CurveFor(m)
    BY <1>1 DEF BuildsNeed, Served
<1>7. val = 0 => Missing(m)
    BY <1>1, <1>6 DEF Waiting, Missing
<1>8. \A n : (Missing(n) => Missing(n)') /\ (Configured(n) => Configured(n)')
    BY <1>2, <1>4, MissingStays
<1>9. /\ \A n \in DOMAIN cache' : n \in DOMAIN cache \/ n = m
      /\ DOMAIN cache \subseteq DOMAIN cache'
      /\ val # 0 => m \in DOMAIN cache'
    BY <1>2 DEF Put
<1>10. ASSUME NEW n \in DOMAIN cache' PROVE Configured(n)' /\ IsNeed(n, needs)
    <2>1. n \in DOMAIN cache \/ n = m
        BY <1>9
    <2>2. QED
        BY <1>1, <1>6, <1>8, <2>1 DEF RInv, DoneOrMissing, IsNeed
<1>11. ASSUME NEW i \in 1..Len(needs), i < at + 1, NEW n, n = needs[i],
              n \notin DOMAIN cache'
       PROVE  Missing(n)'
    <2>1. CASE i = at
        BY <1>7, <1>8, <1>9, <1>11, <2>1
    <2>2. CASE i # at
        <3>1. i < at
            BY <1>1, <1>11, <2>2 DEF Shape
        <3>2. Missing(n)
            BY <1>1, <1>9, <1>11, <3>1 DEF RInv, DoneOrMissing
        <3>3. QED
            BY <1>8, <3>2
    <2>3. QED
        BY <2>1, <2>2
<1>12. DoneOrMissing'
    BY <1>2, <1>10, <1>11 DEF DoneOrMissing, IsNeed
<1>13. QED
    BY <1>3, <1>5, <1>12 DEF RInv

\* A trade comes: the curves that the one before found are in the market.
LEMMA ValueRepeats ==
    ASSUME RInv, PInv', NEW t \in Trades, ValueTrade(t)
    PROVE  RInv'
<1>1. /\ UNCHANGED <<config, quote, depFn, market, stack, pc, arg, val, mapping, found>>
      /\ cache' = Nothing /\ at' = 1 /\ phase = "none" /\ pc = "idle"
      /\ before' = [k \in Present |-> market[k].gen]
    BY DEF ValueTrade, vars, Idle
<1>2. Waiting'
    <2>1. stack = <<>>
        BY <1>1 DEF RInv, PInv, Inv, TypeOK
    <2>2. QED
        BY <1>1, <2>1 DEF Waiting
<1>3. DoneOrMissing'
    BY <1>1 DEF DoneOrMissing, Nothing
<1>4. \A n : /\ Configured(n)' = Configured(n) /\ CurveFor(n)' = CurveFor(n)
             /\ Missing(n) => Missing(n)'
    BY <1>1, StuckSame, MissingStays
<1>5. ASSUME found # None, NEW n \in found.kept
      PROVE  /\ Configured(n)' /\ InMarket(CurveFor(n))' /\ IsNeed(n, found.needs)
             /\ (CurveFor(n))' \in DOMAIN before'
    <2>1. Configured(n) /\ InMarket(CurveFor(n)) /\ IsNeed(n, found.needs)
        BY <1>5 DEF RInv, FoundOrMissing
    <2>2. n \in Need
        BY <1>5, <2>1 DEF RInv, FoundOrMissing, IsNeed
    <2>3. PICK k \in Key : k = CurveFor(n)
        BY <2>1, <2>2, CurveForKey DEF RInv, PInv
    <2>4. (CurveFor(n))' = k /\ Configured(n)' /\ k \in Present
        BY <1>4, <2>1, <2>3 DEF Present
    <2>5. InMarket(CurveFor(n))'
        BY <1>1, <2>1, <2>3, <2>4 DEF InMarket
    <2>6. QED
        BY <1>1, <2>1, <2>4, <2>5
<1>6. FoundOrMissing'
    BY <1>1, <1>4, <1>5 DEF RInv, FoundOrMissing
<1>7. QED
    BY <1>2, <1>3, <1>6 DEF RInv

\* A trade is over: what its cache had is what it found.
LEMMA PriceRepeats ==
    ASSUME RInv, PInv', Price
    PROVE  RInv'
<1>1. /\ UNCHANGED <<config, quote, depFn, market, stack, pc, arg, val, mapping>>
      /\ phase = "pricing" /\ phase' = "none" /\ pc = "idle"
      /\ found' = [needs |-> needs, kept |-> DOMAIN cache]
    BY DEF RInv, PInv, Shape, Price, vars
<1>2. Waiting'
    <2>1. stack = <<>>
        BY <1>1 DEF RInv, PInv, Inv, TypeOK
    <2>2. QED
        BY <1>1, <2>1 DEF Waiting
<1>3. DoneOrMissing'
    BY <1>1 DEF DoneOrMissing
<1>4. \A n : /\ Configured(n)' = Configured(n) /\ CurveFor(n)' = CurveFor(n)
             /\ Missing(n) => Missing(n)'
    BY <1>1, StuckSame, MissingStays
<1>5. needs \in Seq(Need) /\ at > Len(needs) /\ at \in Nat
    BY <1>1 DEF RInv, PInv, Shape
<1>6. ASSUME NEW n \in DOMAIN cache
      PROVE  Configured(n)' /\ InMarket(CurveFor(n))' /\ IsNeed(n, needs)
    <2>1. Configured(n) /\ IsNeed(n, needs) /\ InMarket(CurveFor(n))
        BY <1>1 DEF RInv, PInv, CacheAlive, DoneOrMissing
    <2>2. PICK k : k = CurveFor(n)
        OBVIOUS
    <2>3. (CurveFor(n))' = k
        BY <1>4, <2>2
    <2>4. QED
        BY <1>1, <1>4, <2>1, <2>2, <2>3 DEF InMarket
<1>7. ASSUME NEW i \in 1..Len(needs), NEW n, n = needs[i], n \notin DOMAIN cache
      PROVE  Missing(n)'
    <2>1. i < at
        BY <1>5
    <2>2. Missing(n)
        BY <1>1, <1>7, <2>1 DEF RInv, DoneOrMissing
    <2>3. QED
        BY <1>4, <2>2
<1>8. found'.needs = needs /\ found'.kept = DOMAIN cache
    BY <1>1
<1>9. FoundOrMissing'
    BY <1>1, <1>5, <1>6, <1>7, <1>8 DEF FoundOrMissing
<1>10. QED
    BY <1>2, <1>3, <1>9 DEF RInv

\* The other steps of the helper, which leave the engine and the market alone.
LEMMA HelperRepeats ==
    ASSUME RInv, PInv', PassOver \/ CallAdapter \/ UNCHANGED <<vars, pricing>>
    PROVE  RInv'
<1>1. /\ UNCHANGED <<config, quote, depFn, market, stack, pc, arg, val, mapping>>
      /\ UNCHANGED <<needs, cache, before, found>>
      /\ phase' # "none" => phase # "none"
    BY DEF PassOver, CallAdapter, pricing, vars, More
<1>2. \A k : Stuck(k) => Stuck(k)'
    BY <1>1, StuckSame
<1>3. Waiting'
    <2>1. \A k : Cfg(k)' = Cfg(k) /\ AllDeclared(k)' = AllDeclared(k)
        BY <1>1, SameHope
    <2>2. QED
        BY <1>1, <1>2, <2>1 DEF RInv, Waiting
<1>4. FoundOrMissing'
    BY <1>1, <1>2, FoundStays DEF InMarket
<1>5. \A i \in 1..Len(needs) : i < at' => i < at \/ Missing(needs[i])
    <2>1. CASE PassOver
        <3>1. at' = at + 1 /\ at \in Nat /\ ~Configured(needs[at])
            BY <2>1 DEF PassOver, RInv, PInv, Shape
        <3>2. QED
            BY <3>1 DEF Missing
    <2>2. CASE CallAdapter \/ UNCHANGED <<vars, pricing>>
        BY <2>2 DEF CallAdapter, pricing
    <2>3. QED
        BY <2>1, <2>2
<1>6. DoneOrMissing'
    BY <1>1, <1>2, <1>5, TradeStays
<1>7. QED
    BY <1>3, <1>4, <1>6 DEF RInv

LEMMA AskRepeats ==
    ASSUME IsFiniteSet(Id), RInv, PInv', AskEngine
    PROVE  RInv'
<1>1. at \in 1..Len(needs) /\ Configured(needs[at])
    BY DEF RInv, PInv, Shape, AskEngine, More
<1>2. CurveFor(needs[at]) \in Key
    BY <1>1, NeedAt, CurveForKey DEF RInv, PInv
<1>3. Waiting'
    BY <1>2, WaitingNext DEF RInv, PInv, AskEngine, Next, Application
<1>4. /\ UNCHANGED <<config, quote, depFn, market, mapping>>
      /\ UNCHANGED <<needs, cache, at, phase, before, found>>
    BY DEF AskEngine, pricing, Request, client
<1>5. \A k : Stuck(k) => Stuck(k)'
    BY <1>4, StuckSame
<1>6. FoundOrMissing'
    BY <1>4, <1>5, FoundStays DEF InMarket
<1>7. DoneOrMissing'
    BY <1>4, <1>5, TradeStays
<1>8. QED
    BY <1>3, <1>6, <1>7 DEF RInv

LEMMA RNext ==
    ASSUME IsFiniteSet(Id), RInv, PInv', [PricingNext]_<<vars, pricing>>
    PROVE  RInv'
<1>1. CASE Prepare
    <2>1. Waiting'
        BY <1>1, WaitingNext DEF RInv, PInv, Prepare, Next
    <2>2. QED
        BY <1>1, <2>1 DEF RInv, Prepare, DoneOrMissing, FoundOrMissing
<1>2. ASSUME NEW m \in Maps, MapCurve(m[1], m[2]) PROVE RInv'
    <2>1. UNCHANGED vars
        BY <1>2 DEF MapCurve
    <2>2. Waiting'
        <3>1. stack = <<>> /\ pc = "idle"
            BY <1>2 DEF RInv, PInv, Inv, TypeOK, MapCurve, Idle
        <3>2. QED
            BY <2>1, <3>1 DEF vars, Waiting
    <2>3. QED
        BY <1>2, <2>2 DEF RInv, MapCurve, DoneOrMissing, FoundOrMissing
<1>3. QED
    BY <1>1, <1>2, EngineRepeats, KeepRepeats, ValueRepeats, PriceRepeats, HelperRepeats,
       AskRepeats DEF PricingNext

\* A trade that is priced again, nothing having been changed, finds what it found
\* before, and nothing else unless that takes curves it does not declare.
THEOREM PricesAgain ==
    ASSUME IsFiniteSet(Id)
    PROVE  PricingSpec => []Repeatable
<1>1. PricingInit => RInv
    BY InitPInv DEF PricingInit, RInv, Init, Waiting, NoTrade, DoneOrMissing, FoundOrMissing
<1>2. PInv /\ PInv' /\ RInv /\ [PricingNext]_<<vars, pricing>> => RInv'
    BY RNext
<1>3. ASSUME RInv PROVE Repeatable
    <2>1. SUFFICES ASSUME phase = "pricing", found # None, found.needs = needs
                   PROVE  /\ found.kept \subseteq DOMAIN cache
                          /\ \A n \in DOMAIN cache \ found.kept : ~AllDeclared(CurveFor(n))
        BY DEF Repeatable
    <2>2. /\ CacheAlive /\ PastServed /\ needs \in Seq(Need) /\ at > Len(needs) /\ at \in Nat
        BY <1>3, <2>1 DEF RInv, PInv, Shape
    <2>3. ASSUME NEW n \in found.kept PROVE n \in DOMAIN cache
        <3>1. Configured(n) /\ IsNeed(n, needs) /\ CurveFor(n) \in DOMAIN before
            BY <1>3, <2>1 DEF RInv, FoundOrMissing
        <3>2. PICK i \in 1..Len(needs) : needs[i] = n
            BY <3>1 DEF IsNeed
        <3>3. i < at /\ Had(needs[i])
            BY <2>2, <3>1, <3>2 DEF Had
        <3>4. QED
            BY <2>2, <3>2, <3>3 DEF PastServed, Holds
    <2>4. ASSUME NEW n \in DOMAIN cache \ found.kept PROVE ~AllDeclared(CurveFor(n))
        <3>1. Configured(n) /\ IsNeed(n, needs)
            BY <1>3, <2>1 DEF RInv, DoneOrMissing
        <3>2. Missing(n)
            BY <1>3, <2>1, <2>4, <3>1 DEF RInv, FoundOrMissing, IsNeed
        <3>3. InMarket(CurveFor(n))
            BY <2>2 DEF CacheAlive
        <3>4. ~Stuck(CurveFor(n))
            BY <3>3 DEF Stuck, StuckWith
        <3>5. QED
            BY <3>1, <3>2, <3>4 DEF Missing
    <2>5. QED
        BY <2>3, <2>4
<1>4. QED
    BY <1>1, <1>2, <1>3, Pricing, PTL DEF PricingSpec
-----------------------------------------------------------------------------
(***************************************************************************)
(* NULL is answered for good reasons: a curve that is stuck is out of reach *)
(* of every order of building, not only of the engine's.                   *)
(***************************************************************************)

\* Only the adapters that come with a list function have one.
Listers == \A a \in Adapter : depFn[a] = "own" => a \in Declaring

LEMMA ListersKept == Spec => []Listers
<1>1. Init => Listers
    BY DEF Init, Listers
<1>2. TypeOK /\ Listers /\ [Next]_vars => Listers'
    <2> SUFFICES ASSUME Listers, [Next]_vars PROVE Listers'
        OBVIOUS
    <2>1. CASE UNCHANGED depFn
        BY <2>1 DEF Listers
    <2>2. CASE CloneAdapters
        BY <2>2 DEF CloneAdapters, Listers
    <2>3. CASE Build
        <3>1. UNCHANGED depFn
            BY <2>3 DEF Build, Overflow, Found, NullMethod, NoAdapter, WildCall, NoDepList,
               EnterLoop, CallDep, DepUnknown, DepBuilt, DepFailed, Bootstrap, BootstrapFails,
               BootstrapHalts, Answer, ReturnFromCall, Halt, client
        <3>2. QED
            BY <2>1, <3>1
    <2>4. CASE Application /\ ~CloneAdapters
        <3>1. UNCHANGED depFn
            BY <2>4 DEF Application, AddConfig, AddRates, AddCurve, ClearMarket, CloneMarket,
               Request, client
        <3>2. QED
            BY <2>1, <3>1
    <2>5. QED
        BY <2>1, <2>2, <2>3, <2>4 DEF Next, vars
<1>3. QED
    BY <1>1, <1>2, TypeCorrect, PTL DEF Spec

\* What an adapter declares is what the bootstrap of the curve reads.
LEMMA ListsInputs ==
    ASSUME Listers, NEW k \in Key, AdapterOf(k) \in Adapter
    PROVE  DepSet(k) \subseteq Inputs(k)
<1> SUFFICES ASSUME DepFn(k) = "own", ~ListFails(k), Cfg(k).id1 # None
             PROVE  DepSet(k) \subseteq Inputs(k)
    BY DEF DepSet, DepList
<1>1. Cfg(k).method \in {"composite", "bbi", "cds"}
    BY DEF Listers, DepFn, AdapterOf, Declaring
<1>2. CASE Cfg(k).method = "composite"
    BY <1>2 DEF DepSet, DepList, Inputs
<1>3. CASE Cfg(k).method = "bbi"
    BY <1>3 DEF DepSet, DepList, Inputs
<1>4. CASE Cfg(k).method = "cds"
    BY <1>4 DEF DepSet, DepList, Inputs
<1>5. QED
    BY <1>1, <1>2, <1>3, <1>4

\* A curve that is hopeless, or declares one that is not there, cannot be made.
LEMMA NoWay ==
    ASSUME IsFiniteSet(Id), Listers, NEW k \in Key, NEW have,
           Hopeless(k) \/ \E d \in DepSet(k) : d \notin have
    PROVE  ~CanBuild(k, have)
<1> DEFINE c == Cfg(k)
<1> SUFFICES ASSUME CanBuild(k, have) PROVE FALSE
    OBVIOUS
<1>1. /\ AdapterOf(k) \in Adapter
      /\ c.method \in {"composite", "bbi", "crossccy"} => c.id1 # None
      /\ c.method \in {"composite", "crossccy"} => c.id2 # None
      /\ \A d \in Inputs(k) : d \in have /\ Cfg(d) # None
      /\ Priced(k, have)
    BY DEF CanBuild
<1>2. \A d \in DepSet(k) : d \in have /\ Cfg(d) # None
    BY <1>1, ListsInputs
<1>3. ~ListFails(k)
    BY <1>1 DEF ListFails
<1>4. ~(c.method = "simple" /\ ~HasRates(k))
    BY <1>1 DEF Priced, HasRates
<1>5. ~(c.method = "spread" /\ Cfg(BaseIn(config, k)).method = "spread")
    <2>1. SpreadBase(k) = BaseIn(config, k)
        BY DEF SpreadBase, BaseIn, OnSpread, Cfg
    <2>2. QED
        BY <1>1, <2>1 DEF Priced
<1>6. ~(c.method = "bbi" /\ ~HasCashRates(k))
    BY <1>1 DEF Priced, HasCashRates, Inputs
<1>7. ~(/\ c.method = "cds" /\ ~Undeclared(k)
        /\ quote[k] # "survival" /\ (quote[k] = "none" \/ c.id1 = None))
    BY <1>1, PlainCds DEF Priced
<1>8. QED
    BY <1>1, <1>2, <1>3, <1>4, <1>5, <1>6, <1>7 DEF Hopeless

\* Curves that are stuck together are in no stage of what can be made.
LEMMA StuckUnbuildable ==
    ASSUME IsFiniteSet(Id), IsFiniteSet(Key), Listers, NEW S \in SUBSET Key, StuckWith(S)
    PROVE  S \cap Buildable = {}
<1> DEFINE N == Cardinality(Key)
           IsIt(f) == f = [n \in 0..N |->
                           IF n = 0 THEN Present
                           ELSE LET have == f[n-1]
                                IN have \cup {k \in Key : CanBuild(k, have)}]
           it == CHOOSE f : IsIt(f)
           T == {n \in 0..N : S \cap it[n] = {}}
<1>1. N \in Nat
    BY FS_CardinalityType
<1>2. Buildable = it[N]
    BY DEF Buildable
<1> HIDE DEF IsIt
<1>3. IsIt(it)
    <2> DEFINE V == SUBSET Key
               step == [have \in V |-> have \cup {k \in Key : CanBuild(k, have)}]
    <2>1. Present \in V /\ step \in [V -> V]
        BY DEF Present
    <2> HIDE DEF V, step
    <2>2. PICK f : Iteration(f, V, Present, step, N)
        BY <1>1, <2>1, Iterates
    <2>3. /\ f \in [0..N -> V] /\ f[0] = Present /\ \A n \in 1..N : f[n] = step[f[n-1]]
        BY <2>2 DEF Iteration
    <2>4. ASSUME NEW n \in 1..N PROVE f[n] = f[n-1] \cup {k \in Key : CanBuild(k, f[n-1])}
        <3>1. f[n-1] \in V
            BY <1>1, <2>3
        <3>2. QED
            BY <2>3, <3>1 DEF step
    <2>5. IsIt(f)
        BY <1>1, <2>3, <2>4 DEF IsIt
    <2>6. QED
        BY <2>5
<1> HIDE DEF it
<1>4. /\ it[0] = Present
      /\ \A n \in 1..N : it[n] = it[n-1] \cup {k \in Key : CanBuild(k, it[n-1])}
    <2>1. it[0] = Present
        BY <1>1, <1>3 DEF IsIt
    <2>2. ASSUME NEW n \in 1..N
          PROVE  it[n] = it[n-1] \cup {k \in Key : CanBuild(k, it[n-1])}
        <3>1. n # 0 /\ n \in 0..N
            BY <1>1
        <3>2. QED
            BY <1>3, <3>1, Zenon DEF IsIt
    <2>3. QED
        BY <2>1, <2>2
<1>5. 0 \in T
    BY <1>1, <1>4 DEF StuckWith, Present
<1>6. ASSUME NEW n \in 1..N, n - 1 \in T PROVE n \in T
    <2>1. S \cap it[n-1] = {}
        BY <1>6
    <2>2. ASSUME NEW s \in S PROVE ~CanBuild(s, it[n-1])
        BY <2>1, NoWay DEF StuckWith
    <2>3. QED
        BY <1>4, <2>1, <2>2
<1> HIDE DEF T
<1>7. 0..N \subseteq T
    BY <1>1, <1>5, <1>6, Upwards
<1>8. N \in T
    BY <1>1, <1>7
<1>9. QED
    BY <1>2, <1>8 DEF T

\* A request that ends without a curve was for one that no order of building
\* could make, if all that it is made of is declared: the engine misses nothing.
NoOtherWay == AllDeclared(arg) => NullMeansUnbuildable
THEOREM NullIsFinal ==
    ASSUME IsFiniteSet(Id)
    PROVE  Spec => []NoOtherWay
<1>1. IsFiniteSet(Key)
    <2>1. IsFiniteSet(Types)
        <3>1. IsFiniteSet({"yield"})
            BY FS_Singleton
        <3>2. IsFiniteSet({"yield"} \cup {"forward"})
            BY <3>1, FS_AddElement
        <3>3. IsFiniteSet(({"yield"} \cup {"forward"}) \cup {"cds"})
            BY <3>2, FS_AddElement
        <3>4. Types = ({"yield"} \cup {"forward"}) \cup {"cds"}
            BY DEF Types
        <3>5. QED
            BY <3>3, <3>4
    <2>2. QED
        BY <2>1, FS_Product DEF Key
<1>2. Init => Waiting
    BY DEF Init, Waiting
<1>3. Inv /\ Waiting /\ [Next]_vars => Waiting'
    BY WaitingNext
<1>4. Waiting /\ Listers => NoOtherWay
    BY <1>1, StuckUnbuildable DEF Waiting, NoOtherWay, NullMeansUnbuildable, Stuck
<1>5. QED
    BY <1>2, <1>3, <1>4, ListersKept, Invariance, PTL DEF Spec
-----------------------------------------------------------------------------
(***************************************************************************)
(* Configurations that the engine can work with: every request ends, in a  *)
(* curve if there is a way to one, and the engine never halts.             *)
(***************************************************************************)

\* What is configured was offered, and the adapters are those that were added.
Loaded ==
    /\ \A k \in Key : Cfg(k) # None => <<k, Cfg(k)>> \in Offers
    /\ \A a \in Adapter : depFn[a] = IF a \in Declaring THEN "own" ELSE "null"

LEMMA LoadedNext ==
    ASSUME TypeOK, Loaded, "copy_adapters" \notin Client, [Next]_vars
    PROVE  Loaded'
<1>1. CASE UNCHANGED <<config, depFn>>
    BY <1>1 DEF Loaded, Cfg
<1>2. ASSUME NEW o \in Offers, AddConfig(o[1], o[2]) PROVE Loaded'
    <2>1. o \in Key \X Config
        BY OffersAssumption
    <2>2. o = <<o[1], o[2]>>
        BY <2>1
    <2>3. config' = [config EXCEPT ![o[1]] = o[2]] /\ UNCHANGED depFn
        BY <1>2 DEF AddConfig
    <2>4. \A k \in Key : config'[k] = IF k = o[1] THEN o[2] ELSE config[k]
        BY <2>3 DEF TypeOK
    <2>5. QED
        BY <2>2, <2>3, <2>4 DEF Loaded, Cfg
<1>3. CASE Build
    <2>1. UNCHANGED <<config, depFn>>
        BY <1>3 DEF Build, Overflow, Found, NullMethod, NoAdapter, WildCall, NoDepList,
           EnterLoop, CallDep, DepUnknown, DepBuilt, DepFailed, Bootstrap, BootstrapFails,
           BootstrapHalts, Answer, ReturnFromCall, Halt, client
    <2>2. QED
        BY <1>1, <2>1
<1>4. CASE Application /\ ~\E o \in Offers : AddConfig(o[1], o[2])
    <2>1. UNCHANGED <<config, depFn>>
        BY <1>4 DEF Application, AddRates, AddCurve, ClearMarket, CloneMarket, CloneAdapters,
           Request, client
    <2>2. QED
        BY <1>1, <2>1
<1>5. QED
    BY <1>1, <1>2, <1>3, <1>4 DEF Next, vars

\* No curves name one another in a circle.
LEMMA NoCircle ==
    ASSUME Loaded, Workable(Offers), NEW S \in (SUBSET Key) \ {{}}
    PROVE  ~\A k \in S : \E d \in S : Names(k, d)
<1>1. PICK k \in S : \A o \in Offers, d \in S : o[1] = k => d[2] \notin {o[2].id1, o[2].id2}
    BY DEF Workable
<1>2. SUFFICES ASSUME NEW d \in S, Names(k, d) PROVE FALSE
    OBVIOUS
<1>3. <<k, Cfg(k)>> \in Offers /\ d[2] \in {Cfg(k).id1, Cfg(k).id2}
    BY <1>2 DEF Loaded, Names
<1>4. QED
    BY <1>1, <1>3

\* The layers of a spread curve come to an end, at one that has a method.
LEMMA SpreadsEnd ==
    ASSUME IsFiniteSet(Id), TypeOK, Loaded, Workable(Offers), NEW k \in Key, Cfg(k) # None
    PROVE  ~OnSpread(SpreadBase(k)) /\ Cfg(SpreadBase(k)).method # None
<1> DEFINE N == Cardinality(Id)
           V == {l \in Key : Cfg(l) # None}
           below == [l \in V |-> IF OnSpread(l) THEN Yield(Cfg(l).id1) ELSE l]
           IsIt(f) == f = [n \in 0..N |->
                           IF n = 0 THEN k
                           ELSE LET l == f[n-1]
                                IN IF OnSpread(l) THEN Yield(Cfg(l).id1) ELSE l]
           it == CHOOSE f : IsIt(f)
<1>1. N \in Nat
    BY FS_CardinalityType
<1>2. SpreadBase(k) = it[N]
    BY DEF SpreadBase
<1>3. k \in V /\ below \in [V -> V]
    <2>1. ASSUME NEW l \in V, OnSpread(l) PROVE Yield(Cfg(l).id1) \in V
        <3>1. Cfg(l) \in Config
            BY DEF TypeOK, Cfg
        <3>2. Cfg(l).id1 \in Id /\ Cfg(Yield(Cfg(l).id1)) # None
            BY <2>1, <3>1 DEF OnSpread, Config
        <3>3. QED
            BY <3>2 DEF Yield, Key, Types
    <2>2. QED
        BY <2>1
<1> HIDE DEF IsIt, N, V
<1>4. PICK f : Iteration(f, V, k, below, N)
    BY <1>1, <1>3, Iterates
<1>5. f \in [0..N -> V] /\ f[0] = k
      /\ \A n \in 1..N : f[n] = IF OnSpread(f[n-1]) THEN Yield(Cfg(f[n-1]).id1) ELSE f[n-1]
    <2>1. f \in [0..N -> V] /\ f[0] = k /\ \A n \in 1..N : f[n] = below[f[n-1]]
        BY <1>4 DEF Iteration
    <2>2. \A n \in 1..N : f[n-1] \in V
        BY <1>1, <2>1
    <2>3. QED
        BY <2>1, <2>2
<1>6. IsIt(f)
    BY <1>1, <1>5 DEF IsIt
<1>7. IsIt(it)
    BY <1>6
<1> HIDE DEF it, below
<1>8. it[0] = k
    BY <1>1, <1>7 DEF IsIt
<1>9. \A n \in 1..N : it[n] = IF OnSpread(it[n-1]) THEN Yield(Cfg(it[n-1]).id1) ELSE it[n-1]
    <2>1. TAKE n \in 1..N
    <2>2. n # 0 /\ n \in 0..N
        BY <1>1
    <2>3. QED
        BY <1>7, <2>2, Zenon DEF IsIt
<1>10. \A n \in 0..N : it[n] \in V
    <2> DEFINE T == {n \in 0..N : it[n] = f[n]}
    <2>1. 0 \in T
        BY <1>1, <1>5, <1>8
    <2>2. \A n \in 1..N : n - 1 \in T => n \in T
        BY <1>5, <1>9
    <2> HIDE DEF T
    <2>3. 0..N \subseteq T
        BY <1>1, <2>1, <2>2, Upwards
    <2>4. QED
        BY <1>5, <2>3 DEF T
<1>11. ~OnSpread(it[N])
    <2> SUFFICES ASSUME OnSpread(it[N]) PROVE FALSE
        OBVIOUS
    <2>1. ASSUME NEW m \in 0..N PROVE OnSpread(it[m])
        <3> SUFFICES ASSUME ~OnSpread(it[m]) PROVE FALSE
            OBVIOUS
        <3> DEFINE T == {n \in 0..N : n >= m => ~OnSpread(it[n])}
        <3>1. 0 \in T
            BY <1>1
        <3>2. ASSUME NEW n \in 1..N, n - 1 \in T PROVE n \in T
            <4>1. n - 1 >= m => it[n] = it[n-1]
                BY <1>9, <3>2
            <4>2. QED
                BY <1>1, <3>2, <4>1
        <3> HIDE DEF T
        <3>3. 0..N \subseteq T
            BY <1>1, <3>1, <3>2, Upwards
        <3>4. N \in T /\ N >= m
            BY <1>1, <3>3
        <3>5. QED
            BY <3>4 DEF T
    <2> DEFINE p == [i \in 1..N+1 |-> it[i-1]]
    <2>2. p \in [1..N+1 -> Key]
        BY <1>1, <1>10 DEF V
    <2>3. ASSUME NEW i \in 1..(N+1)-1 PROVE Names(p[i], p[i+1])
        <3>1. i \in 1..N /\ i - 1 \in 0..N /\ p[i] = it[i-1] /\ p[i+1] = it[i]
            BY <1>1
        <3>2. it[i] = Yield(Cfg(it[i-1]).id1) /\ it[i-1] \in V
            BY <1>9, <1>10, <2>1, <3>1
        <3>3. QED
            BY <3>1, <3>2 DEF Names, Yield, V
    <2> HIDE DEF p
    <2>4. N + 1 \in Nat /\ N + 1 > Cardinality(Id)
        BY <1>1 DEF N
    <2>5. \E S \in (SUBSET Key) \ {{}} : \A c \in S : \E d \in S : Names(c, d)
        BY <2>2, <2>3, <2>4, LongPathTurns
    <2>6. QED
        BY <2>5, NoCircle
<1>12. Cfg(it[N]).method # None
    <2>1. it[N] \in Key /\ Cfg(it[N]) # None
        BY <1>1, <1>10 DEF V
    <2>2. <<it[N], Cfg(it[N])>> \in Offers
        BY <2>1 DEF Loaded
    <2>3. QED
        BY <2>2 DEF Workable
<1>13. QED
    BY <1>2, <1>11, <1>12

\* No curve is made of one that its adapter does not declare.
LEMMA NoneUndeclared ==
    ASSUME Loaded, Workable(Offers), NEW k \in Key, Cfg(k) # None, AdapterOf(k) \in Adapter
    PROVE  ~Undeclared(k)
<1>1. <<k, Cfg(k)>> \in Offers
    BY DEF Loaded
<1>2. Cfg(k).method # "crossccy"
    BY <1>1 DEF Workable
<1>3. Cfg(k).method \in {"composite", "cds"} => DepFn(k) = "own"
    BY DEF Loaded, AdapterOf, Adapter, Declaring, DepFn
<1>4. ASSUME Cfg(k).method = "cds", Cfg(k).id1 # None, Cfg(Cds(Cfg(k).id1)) # None,
             Cds(Cfg(k).id1) \in Key
      PROVE  FALSE
    <2>1. <<Cds(Cfg(k).id1), Cfg(Cds(Cfg(k).id1))>> \in Offers
        BY <1>4 DEF Loaded
    <2>2. QED
        BY <1>1, <1>4, <2>1 DEF Workable
<1>5. Cfg(k).id1 # None => Cds(Cfg(k).id1) \in Key
    <2>1. <<k, Cfg(k)>> \in Key \X Config
        BY <1>1, OffersAssumption
    <2>2. Cfg(k).id1 \in Id \cup {None}
        BY <2>1 DEF Config
    <2>3. QED
        BY <2>2 DEF Cds, Key, Types
<1>6. QED
    BY <1>2, <1>3, <1>4, <1>5 DEF Undeclared

LEMMA AllAreDeclared ==
    ASSUME TypeOK, Loaded, Workable(Offers), NEW k \in Key
    PROVE  AllDeclared(k)
<1>1. Key \in SUBSET {d \in Key : Cfg(d) = None \/ AdapterOf(d) \notin Adapter \/ ~Undeclared(d)}
    BY NoneUndeclared
<1>2. \A s \in Key : Needs[s] \subseteq Key
    BY NeedsType DEF NeedsOK
<1>3. QED
    BY <1>1, <1>2 DEF AllDeclared

\* Neither a name nor a pointer that is missing is read, and no layers are endless.
LEMMA NoCrash ==
    ASSUME IsFiniteSet(Id), TypeOK, Loaded, Workable(Offers), pc # "crashed", [Next]_vars
    PROVE  pc' # "crashed"
<1>1. CASE NullMethod
    <2>1. arg \in Key /\ Cfg(arg) # None /\ Cfg(arg).method = None
        BY <1>1 DEF NullMethod, TypeOK
    <2>2. <<arg, Cfg(arg)>> \in Offers
        BY <2>1 DEF Loaded
    <2>3. QED
        BY <2>1, <2>2 DEF Workable
<1>2. CASE WildCall
    BY <1>2 DEF WildCall, DepFn, Loaded
<1>3. CASE BootstrapHalts
    <2> DEFINE k == top.key
    <2>1. stack # <<>> /\ stack \in Seq(Frame) /\ BootstrapCrashes(k)
        BY <1>3 DEF BootstrapHalts, TypeOK
    <2>2. Len(stack) \in DOMAIN stack /\ stack[Len(stack)] \in Frame
        BY <2>1
    <2>3. k \in Key /\ Cfg(k) # None /\ AdapterOf(k) \in Adapter
        BY <2>2 DEF top, Frame, TypeOK
    <2> HIDE DEF k
    <2>4. <<k, Cfg(k)>> \in Offers
        BY <2>3 DEF Loaded
    <2>5. Cfg(k).method # "crossccy" /\ (k[1] = "forward" => Cfg(k).asset # None)
        BY <2>4 DEF Workable
    <2>6. Cfg(k).method = "cds" => ~CdsNet(k, Present).endless
        BY <2>3, NoneUndeclared, PlainCds
    <2>7. ~OnSpread(SpreadBase(k)) /\ Cfg(SpreadBase(k)).method # None
        BY <2>3, SpreadsEnd
    <2>8. QED
        BY <2>1, <2>5, <2>6, <2>7 DEF BootstrapCrashes
<1>4. CASE Build /\ ~NullMethod /\ ~WildCall /\ ~BootstrapHalts
    BY <1>4 DEF Build, Overflow, Found, NoAdapter, NoDepList, EnterLoop, CallDep, DepUnknown,
       DepBuilt, DepFailed, Bootstrap, BootstrapFails, Answer, ReturnFromCall, Halt, Pop
<1>5. CASE Application
    BY <1>5 DEF Application, AddConfig, AddRates, AddCurve, ClearMarket, CloneMarket,
       CloneAdapters, Request, engine
<1>6. QED
    BY <1>1, <1>2, <1>3, <1>4, <1>5 DEF Next, vars

\* Every request ends, in a curve if any order of building makes one, as long as
\* the stack holds as many activations as there are ids, the configurations are
\* workable, and the adapters are not copied (rq_bootstrap_adapter.c:53).
THEOREM EveryRequestAnswered ==
    ASSUME IsFiniteSet(Id), MaxDepth >= Cardinality(Id),
           Workable(Offers), "copy_adapters" \notin Client
    PROVE  Spec => []AnswersRight
<1>1. Init => Loaded /\ pc # "crashed"
    <2> SUFFICES ASSUME Init PROVE Loaded /\ pc # "crashed"
        OBVIOUS
    <2>1. \A k \in Key : Cfg(k) = None
        BY DEF Init, Cfg
    <2>2. QED
        BY <2>1 DEF Init, Loaded
<1>2. TypeOK /\ Loaded /\ pc # "crashed" /\ [Next]_vars => (Loaded /\ pc # "crashed")'
    BY LoadedNext, NoCrash
<1>3. TypeOK /\ Loaded /\ pc # "crashed" /\ NoOtherWay /\ OverflowMeansCycle => AnswersRight
    <2> SUFFICES ASSUME TypeOK, Loaded, pc # "crashed", NoOtherWay, OverflowMeansCycle
                 PROVE  AnswersRight
        OBVIOUS
    <2>1. pc # "overflow"
        BY NoCircle DEF OverflowMeansCycle
    <2>2. pc = "ret" => AllDeclared(arg)
        BY AllAreDeclared DEF TypeOK
    <2>3. QED
        BY <2>1, <2>2 DEF AnswersRight, NoOtherWay, NullMeansUnbuildable, NoHalt, Halts
<1>4. QED
    BY <1>1, <1>2, <1>3, TypeCorrect, NullIsFinal, CyclesOverflow, PTL DEF Spec
=============================================================================
