----------------------------- MODULE HashTable -----------------------------
(***************************************************************************)
(* rq_hashtable: bins of chains that are sorted by hash, of which the      *)
(* table gets more as it fills.  The trade manager keys it by trade id.    *)
(***************************************************************************)
EXTENDS Integers, SequencesExt

CONSTANTS
    TableKey, Datum,  \* what is inserted
    HashOf,           \* the caller's hashfunc
    Primes,           \* the sizes a table may have, about twice as large each
    FirstSize,        \* bound: what the first prime is the size for (8 in the code)
    Density,          \* bound: RQ_HASHTABLE_MAX_BIN_DENSITY (5 in the code)
    Absent

ASSUME HashAssumption == HashOf \in [TableKey -> Nat]
ASSUME AbsentAssumption == Absent \notin Datum
ASSUME PrimesAssumption == Primes \in Seq(Nat \ {0}) /\ {FirstSize, Density} \subseteq Nat

VARIABLES
    table,     \* the chains of the bins, and the count of the entries
    inserted,  \* history: what each key was last given, unless delete returned it
    tableCrash

tableVars == <<table, inserted, tableCrash>>

NumBins(t) == Cardinality(DOMAIN t.bins)
Empty(n) == [bins |-> [b \in 0..n-1 |-> << >>], entries |-> 0]

\* rq_hashtable_calc_size: the prime of the first power of two above the size.
FirstAbove(size, i) ==
    /\ FirstSize * 2^(i-1) > size
    /\ \A j \in 1..i-1 : FirstSize * 2^(j-1) <= size

CalcSize(size) == Primes[CHOOSE i \in DOMAIN Primes : FirstAbove(size, i)]

\* The chain with the node before the first one of a greater hash.
Before(chain, h) == SelectInSeq(chain, LAMBDA n : n.hash > h)
Placed(chain, node) ==
    LET i == Before(chain, node.hash)
    IN IF i = 0 THEN Append(chain, node) ELSE InsertAt(chain, i, node)

WithNode(bins, b, node) == [bins EXCEPT ![b] = Placed(@, node)]

\* rq_hashtable_foreach, and rq_hashtable_free: the bins in order.
Foreach(t) == FlattenSeq([i \in 1..NumBins(t) |-> t.bins[i-1]])

\* rq_hashtable_rehash: every node moves to its place in a table of the next size.
Rehash(t) ==
    LET n == CalcSize(NumBins(t) + 1)
        nodes == Foreach(t)
        moved[i \in 0..Len(nodes)] ==
            IF i = 0 THEN Empty(n).bins ELSE WithNode(moved[i-1], nodes[i].hash % n, nodes[i])
    IN [t EXCEPT !.bins = moved[Len(nodes)]]

\* rq_hashtable_find.
TableFind(t, k) ==
    LET chain == t.bins[HashOf[k] % NumBins(t)]
        i == SelectInSeq(chain, LAMBDA n : n.hash = HashOf[k] /\ n.key = k)
    IN IF i = 0 THEN Absent ELSE chain[i].data

\* In the bin, data replaces the key's, or a node goes to its place.
Store(t, b, k, d) ==
    LET chain == t.bins[b]
        i == SelectInSeq(chain, LAMBDA n : n.hash = HashOf[k] /\ n.key = k)
        node == [hash |-> HashOf[k], key |-> k, data |-> d]
    IN IF i # 0 THEN [t EXCEPT !.bins[b][i].data = d]
                ELSE [bins |-> WithNode(t.bins, b, node), entries |-> t.entries + 1]

Full(t) == t.entries \div NumBins(t) > Density

\* Slip: the bin is the one before the rehash.
TableAdd_OldBin(t, k, d) ==
    Store(IF Full(t) THEN Rehash(t) ELSE t, HashOf[k] % NumBins(t), k, d)

\* rq_hashtable_insert.
TableAdd(t, k, d) ==
    LET s == IF Full(t) THEN Rehash(t) ELSE t
    IN Store(s, HashOf[k] % NumBins(s), k, d)
-----------------------------------------------------------------------------
\* rq_hashtable_init.
TableInit ==
    /\ table = Empty(CalcSize(0))
    /\ inserted = [k \in TableKey |-> Absent]
    /\ tableCrash = FALSE

\* rq_hashtable_insert, and rq_trade_mgr_add, which drops the data it returns.
TableInsert(k, d) ==
    /\ ~tableCrash
    /\ table' = TableAdd(table, k, d)
    /\ inserted' = [inserted EXCEPT ![k] = d]
    /\ UNCHANGED tableCrash

\* rq_hashtable_delete takes the hash itself for the bin.
TableDelete(k) ==
    LET b == HashOf[k]
        i == SelectInSeq(table.bins[b], LAMBDA n : n.key = k)
    IN /\ ~tableCrash /\ b < NumBins(table)
       /\ IF i = 0 THEN UNCHANGED <<table, inserted>>
          ELSE /\ table' = [bins |-> [table.bins EXCEPT ![b] = RemoveAt(@, i)],
                            entries |-> table.entries - 1]
               /\ inserted' = [inserted EXCEPT ![k] = Absent]
       /\ UNCHANGED tableCrash

\* Behind the bins it finds anything: nothing, so that the key stays, or a crash.
TableDeleteOutside(k) ==
    /\ ~tableCrash /\ HashOf[k] >= NumBins(table)
    /\ tableCrash' \in BOOLEAN
    /\ UNCHANGED <<table, inserted>>

TableNext ==
    \E k \in TableKey : \/ \E d \in Datum : TableInsert(k, d)
                        \/ TableDelete(k) \/ TableDeleteOutside(k)

TableSpec == TableInit /\ [][TableNext]_tableVars
-----------------------------------------------------------------------------
\* There is a prime for the first size, and for the next one of each size at which a
\* table may get full (the code asserts that it finds one).
PrimesSuffice ==
    \A size \in {0} \cup {n + 1 : n \in {m \in ToSet(Primes) : m * (Density + 1) <= Cardinality(TableKey)}} :
        \E i \in DOMAIN Primes : FirstAbove(size, i)

\* However often the table was rehashed, and whatever keys share a hash or a bin,
\* a key is found with the data it was given last until delete returned it, and a
\* walk over the bins meets every key once, as the count says.
TableKeeps ==
    LET there == {k \in TableKey : inserted[k] # Absent} IN
    /\ \A k \in TableKey : TableFind(table, k) = inserted[k]
    /\ table.entries = Cardinality(there)
    /\ Len(Foreach(table)) = table.entries
    /\ {n.key : n \in ToSet(Foreach(table))} = there
=============================================================================
