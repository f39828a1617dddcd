----------------------------- MODULE Registries -----------------------------
(***************************************************************************)
(* Registries that own what is registered: rq_asset_mgr and                *)
(* rq_rate_class_mgr, each with one tree by id and one per type, and       *)
(* rq_pricing_engine with a tree of its own.                               *)
(*                                                                         *)
(* The two trees of a manager have the same records for data and the       *)
(* records' strings for keys.  One of them owns the records: the trees by  *)
(* type in the asset manager, the tree by id in the other.  A walk in a    *)
(* tree with the key of a record that was freed may read it.               *)
(***************************************************************************)
EXTENDS Integers, Sequences, FiniteSets

CONSTANTS
    RecordId, RecordType,
    MaxRecords,   \* bound: nothing is added after as many records
    ProductId,    \* numbers, in the order of strcmp
    PricingAdapter, NoAdapter

ASSUME RegistryAssumption == ProductId \subseteq Int /\ NoAdapter \notin PricingAdapter

VARIABLES
    manager,   \* "assets" or "rate_classes"
    records,   \* every record that was made, by the order
    byId, byType,
    again,     \* history: the ids that were added when they were there
    stale,     \* a freed string was compared: anything may come now
    nodes,     \* the engine's: what is at each path from the head
    lost,      \* the adapters that were freed
    registered, repeated   \* history: the last of each product; was one given twice

managerVars == <<manager, records, byId, byType, again, stale>>
engineVars == <<nodes, lost, registered, repeated>>
registryVars == <<managerVars, engineVars>>

Here(tree) == {i \in RecordId : tree[i] # 0}
Dangling(recs, tree) == {i \in Here(tree) : ~recs[tree[i]].live}
NoRecords == [i \in RecordId |-> 0]
Freed(recs, S) == [a \in DOMAIN recs |-> IF a \in S THEN [recs[a] EXCEPT !.live = FALSE] ELSE recs[a]]

\* Whether a walk to an id reads a freed string: if it gets to its node it does.
ReadsFreed(recs, tree, i) ==
    CASE i \in Dangling(recs, tree) -> {TRUE}
      [] i \notin Dangling(recs, tree) /\ Dangling(recs, tree) # {} -> BOOLEAN
      [] OTHER -> {FALSE}

\* rq_tree_rb_add on the tree that owns, which frees the record it had, and then
\* with the same id on the other; both trees have the new record then.
AddToBoth(i, t, owner, other) ==
    LET a == Len(records) + 1
        made == Append(records, [id |-> i, type |-> t, live |-> TRUE])
    IN /\ ~stale /\ a <= MaxRecords
       /\ records' = Freed(made, {owner[i]})
       /\ stale' \in ReadsFreed(records', other, i)
       /\ byId' = [byId EXCEPT ![i] = a]
       /\ byType' = [byType EXCEPT ![t][i] = a]
       /\ again' = IF i \in Here(byId) THEN again \cup {i} ELSE again
       /\ UNCHANGED <<manager, nodes, lost, registered, repeated>>

\* rq_asset_mgr_add: the type's tree, which is made if it is not there, owns.
AssetAdd(i, t) == manager = "assets" /\ AddToBoth(i, t, byType[t], byId)

\* rq_rate_class_mgr_add: the tree by id owns.
RateClassAdd(i, t) == manager = "rate_classes" /\ AddToBoth(i, t, byId, byType[t])

\* Slip: the tree by id is left as it is.
AssetClear_OneTree ==
    /\ manager = "assets" /\ ~stale
    /\ records' = Freed(records, UNION {{byType[t][i] : i \in RecordId} : t \in RecordType})
    /\ byType' = [t \in RecordType |-> NoRecords]
    /\ again' = {}
    /\ UNCHANGED <<manager, byId, stale, nodes, lost, registered, repeated>>

\* rq_asset_mgr_clear: the trees by type with their assets, and then the other.
AssetClear ==
    /\ manager = "assets" /\ ~stale
    /\ records' = Freed(records, UNION {{byType[t][i] : i \in RecordId} : t \in RecordType})
    /\ byType' = [t \in RecordType |-> NoRecords]
    /\ byId' = NoRecords
    /\ again' = {}
    /\ UNCHANGED <<manager, stale, nodes, lost, registered, repeated>>
-----------------------------------------------------------------------------
\* The walk from the head of the engine's tree to a product, or to where it would
\* be: to the right if the node's id is the later one.
Walk(tree, p) ==
    LET to[n \in 0..Cardinality(DOMAIN tree)] ==
            IF n = 0 THEN << >>
            ELSE LET w == to[n-1]
                 IN IF w \notin DOMAIN tree \/ tree[w].product = p THEN w
                    ELSE Append(w, IF tree[w].product > p THEN "right" ELSE "left")
    IN to[Cardinality(DOMAIN tree)]

\* rq_pricing_engine_get_pricing_adapter, and the one that asks it for results.
GetAdapter(tree, p) ==
    LET w == Walk(tree, p) IN IF w \in DOMAIN tree THEN tree[w].adapter ELSE NoAdapter

\* Slip: a product that is there keeps its adapter.
Registered_Kept(tree, p, ad) ==
    LET w == Walk(tree, p)
    IN [x \in DOMAIN tree \cup {w} |-> IF x \in DOMAIN tree THEN tree[x]
                                       ELSE [product |-> p, adapter |-> ad]]

\* rq_pricing_engine_node_add or rq_pricing_engine_node_update.
Registered(tree, p, ad) ==
    LET w == Walk(tree, p)
    IN [x \in DOMAIN tree \cup {w} |-> IF x = w THEN [product |-> p, adapter |-> ad] ELSE tree[x]]

\* rq_pricing_engine_add_pricing_adapter: the adapter the product had is freed,
\* even if it is the same.  The client has only such as were not freed.
Register(p, ad) ==
    /\ ad \notin lost
    /\ nodes' = Registered(nodes, p, ad)
    /\ lost' = lost \cup ({GetAdapter(nodes, p)} \ {NoAdapter})
    /\ registered' = [registered EXCEPT ![p] = ad]
    /\ repeated' = (repeated \/ \E w \in DOMAIN nodes : nodes[w].adapter = ad)
    /\ UNCHANGED <<manager, records, byId, byType, again, stale>>
-----------------------------------------------------------------------------
RegistryInit ==
    /\ manager \in {"assets", "rate_classes"}
    /\ records = << >> /\ byId = NoRecords
    /\ byType = [t \in RecordType |-> NoRecords]
    /\ again = {} /\ stale = FALSE
    /\ nodes = << >> /\ lost = {}
    /\ registered = [p \in ProductId |-> NoAdapter] /\ repeated = FALSE

ManagerNext ==
    \/ \E i \in RecordId, t \in RecordType : AssetAdd(i, t) \/ RateClassAdd(i, t)
    \/ AssetClear

EngineNext == \E p \in ProductId, ad \in PricingAdapter : Register(p, ad)

RegistrySpec == RegistryInit /\ [][ManagerNext \/ EngineNext]_registryVars
-----------------------------------------------------------------------------
\* As long as no id is added that is there, the two trees agree on every record, all
\* of them alive, and no walk reads a string that was freed, after clearing neither.
\* By its id a record is found alive in any case that is not stale.
RecordsKept ==
    /\ stale => again # {}
    /\ ~stale => \A i \in Here(byId) : records[byId[i]].live
    /\ ~stale => \A i \in RecordId \ again, t \in RecordType :
        byType[t][i] = IF i \in Here(byId) /\ records[byId[i]].type = t THEN byId[i] ELSE 0

\* Every product finds the adapter it was given last, whatever the order they came in,
\* and none that was freed unless one was given twice.
AdaptersKept ==
    /\ \A p \in ProductId : GetAdapter(nodes, p) = registered[p]
    /\ ~repeated => \A w \in DOMAIN nodes : nodes[w].adapter \notin lost
=============================================================================
