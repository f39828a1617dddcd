---------------------------- MODULE MCContainers ----------------------------
(* One container or registry at a time; those that grow have sizes at which they do *)
(* it more than once.                                                              *)
EXTENDS HashTable, StringSet, PagedArray, ArrayList, LinkedList, Registries

VARIABLE using   \* the container of this behaviour

MCHash == <<3, 3, 8, 11, 1, 6, 5>>
MCPrimes == <<2, 3, 5>>
ASSUME EnoughPrimes == PrimesSuffice

\* Words of two letters, which compare by their first letters that differ.
MCLetters == << <<1, 1>>, <<1, 2>>, <<1, 4>>, <<3, 1>>, <<3, 2>>, <<5, 1>>, <<5, 2>> >>
MCStrcmp ==
    [p \in Word \X Word |->
        LET m == MCLetters[p[1]]  n == MCLetters[p[2]]
        IN IF m[1] # n[1] THEN m[1] - n[1] ELSE m[2] - n[2]]

AllVars == <<using, tableVars, setVars, pagedVars, arrayVars, listVars, registryVars>>

MCInit ==
    /\ using \in {"table", "set", "vector", "partitioned", "array", "list", "managers", "engine"}
    /\ TableInit /\ SetInit /\ PagedInit /\ ArrayInit /\ ListInit /\ RegistryInit
    /\ using # "partitioned" => owns
    /\ using # "list" => double
    /\ using # "managers" => manager = "assets"

Step(container, next, others) == using = container /\ next /\ UNCHANGED <<using, others>>

MCNext ==
    \/ Step("table", TableNext, <<setVars, pagedVars, arrayVars, listVars, registryVars>>)
    \/ Step("set", SetNext, <<tableVars, pagedVars, arrayVars, listVars, registryVars>>)
    \/ Step("vector", VectorNext, <<tableVars, setVars, arrayVars, listVars, registryVars>>)
    \/ Step("partitioned", PartitionedNext, <<tableVars, setVars, arrayVars, listVars, registryVars>>)
    \/ Step("array", ArrayNext, <<tableVars, setVars, pagedVars, listVars, registryVars>>)
    \/ Step("list", ListNext, <<tableVars, setVars, pagedVars, arrayVars, registryVars>>)
    \/ Step("managers", ManagerNext, <<tableVars, setVars, pagedVars, arrayVars, listVars>>)
    \/ Step("engine", EngineNext, <<tableVars, setVars, pagedVars, arrayVars, listVars>>)

\* What was put into the table, the set, the paged arrays and the registries is there;
\* what is sought in an array is found.  (Lists and the memory of arrays: LinksKept and
\* ArrayHolds.)
ItemsFound ==
    /\ TableKeeps /\ SetKeeps /\ ElementsKept /\ SeekLands
    /\ RecordsKept /\ AdaptersKept

MCSpec == MCInit /\ [][MCNext]_AllVars
=============================================================================
