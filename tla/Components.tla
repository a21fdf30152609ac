------------------------------ MODULE Components ------------------------------
(***************************************************************************)
(* The parts of the repository that run by themselves, side by side, for   *)
(* one run of the model checker: which one steps is chosen at the start,   *)
(* and the others stay in their first state.  They share nothing.          *)
(***************************************************************************)
EXTENDS ParserMC, SymTable, PointerStorage, CharQueue, DLList, SList,
        HashTable, SearchTree, Clusters, ChatTcp, OutputFile

VARIABLE component      \* the part that steps

componentsVars ==
  <<component, parserVars, symVars, storageVars, queueVars, dllVars, listVars,
    htVars, bstVars, clusterVars, tcpVars, vars>>

\* Names and keys with their hashes: three of them meet in every small table.
SymHashes == [a |-> 1, b |-> 3, c |-> 5, under |-> 9, ifj |-> 7]
HtHashes == [a |-> 0, b |-> 0, c |-> 0, d |-> 1]

\* Files of up to four objects, with ids out of order or one of them twice:
\* neighbours, opposite corners of the square, and one outside of it.
Points == {<<0, 0>>, <<1, 0>>, <<1000, 1000>>, <<3000, 0>>}
Files == {[i \in 1 .. n |-> [id |-> ids[i], x |-> pts[i][1], y |-> pts[i][2]]] :
            ids \in {<<3, 1, 4, 2>>, <<1, 2, 1, 3>>}, pts \in [1 .. 4 -> Points], n \in 0 .. 4}
ClusterCounts == {-1, 0, 1, 2, 3, 5}

ComponentsInit ==
  /\ component \in {"parser", "symbol table", "pointer storage", "queue", "doubly linked list",
                    "singly linked list", "hash table", "search tree", "clustering", "chat",
                    "output file"}
  /\ ParserInit
  /\ component # "parser" => menu = 1 /\ function = "main"
  /\ SymInit /\ StorageInit /\ DLLInit /\ ListInit /\ HtInit /\ BstInit /\ ChatTcpInit
  /\ Init
  /\ QueueInit
  /\ component # "queue" => dataPtr = Star
  /\ IF component = "clustering" THEN ClustersInit
     ELSE /\ cluFile = <<>> /\ cluArgument = 1 /\ carr = <<>> /\ narr = -1
          /\ cluC1 = 0 /\ cluC2 = 0 /\ cluEnd = CluRunning

\* Everything stays as it is but the state of the part c.
Keeps(c, state) == IF component = c THEN TRUE ELSE UNCHANGED state
OthersKeep ==
  /\ Keeps("parser", parserVars) /\ Keeps("symbol table", symVars)
  /\ Keeps("pointer storage", storageVars) /\ Keeps("queue", queueVars)
  /\ Keeps("doubly linked list", dllVars) /\ Keeps("singly linked list", listVars)
  /\ Keeps("hash table", htVars) /\ Keeps("search tree", bstVars)
  /\ Keeps("clustering", clusterVars) /\ Keeps("chat", tcpVars)
  /\ Keeps("output file", vars)
  /\ UNCHANGED component

ComponentsNext ==
  \/ component = "parser" /\ ParserNext /\ OthersKeep
  \/ component = "symbol table" /\ SymNext /\ OthersKeep
  \/ component = "pointer storage" /\ StorageNext /\ OthersKeep
  \/ component = "queue" /\ QueueNext /\ OthersKeep
  \/ component = "doubly linked list" /\ DLLNext /\ OthersKeep
  \/ component = "singly linked list" /\ ListNext /\ OthersKeep
  \/ component = "hash table" /\ HtNext /\ OthersKeep
  \/ component = "search tree" /\ BstNext /\ OthersKeep
  \/ component = "clustering" /\ ClustersNext /\ OthersKeep
  \/ component = "chat" /\ ChatTcpNext /\ OthersKeep
  \/ component = "output file" /\ Next /\ OthersKeep

ComponentsSpec == ComponentsInit /\ [][ComponentsNext]_componentsVars
=============================================================================
