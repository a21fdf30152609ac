------------------------------ MODULE Clusters ------------------------------
(***************************************************************************)
(* The clustering of IZP project 2 (src/1/IZP/2-project/cluster.c): main   *)
(* with the functions it calls.  A cluster is the sequence of its objects. *)
(* Coordinates are integers and distances are compared by their squares.   *)
(* The memory for an object is always there; the array of clusters has     *)
(* room for the objects of the file and is never shortened.                *)
(***************************************************************************)
EXTENDS Integers, Sequences, SequencesExt, FiniteSets

CONSTANTS
  CluFiles,       \* the objects of a file in its order, records [id, x, y]
  CluArguments    \* the integers the second argument may be

ASSUME ClustersAssumption ==
  CluFiles \subseteq Seq([id : Int, x : Int, y : Int]) /\ CluArguments \subseteq Int

VARIABLES
  cluFile, cluArgument,    \* what the program is called with
  carr,                    \* the array, from index 0 on
  narr,                    \* how many of its clusters are in use
  cluC1, cluC2,            \* c1 and c2 of main, which outlive an iteration
  cluEnd                   \* how the program ended

clusterVars == <<cluFile, cluArgument, carr, narr, cluC1, cluC2, cluEnd>>

CluRunning == "running"
Printed_ == "clusters printed"
Hangs == "appends a cluster to itself for ever"
Undefined == "uses a cluster that is not there"
Garbage == "garbage"

ClustersInit ==
  /\ cluFile \in CluFiles /\ cluArgument \in CluArguments
  /\ carr = <<>> /\ narr = -1
  /\ cluC1 = 0 /\ cluC2 = 0
  /\ cluEnd = CluRunning

EndWith(e) ==
  cluEnd' = e /\ UNCHANGED <<cluFile, cluArgument, carr, narr, cluC1, cluC2>>

\* Every id is counted as often as there is an object with it.
DistinctIds == Cardinality({p \in (DOMAIN cluFile) \X (DOMAIN cluFile) :
                              cluFile[p[1]].id = cluFile[p[2]].id}) = Len(cluFile)

\* One cluster of one object for every line.
load_clusters ==
  /\ cluEnd = CluRunning /\ narr = -1
  /\ \/ /\ ~DistinctIds /\ EndWith("4")
     \/ /\ DistinctIds
        /\ carr' = [i \in 0 .. Len(cluFile) - 1 |-> <<cluFile[i + 1]>>]
        /\ narr' = Len(cluFile)
        /\ UNCHANGED <<cluFile, cluArgument, cluC1, cluC2, cluEnd>>

\* The argument is checked after the file was read; a negative one is not
\* refused.
RefuseArgument ==
  /\ cluEnd = CluRunning /\ narr # -1
  /\ \/ cluArgument = 0 /\ EndWith("3")
     \/ cluArgument > Len(cluFile) /\ EndWith("5")

obj_distance(a, b) == (a.x - b.x) * (a.x - b.x) + (a.y - b.y) * (a.y - b.y)

\* The diagonal of the square that the coordinates are meant to be in.
FarthestDistance == 1000 * 1000 + 1000 * 1000

Smallest(numbers) == CHOOSE n \in numbers : \A m \in numbers : n <= m

cluster_distance(A, B) ==
  Smallest({FarthestDistance} \cup {obj_distance(A[i], B[j]) : i \in DOMAIN A, j \in DOMAIN B})

\* The pairs among which find_neighbours chooses, and the distance that is
\* smallest among them and below where it starts.
Pairs == {p \in (0 .. narr - 1) \X (0 .. narr - 1) : p[1] # p[2]}
Nearer == {p \in Pairs : cluster_distance(carr[p[1]], carr[p[2]]) < FarthestDistance}
Nearby(least) == {p \in Nearer : cluster_distance(carr[p[1]], carr[p[2]]) = least}
NearestPairs ==
  Nearby(Smallest({cluster_distance(carr[p[1]], carr[p[2]]) : p \in Nearer}))

\* The first such pair the loops meet; *c1 and *c2 are left as they are if
\* there is none.
find_neighbours ==
  IF Nearer = {} THEN <<cluC1, cluC2>>
  ELSE CHOOSE p \in NearestPairs :
         \A q \in NearestPairs : p[1] < q[1] \/ (p[1] = q[1] /\ p[2] <= q[2])

\* append_cluster of every object, and sort_cluster: an object goes behind
\* those of a smaller id.
InFront(s, j, k) == s[j].id < s[k].id \/ (s[j].id = s[k].id /\ j < k)
Rank(s, k) == Cardinality({j \in DOMAIN s : InFront(s, j, k)}) + 1
Sorted(s) == [r \in DOMAIN s |-> s[CHOOSE k \in DOMAIN s : Rank(s, k) = r]]
merge_clusters(A, B) == Sorted(A \o B)

\* Mutant: the cluster at the index stays and the next one goes.
remove_next_cluster(clusters, idx) ==
  [i \in DOMAIN clusters |->
     IF i <= idx \/ i >= narr THEN clusters[i]
     ELSE IF i + 1 \in DOMAIN clusters THEN clusters[i + 1] ELSE Garbage]

\* Everything from the index on moves down by one, the element behind the
\* last one included, which the first time is behind the array.
remove_cluster(clusters, idx) ==
  [i \in DOMAIN clusters |->
     IF i < idx \/ i >= narr THEN clusters[i]
     ELSE IF i + 1 \in DOMAIN clusters THEN clusters[i + 1] ELSE Garbage]

\* One iteration of main's loop.  A cluster merged with itself grows as fast
\* as it is read.
Iterate ==
  /\ cluEnd = CluRunning /\ narr # -1
  /\ cluArgument # 0 /\ cluArgument <= Len(cluFile)
  /\ narr > cluArgument
  /\ \E p \in {find_neighbours} :
       \/ /\ narr <= 0 \/ (p[1] # p[2] /\ p[2] >= narr)
          /\ EndWith(Undefined)
       \/ /\ narr > 0 /\ p[1] = p[2]
          /\ EndWith(Hangs)
       \/ /\ p[1] # p[2] /\ p[2] < narr
          /\ carr' = remove_cluster(
                       [carr EXCEPT ![p[1]] = merge_clusters(carr[p[1]], carr[p[2]])], p[2])
          /\ narr' = narr - 1
          /\ cluC1' = p[1] /\ cluC2' = p[2]
          /\ UNCHANGED <<cluFile, cluArgument, cluEnd>>

print_clusters ==
  /\ cluEnd = CluRunning /\ narr # -1
  /\ narr = cluArgument
  /\ EndWith(Printed_)

ClustersNext == load_clusters \/ RefuseArgument \/ Iterate \/ print_clusters

ClustersSpec == ClustersInit /\ [][ClustersNext]_clusterVars
-----------------------------------------------------------------------------
(* Property *)

Linkage == INSTANCE SingleLinkage
  WITH Distance <- obj_distance, classes <- {ToSet(carr[i]) : i \in 0 .. narr - 1}

InSquare == \A i \in DOMAIN cluFile :
              cluFile[i].x \in 0 .. 1000 /\ cluFile[i].y \in 0 .. 1000

\* No object is ever lost or doubled, what is printed is as many clusters as
\* were asked for, each in the order of the ids, and for objects in the square
\* every iteration that ends unites the two nearest clusters: what an earlier
\* one left in c1 and c2 is never taken for such a pair.
ClusteringIsSingleLinkage ==
  /\ [](narr # -1 =>
         /\ Cardinality({ToSet(carr[i]) : i \in 0 .. narr - 1}) = narr
         /\ UNION {ToSet(carr[i]) : i \in 0 .. narr - 1} = ToSet(cluFile)
         /\ \A i \in 0 .. narr - 1 : \A k \in 1 .. Len(carr[i]) - 1 :
              carr[i][k].id < carr[i][k + 1].id)
  /\ [](cluEnd = Printed_ => narr = cluArgument)
  /\ [][narr # -1 /\ narr' # narr /\ InSquare => Linkage!Unite]_clusterVars
=============================================================================
