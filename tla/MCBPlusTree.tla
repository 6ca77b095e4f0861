---------------------------- MODULE MCBPlusTree ----------------------------
(* BPlusTree started from trees that are already grown: keys go in along a *)
(* stride, and some come out along another, before the operations under    *)
(* test.  Order 3 and a dozen keys give three levels, split internal nodes *)
(* and emptied leaves.                                                     *)
EXTENDS BPlusTree

CONSTANTS
    Prime,      \* the keys are the residues of a prime, so a stride meets each once
    Strides,    \* of the insertions
    Sizes       \* how many of them

MCKey == 0..(Prime - 1)

Strided(s, n) == [i \in 1..n |-> (i * s) % Prime]

Grown(s, n, m) ==
    LET inserted == FoldLeft(LAMBDA t, k : insert(t, k, k + 1), EmptyTree, Strided(s, n))
    IN  FoldLeft(delete, inserted, Strided(3, m))

MCInit ==
    \E s \in Strides, n \in Sizes, m \in {0, 5} :
       /\ tree = Grown(s, n, m)
       /\ map = [k \in Range(Strided(s, n)) \ Range(Strided(3, m)) |-> k + 1]
       /\ swept = [met |-> {}, left |-> {}]
       /\ ops = 0

MCSpec == MCInit /\ [][Next]_vars
=============================================================================
