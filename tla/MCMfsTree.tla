------------------------------ MODULE MCMfsTree ------------------------------
(***************************************************************************)
(* Instance of MfsTree for TLC.                                            *)
(***************************************************************************)
EXTENDS MfsTree, TLC

Symmetry == Permutations(Inodes \ {ROOT_INODE}) \cup Permutations(Names)

\* VFS holds one inode besides the root.  Second names of directories are tried
\* on small trees without files, with a name to spare, that nobody works in.
SmallTrees ==
    /\ Cardinality(held) <= 2
    /\ dirlinks => /\ held = {ROOT_INODE}
                   /\ Cardinality({i \in Inodes : type[i] # "free"}) <= 3
                   /\ \A i \in Inodes : type[i] # "file"
                   /\ \E n \in Names : \A d \in Inodes : entry[d][n] = NO_INODE
=============================================================================
