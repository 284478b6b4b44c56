------------------------------ MODULE MCRoots ------------------------------
(* One folder that moves between two paths on two disks.                    *)
EXTENDS Roots, TLC

CONSTANTS p1, p2, hdd, ssd

MCDiskAt == p1 :> hdd @@ p2 :> ssd

\* Bound: goroutines that resolve at once.
TwoResolvers == Cardinality(resolvers) <= 2
=============================================================================
