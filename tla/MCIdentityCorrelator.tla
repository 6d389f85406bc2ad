------------------------- MODULE MCIdentityCorrelator -------------------------
\* Small instances of IdentityCorrelator for TLC.
EXTENDS IdentityCorrelator, TLC

CONSTANTS i1, i2, a1, a2, b1, a, b, sa, sb

\* One container in each of two pods.
TwoPods == (a1 :> a) @@ (b1 :> b)
\* Two containers of one pod share their parent directory.
OnePod == (a1 :> a) @@ (a2 :> a)
Identities == (a :> sa) @@ (b :> sb)
IdentityA == a :> sa
IdentityP == a1 :> a

\* Cgroup ids are compared for equality only.
InodeSymmetry == Permutations(Inode)
=============================================================================
