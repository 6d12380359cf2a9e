----------------------------- MODULE MCChangelog -----------------------------
(* Small instances of Changelog for TLC.                                   *)
EXTENDS Changelog, TLC

CONSTANTS u1, u2, w1, w2, c1

TwoUsers == {u1, u2}
TwoWriters == {w1, w2}
OneClient == {c1}

\* Every client follows the first account: the second only draws numbers.
AllOfU1 == [c \in Clients |-> u1]

WriterSymmetry == Permutations({w1, w2})
=============================================================================
