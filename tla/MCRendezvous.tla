---------------------------- MODULE MCRendezvous ----------------------------
(* Instances of Rendezvous for TLC.                                        *)
EXTENDS Rendezvous, TLC

At(k, n, f) == [key |-> k, num_threads |-> n, flagged |-> f]

\* The program of a group of threads, all the others do nothing.
Group(g, p) == [t \in g |-> p]
Programme(f) == [t \in Thread |-> IF t \in DOMAIN f THEN f[t] ELSE <<>>]

\* Two threads back to back on one key; three
\* threads, then two of them, then all again; groups that overlap; rendezvous
\* with a flag in a row, without a result and with one; two groups that share
\* the flag.
SomePrograms ==
  {Programme(Group({1, 2}, <<At("a", 2, FALSE), At("a", 2, FALSE), At("x", 2, FALSE)>>)),
   Programme([t \in {1, 2} |-> <<At("b", 3, FALSE), At("a", 2, FALSE), At("x", 3, FALSE)>>]
             @@ (3 :> <<At("b", 3, FALSE), At("x", 3, FALSE)>>)),
   Programme((1 :> <<At("a", 2, FALSE), At("a", 2, FALSE)>>)
             @@ (2 :> <<At("a", 2, FALSE), At("b", 2, FALSE), At("a", 2, FALSE)>>)
             @@ (3 :> <<At("b", 2, FALSE)>>)),
   Programme(Group({1, 2}, <<At("x", 2, TRUE), At("x", 2, TRUE), At("x", 2, TRUE)>>)
             @@ (3 :> <<At("alone", 1, TRUE), At("alone", 1, TRUE)>>)),
   Programme(Group({1, 2}, <<At("a", 2, TRUE), At("a", 2, TRUE)>>)),
   Programme(Group({1, 2}, <<At("x", 2, TRUE)>>) @@ Group({3, 4}, <<At("b", 2, TRUE)>>))}
=============================================================================
