--------------------------- MODULE MCThunkExecutor ---------------------------
(* Instances of ThunkExecutor for TLC.                                     *)
EXTENDS ThunkExecutor

To(i, j, k) == [from |-> i, to |-> j, kind |-> k]

\* All graphs over the first three thunks, the third one followed by a sink.
Chained ==
  {g \cup {To(2, 3, "execution")} :
     g \in {h \in SUBSET {e \in Edge : e.to < 3} :
              \A e, f \in h : e.from = f.from /\ e.to = f.to => e = f}}

\* A thunk that unlocks three others at once, in both ways; a diamond with one
\* branch of each kind; four thunks that use the same communicator, of which
\* the first and the last also share a buffer.
Chosen ==
  {{To(0, j, "execution") : j \in 1 .. 3},
   {To(0, j, "scheduling") : j \in 1 .. 3},
   {To(0, 1, "scheduling"), To(0, 2, "execution"),
    To(1, 3, "scheduling"), To(2, 3, "execution")},
   {To(0, 1, "scheduling"), To(1, 2, "scheduling"), To(2, 3, "scheduling"),
    To(0, 3, "execution")}}

SomeGraphs == Chained \cup Chosen
=============================================================================
