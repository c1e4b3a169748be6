-------------------------- MODULE MCThunkSequence --------------------------
(* Instances of ThunkSequence for TLC.                                     *)
EXTENDS ThunkSequence

Use(a, o) == [access |-> a, slice |-> [index |-> 0, offset |-> o, size |-> 2]]
Hold(a, k) == [access |-> a, resource |-> [kind |-> k, id |-> 0]]
Op(bs, rs) == [buffers |-> bs, resources |-> rs]

\* Slices 0..1, 1..2 and 2..3 of a buffer: the middle one overlaps the others.
Menu == {Op({Use("write", 0)}, {}), Op({Use("write", 2)}, {}),
         Op({Use("read", 0)}, {}), Op({Use("write", 1)}, {}),
         Op({}, {Hold("write", "communicator")}),
         Op({Use("write", 0)}, {Hold("write", "communicator")}),
         Op({Use("read", 2)}, {Hold("write", "token")})}

\* The first operation is ordered before the fourth by an execution edge, a
\* scheduling edge and an execution edge; the direct edge is erased.
MixedPath ==
  <<Op({Use("write", 0)}, {}),
    Op({Use("read", 0)}, {Hold("write", "communicator")}),
    Op({Use("write", 2)}, {Hold("write", "communicator")}),
    Op({Use("read", 0), Use("read", 2)}, {}),
    Op({}, {Hold("write", "communicator")})>>

\* A slice that begins before the one it overlaps, a token and collectives.
Overlaps ==
  <<Op({Use("write", 1)}, {Hold("write", "communicator")}),
    Op({Use("write", 0)}, {}),
    Op({}, {Hold("write", "communicator"), Hold("read", "token")}),
    Op({Use("read", 2)}, {Hold("write", "token")}),
    Op({Use("write", 0)}, {Hold("read", "communicator")})>>

Runs == {[n \in Node |-> p[n + 1]] : p \in {MixedPath, Overlaps}}
AllPrograms == [Node -> Menu] \cup Runs
=============================================================================
