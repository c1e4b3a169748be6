-------------------------- MODULE RendezvousProofs --------------------------
(***************************************************************************)
(* Proofs about Rendezvous, for any number of threads, any keys and all    *)
(* programs in which no more than num_threads calls meet in a round.       *)
(***************************************************************************)
EXTENDS Rendezvous, FiniteSetTheorems, WellFoundedInduction, TLAPS

Calling == [key : Key, num_threads : Nat \ {0}, flagged : BOOLEAN]
Places == {"idle", "alone", "join", "ack", "write", "publish", "complete", "invoke",
           "finish", "notify", "return", "await", "waiting", "leave"}
Holding == Places \ {"idle", "alone", "join", "leave"}
Result == [status : {"none", "ok", "error", "skipped"}, values : SUBSET (Thread \X Nat)]
Record == [ack : Nat, rel : Nat, values : SUBSET Thread, ready : BOOLEAN, result : Result]

Types ==
  /\ calls \in Programs
  /\ step \in [Thread -> Nat \ {0}]
  /\ pc \in [Thread -> Places]
  /\ id \in [Thread -> Nat]
  /\ state \in [Thread -> Nat]
  /\ states \in Seq(Record)
  /\ map \in [Key -> Nat] /\ \A k \in Key : map[k] <= Len(states)
  /\ flag \in Nat
  /\ got \in [Thread -> Seq(Result)]

\* Where a thread is in its program.
ThreadInv(t) ==
  /\ pc[t] # "idle" => step[t] \in DOMAIN calls[t]
  /\ step[t] <= Len(calls[t]) + 1
  /\ IF pc[t] \in Holding THEN state[t] \in DOMAIN states ELSE state[t] = 0
  /\ Len(got[t]) = IF pc[t] = "leave" THEN step[t] ELSE step[t] - 1
  /\ pc[t] = "leave" => Call(t).flagged
  /\ pc[t] = "alone" => Call(t).num_threads = 1

\* The flag counts the calls that are in flight, until the last one leaves.
InFlight == {t \in Thread : pc[t] # "idle" /\ Call(t).flagged}
FlagInv ==
  IF flag = kCompleted THEN InFlight = {} ELSE flag = Cardinality(InFlight)

\* Where the call c = <<thread, step>> is.
Stage(c) ==
  CASE step[c[1]] > c[2] -> "done"
    [] step[c[1]] < c[2] -> "idle"
    [] OTHER -> pc[c[1]]

Acked(c) == Stage(c) \notin {"idle", "alone", "join", "ack"}
Written(c) == Stage(c) \notin {"idle", "alone", "join", "ack", "write"}
Published(c) == Stage(c) \notin {"idle", "alone", "join", "ack", "write", "publish"}
Leads(c) == Stage(c) \in {"complete", "invoke", "finish"}
Over(c) == Stage(c) \in {"notify", "return", "leave", "done"}

\* The call will not lead: it waits or, in a rendezvous without a result, is
\* about to wait.
Waits(c, k, n) ==
  \/ Stage(c) \in {"await", "waiting"}
  \/ k \in Barriers /\ Stage(c) \in {"write", "publish"} /\ id[c[1]] < n - 1

\* A result the calls in P may get.
Proper(r, P, k) ==
  /\ r.status \in {"ok", "error"}
  /\ r.status = "ok" /\ k \notin Barriers => r.values = P

Has(c) == c[2] \in DOMAIN got[c[1]]
Got(c) == got[c[1]][c[2]]

\* The calls in P are those that meet at state s, with key k and n threads.
Members(P, s) ==
  \A u \in Thread : state[u] = s <=> state[u] # 0 /\ <<u, step[u]>> \in P
Counters(P, s, k) ==
  /\ states[s].ack = Cardinality({c \in P : Acked(c)})
  /\ k \notin Barriers => states[s].rel = Cardinality({c \in P : Published(c)})
  /\ \A u \in Thread : u \in states[s].values <=> \E c \in P : c[1] = u /\ Written(c)
InTheMap(P, s, k) ==
  /\ (\E c \in P : ~Acked(c)) => map[k] = s
  /\ \A l \in Key : map[l] = s => l = k
  /\ states[s].ready \/ (\E c \in P : Stage(c) \in {"invoke", "finish"}) => map[k] # s
Ids(P, s, k) ==
  k \in Barriers =>
    \A c, d \in P : /\ Acked(c) /\ Stage(c) \in Holding
                    /\ Acked(d) /\ Stage(d) \in Holding
                    => id[c[1]] < states[s].ack /\ (c # d => id[c[1]] # id[d[1]])
Leader(P, s, k, n) ==
  \A c \in P : Leads(c) =>
    /\ ~states[s].ready /\ Cardinality(P) = n
    /\ \A d \in P : d # c => Waits(d, k, n)
Readiness(P, s, k, n) ==
  /\ states[s].ready => \A c \in P : Over(c) \/ Waits(c, k, n)
  /\ \A c \in P : Over(c) => states[s].ready
  /\ states[s].ready \/ (\E c \in P : Stage(c) = "finish") => Proper(states[s].result, P, k)
  /\ \A c \in P : Has(c) => Got(c) = states[s].result

Meeting(P, s, k, n) ==
  /\ Members(P, s)
  /\ Counters(P, s, k)
  /\ InTheMap(P, s, k)
  /\ Ids(P, s, k)
  /\ Leader(P, s, k, n)
  /\ Readiness(P, s, k, n)

Here(t) == Together(calls, t, step[t])
MeetingOf(t) == Meeting(Here(t), state[t], Call(t).key, Call(t).num_threads)

\* What the calls that are over have got: the flag was completed, or the same
\* proper result as all the others, all of which have come.
GotInv(t, i) ==
  IF got[t][i].status = "skipped"
    THEN got[t][i] = Skipped /\ flag = kCompleted /\ calls[t][i].flagged
    ELSE /\ Proper(got[t][i], Together(calls, t, i), calls[t][i].key)
         /\ \A c \in Together(calls, t, i) : Acked(c)

RInv ==
  /\ Types
  /\ \A t \in Thread : ThreadInv(t)
  /\ FlagInv
  /\ \A t \in Thread : state[t] # 0 => MeetingOf(t)
  /\ \A t \in Thread : \A i \in DOMAIN got[t] : GotInv(t, i)
  /\ ParticipantsAgree
  /\ ChecksHold
-----------------------------------------------------------------------------
(* Facts about programs: the calls of a round, and the earlier rounds of a *)
(* thread.                                                                 *)

LEMMA LeastNat ==
  ASSUME NEW T \in SUBSET Nat, T # {}
  PROVE  \E x \in T : \A y \in T : x <= y
<1> DEFINE R == {p \in Nat \X Nat : p[1] < p[2]}
<1>1. IsWellFoundedOn(R, Nat)
  BY NatLessThanWellFounded, Zenon DEF OpToRel
<1>2. PICK x \in T : \A y \in T : ~ (<<y, x>> \in R)
  <2> HIDE DEF R
  <2> QED  BY <1>1, WFMin
<1>3. ASSUME NEW y \in T  PROVE x <= y
  BY <1>2, <<y, x>> \in Nat \X Nat
<1> QED  BY <1>3

LEMMA GreatestNat ==
  ASSUME NEW m \in Nat, NEW T \in SUBSET (1 .. m), T # {}
  PROVE  \E x \in T : \A y \in T : y <= x
<1> DEFINE D == {m - x : x \in T}
<1>1. D \in SUBSET Nat /\ D # {}
  <2>1. \A x \in T : m - x \in Nat
    OBVIOUS
  <2> QED  BY <2>1
<1>2. PICK d \in D : \A c \in D : d <= c
  <2> HIDE DEF D
  <2> QED  BY <1>1, LeastNat
<1>3. PICK x \in T : d = m - x
  OBVIOUS
<1>4. ASSUME NEW y \in T  PROVE y <= x
  <2>1. d <= m - y
    BY <1>2
  <2> QED  BY <1>3, <2>1
<1> QED  BY <1>4

AllCalls(p) == UNION {{<<u, j>> : j \in DOMAIN p[u]} : u \in Thread}

LEMMA ProgramType ==
  ASSUME NEW p \in Programs, NEW t \in Thread
  PROVE  /\ p[t] \in Seq(Calling) /\ Len(p[t]) \in Nat
         /\ DOMAIN p[t] = 1 .. Len(p[t])
         /\ \A i \in DOMAIN p[t] : p[t][i] \in Calling /\ i \in Nat \ {0}
<1>1. p \in [Thread -> Seq(Calling)]
  BY ProgramsAssumption DEF Calling
<1>2. p[t] \in Seq(Calling)
  BY <1>1
<1> QED  BY <1>2

LEMMA AllCallsFacts ==
  ASSUME NEW p \in Programs, NEW c \in AllCalls(p)
  PROVE  c = <<c[1], c[2]>> /\ c[1] \in Thread /\ c[2] \in DOMAIN p[c[1]]
BY DEF AllCalls

LEMMA AllCallsFinite ==
  ASSUME NEW p \in Programs
  PROVE  IsFiniteSet(AllCalls(p))
<1> DEFINE F(u) == {<<u, j>> : j \in DOMAIN p[u]}
           G == {F(u) : u \in Thread}
<1>1. IsFiniteSet(G)
  <2>1. IsFiniteSet(Thread)
    BY ThreadAssumption
  <2> DEFINE f == [u \in Thread |-> F(u)]
  <2>2. f \in Surjection(Thread, G)
    BY DEF Surjection
  <2> HIDE DEF f, G
  <2> QED  BY <2>1, <2>2, FS_Surjection
<1>2. ASSUME NEW u \in Thread  PROVE IsFiniteSet(F(u))
  <2>1. DOMAIN p[u] = 1 .. Len(p[u]) /\ Len(p[u]) \in Nat
    BY ProgramType
  <2>2. IsFiniteSet(DOMAIN p[u])
    BY <2>1, FS_Interval
  <2> DEFINE g == [j \in DOMAIN p[u] |-> <<u, j>>]
  <2>3. g \in Surjection(DOMAIN p[u], F(u))
    BY DEF Surjection
  <2> HIDE DEF g, F
  <2> QED  BY <2>2, <2>3, FS_Surjection
<1>3. \A S \in G : IsFiniteSet(S)
  BY <1>2
<1>4. IsFiniteSet(UNION G)
  <2> HIDE DEF G
  <2> QED  BY <1>1, <1>3, FS_UNION
<1>5. UNION G = AllCalls(p)
  BY DEF AllCalls
<1> QED  BY <1>4, <1>5

\* The calls of a round.
LEMMA RoundCalls ==
  ASSUME NEW p \in Programs, NEW t \in Thread, NEW i \in DOMAIN p[t],
         NEW c \in Together(p, t, i)
  PROVE  /\ c = <<c[1], c[2]>> /\ c[1] \in Thread /\ c[2] \in DOMAIN p[c[1]]
         /\ c[2] \in Nat /\ c[2] # 0
         /\ p[c[1]][c[2]] = p[t][i]
<1>1. c \in AllCalls(p)
  BY DEF Together, AllCalls
<1>2. c = <<c[1], c[2]>> /\ c[1] \in Thread /\ c[2] \in DOMAIN p[c[1]]
  BY <1>1, AllCallsFacts
<1>3. p[c[1]][c[2]] = p[t][i]
  BY ProgramsAssumption
<1> QED  BY <1>2, <1>3, ProgramType

LEMMA SameRound ==
  ASSUME NEW p \in Programs, NEW t \in Thread, NEW i \in DOMAIN p[t],
         NEW c \in Together(p, t, i)
  PROVE  Together(p, c[1], c[2]) = Together(p, t, i)
BY DEF Together

LEMMA TogetherFacts ==
  ASSUME NEW p \in Programs, NEW t \in Thread, NEW i \in DOMAIN p[t]
  PROVE  /\ <<t, i>> \in Together(p, t, i)
         /\ IsFiniteSet(Together(p, t, i))
         /\ Cardinality(Together(p, t, i)) \in Nat
         /\ Cardinality(Together(p, t, i)) <= p[t][i].num_threads
<1>1. Together(p, t, i) \in SUBSET AllCalls(p)
  BY DEF Together, AllCalls
<1>2. <<t, i>> \in Together(p, t, i)
  BY DEF Together
<1>3. IsFiniteSet(Together(p, t, i)) /\ Cardinality(Together(p, t, i)) \in Nat
  BY <1>1, AllCallsFinite, FS_Subset, FS_CardinalityType
<1> QED  BY <1>2, <1>3, ProgramsAssumption

LEMMA RoundType ==
  ASSUME NEW p, NEW t, NEW i \in Nat \ {0}
  PROVE  Round(p, t, i) \in Nat /\ Round(p, t, i) >= 1
<1> DEFINE S == {j \in 1 .. i : p[t][j].key = p[t][i].key}
<1>1. i \in S /\ S \in SUBSET (1 .. i) /\ i \in Int /\ 1 \in Int
  OBVIOUS
<1>2. Round(p, t, i) = Cardinality(S)
  BY DEF Round
<1> HIDE DEF S
<1>3. IsFiniteSet(1 .. i)
  BY ONLY <1>1, FS_Interval
<1>4. IsFiniteSet(S)
  BY <1>1, <1>3, FS_Subset
<1>5. Cardinality(S) \in Nat /\ Cardinality(S) # 0
  BY <1>1, <1>4, FS_CardinalityType, FS_EmptySet
<1> QED  BY <1>2, <1>5

\* A thread that is in round r of a key has been in all earlier rounds of it.
LEMMA EarlierRounds ==
  ASSUME NEW p \in Programs, NEW t \in Thread, NEW i \in DOMAIN p[t],
         NEW r \in Nat, r >= 1, r <= Round(p, t, i)
  PROVE  \E j \in 1 .. i : p[t][j].key = p[t][i].key /\ Round(p, t, j) = r
<1> DEFINE k == p[t][i].key
           U(j) == {x \in 1 .. j : p[t][x].key = k}
           J == {x \in 1 .. i : p[t][x].key = k /\ Cardinality(U(x)) >= r}
<1>1. i \in Nat /\ i >= 1
  BY ProgramType
<1>2. \A j \in 1 .. i : p[t][j].key = k => Round(p, t, j) = Cardinality(U(j))
  BY DEF Round
<1>3. ASSUME NEW j \in 1 .. i
      PROVE  IsFiniteSet(U(j)) /\ Cardinality(U(j)) \in Nat
  <2>1. U(j) \in SUBSET (1 .. j) /\ j \in Int
    BY <1>1
  <2>2. IsFiniteSet(1 .. j)
    BY <2>1, FS_Interval
  <2> HIDE DEF U
  <2> QED  BY <2>1, <2>2, FS_Subset, FS_CardinalityType
<1>4. i \in J
  BY <1>1, <1>2
<1>5. PICK j \in J : \A y \in J : j <= y
  <2>1. J \in SUBSET Nat /\ J # {}
    <3>1. \A x \in 1 .. i : x \in Nat
      BY <1>1
    <3> HIDE DEF U
    <3> QED  BY <1>4, <3>1
  <2> HIDE DEF J
  <2> QED  BY <2>1, LeastNat
<1>6. j \in 1 .. i /\ j \in Nat /\ p[t][j].key = k /\ Cardinality(U(j)) >= r
  OBVIOUS
<1>7. Cardinality(U(j)) = r
  <2>1. SUFFICES ASSUME Cardinality(U(j)) > r PROVE FALSE
    BY <1>3, <1>6
  <2> DEFINE V == U(j) \ {j}
  <2>2. IsFiniteSet(U(j)) /\ Cardinality(U(j)) \in Nat /\ j \in U(j)
    BY <1>3, <1>6
  <2>3. IsFiniteSet(V) /\ Cardinality(V) = Cardinality(U(j)) - 1
    <3> HIDE DEF U
    <3> QED  BY <2>2, FS_RemoveElement
  <2>4. Cardinality(V) >= r /\ V # {}
    <3>1. Cardinality(V) >= r
      BY <2>1, <2>2, <2>3
    <3> HIDE DEF V
    <3> QED  BY <3>1, FS_EmptySet
  <2>5. V \in SUBSET (1 .. j)
    OBVIOUS
  <2>6. PICK m \in V : \A y \in V : y <= m
    <3> HIDE DEF V
    <3> QED  BY <1>6, <2>4, <2>5, GreatestNat
  <2>7. m \in 1 .. i /\ m < j /\ p[t][m].key = k
    BY <1>1, <1>6
  <2>8. U(m) = V
    BY <1>1, <1>6, <2>6, <2>7
  <2>9. m \in J
    BY <2>4, <2>7, <2>8
  <2> QED  BY <1>5, <1>6, <2>7, <2>9
<1> QED  BY <1>2, <1>6, <1>7
-----------------------------------------------------------------------------
(* What a step of a thread leaves alone.                                   *)

LEMMA ThreadFacts ==
  ASSUME RInv, NEW t \in Thread
  PROVE  /\ step[t] \in Nat \ {0} /\ pc[t] \in Places /\ id[t] \in Nat /\ state[t] \in Nat
         /\ got[t] \in Seq(Result) /\ Len(got[t]) \in Nat
         /\ DOMAIN got[t] = 1 .. Len(got[t])
         /\ calls[t] \in Seq(Calling) /\ DOMAIN calls[t] = 1 .. Len(calls[t])
         /\ Len(calls[t]) \in Nat
         /\ ThreadInv(t)
         /\ state[t] # 0 <=> pc[t] \in Holding
<1>1. Types /\ ThreadInv(t)
  BY DEF RInv
<1>2. /\ step[t] \in Nat \ {0} /\ pc[t] \in Places /\ id[t] \in Nat /\ state[t] \in Nat
      /\ got[t] \in Seq(Result) /\ calls \in Programs /\ states \in Seq(Record)
  BY <1>1 DEF Types
<1>3. Len(got[t]) \in Nat /\ DOMAIN got[t] = 1 .. Len(got[t]) /\ 0 \notin DOMAIN states
  BY <1>2
<1>4. /\ calls[t] \in Seq(Calling) /\ DOMAIN calls[t] = 1 .. Len(calls[t])
      /\ Len(calls[t]) \in Nat
  BY <1>2, ProgramType
<1>5. state[t] # 0 <=> pc[t] \in Holding
  BY <1>1, <1>3 DEF ThreadInv
<1> QED  BY <1>1, <1>2, <1>3, <1>4, <1>5

\* The calls of the round a thread is in.
LEMMA HereFacts ==
  ASSUME RInv, NEW t \in Thread, pc[t] # "idle"
  PROVE  /\ calls \in Programs /\ step[t] \in DOMAIN calls[t] /\ Call(t) \in Calling
         /\ <<t, step[t]>> \in Here(t)
         /\ IsFiniteSet(Here(t)) /\ Cardinality(Here(t)) \in Nat
         /\ Cardinality(Here(t)) <= Call(t).num_threads
         /\ \A c \in Here(t) :
              /\ c = <<c[1], c[2]>> /\ c[1] \in Thread /\ c[2] \in DOMAIN calls[c[1]]
              /\ c[2] \in Nat /\ c[2] # 0
              /\ calls[c[1]][c[2]] = Call(t)
<1>1. calls \in Programs /\ step[t] \in DOMAIN calls[t]
  BY DEF RInv, Types, ThreadInv
<1>2. Call(t) \in Calling
  BY <1>1, ProgramType DEF Call
<1>3. ASSUME NEW c \in Here(t)
      PROVE  /\ c = <<c[1], c[2]>> /\ c[1] \in Thread /\ c[2] \in DOMAIN calls[c[1]]
             /\ c[2] \in Nat /\ c[2] # 0
             /\ calls[c[1]][c[2]] = Call(t)
  BY <1>1, RoundCalls DEF Here, Call
<1> QED  BY <1>1, <1>2, <1>3, TogetherFacts DEF Here, Call

LEMMA HereSame ==
  ASSUME RInv, NEW t \in Thread, pc[t] # "idle", NEW c \in Here(t)
  PROVE  Together(calls, c[1], c[2]) = Here(t)
BY HereFacts, SameRound DEF Here

\* The calls of the round of a call that is over.
LEMMA PastFacts ==
  ASSUME RInv, NEW u \in Thread, NEW i \in DOMAIN got[u]
  PROVE  /\ i \in Nat /\ i <= step[u] /\ (pc[u] # "leave" => i < step[u])
         /\ i \in DOMAIN calls[u] /\ calls \in Programs
         /\ GotInv(u, i)
<1>1. i \in 1 .. Len(got[u]) /\ Len(got[u]) \in Nat
  BY ThreadFacts
<1>2. i \in DOMAIN calls[u] /\ i <= step[u] /\ (pc[u] # "leave" => i < step[u])
  BY <1>1, ThreadFacts DEF ThreadInv
<1> QED  BY <1>1, <1>2 DEF RInv, Types

\* Two threads that hold the same state are in the same round.
LEMMA SameHere ==
  ASSUME RInv, NEW t \in Thread, state[t] # 0, NEW u \in Thread, state[u] = state[t]
  PROVE  Here(u) = Here(t) /\ Call(u) = Call(t)
<1>1. Members(Here(t), state[t])
  BY DEF RInv, MeetingOf, Meeting
<1>2. <<u, step[u]>> \in Here(t)
  BY <1>1 DEF Members
<1>3. pc[t] # "idle"
  BY ThreadFacts DEF Holding
<1>4. Call(u) = Call(t)
  BY <1>2, <1>3, HereFacts DEF Call
<1>5. Here(u) = Here(t)
  BY <1>2, <1>3, HereSame DEF Here
<1> QED  BY <1>4, <1>5

\* A holder of a state is in one round only.
LEMMA SameState ==
  ASSUME RInv, NEW t \in Thread, state[t] # 0, NEW u \in Thread, state[u] # 0,
         <<u, step[u]>> \in Here(t)
  PROVE  state[u] = state[t]
BY DEF RInv, MeetingOf, Meeting, Members

Similar(a, b) ==
  \/ a = b
  \/ {a, b} \subseteq {"idle", "alone", "join"}
  \/ {a, b} \subseteq {"await", "waiting"}
  \/ {a, b} \subseteq {"notify", "return"}
  \/ {a, b} \subseteq {"leave", "done"}

\* The step makes no difference to the round of c.
Alike(c) ==
  /\ Similar(Stage(c), Stage(c)')
  /\ Stage(c) \in Holding => id'[c[1]] = id[c[1]]
  /\ Has(c)' <=> Has(c)
  /\ Has(c) => Got(c)' = Got(c)

\* A step of thread t: the others may be woken up.
Local(t) ==
  /\ calls' = calls
  /\ \A u \in Thread \ {t} :
       /\ step'[u] = step[u] /\ id'[u] = id[u] /\ state'[u] = state[u] /\ got'[u] = got[u]
       /\ pc'[u] = pc[u] \/ (pc[u] = "waiting" /\ pc'[u] = "await")
  /\ \/ step'[t] = step[t]
     \/ step'[t] = step[t] + 1 /\ pc'[t] = "idle"
  /\ state'[t] # 0 => step'[t] = step[t]
  /\ \/ got'[t] = got[t]
     \/ Len(got[t]) = step[t] - 1 /\ \E r \in Result : got'[t] = Append(got[t], r)

LEMMA OthersAlike ==
  ASSUME RInv, NEW t \in Thread, Local(t),
         NEW c, c = <<c[1], c[2]>>, c[1] \in Thread, c[2] \in Nat, c # <<t, step[t]>>
  PROVE  Alike(c)
<1>1. CASE c[1] # t
  <2>1. /\ step'[c[1]] = step[c[1]] /\ id'[c[1]] = id[c[1]] /\ got'[c[1]] = got[c[1]]
        /\ pc'[c[1]] = pc[c[1]] \/ (pc[c[1]] = "waiting" /\ pc'[c[1]] = "await")
    BY <1>1 DEF Local
  <2>2. Similar(Stage(c), Stage(c)')
    BY <2>1 DEF Similar, Stage
  <2>3. (Has(c)' <=> Has(c)) /\ (Has(c) => Got(c)' = Got(c))
    BY <2>1 DEF Has, Got
  <2> QED  BY <2>1, <2>2, <2>3 DEF Alike
<1>2. CASE c[1] = t
  <2>1. c[2] # step[t]
    BY <1>2
  <2>2. step[t] \in Nat /\ got[t] \in Seq(Result) /\ Len(got[t]) \in Nat
        /\ DOMAIN got[t] = 1 .. Len(got[t])
    BY ThreadFacts
  <2>3. Stage(c)' = Stage(c) /\ Stage(c) \in {"idle", "done"}
    BY <1>2, <2>1, <2>2 DEF Local, Stage
  <2>4. (Has(c)' <=> Has(c)) /\ (Has(c) => Got(c)' = Got(c))
    <3>1. CASE got'[t] = got[t]
      BY <1>2, <3>1 DEF Has, Got
    <3>2. CASE Len(got[t]) = step[t] - 1 /\ \E r \in Result : got'[t] = Append(got[t], r)
      <4>1. PICK r \in Result : got'[t] = Append(got[t], r)
        BY <3>2
      <4>2. /\ DOMAIN got'[t] = 1 .. step[t]
            /\ \A x \in 1 .. Len(got[t]) : got'[t][x] = got[t][x]
        BY <2>2, <3>2, <4>1
      <4> QED  BY <1>2, <2>1, <2>2, <3>2, <4>2 DEF Has, Got
    <3> QED  BY <3>1, <3>2 DEF Local
  <2>5. Similar(Stage(c), Stage(c)') /\ Stage(c) \notin Holding
    BY <2>3 DEF Similar, Holding, Places
  <2> QED  BY <2>4, <2>5 DEF Alike
<1> QED  BY <1>1, <1>2

LEMMA AlikeStages ==
  ASSUME NEW c, Alike(c), NEW k, NEW n
  PROVE  /\ Acked(c)' <=> Acked(c)
         /\ Written(c)' <=> Written(c)
         /\ Published(c)' <=> Published(c)
         /\ Leads(c)' <=> Leads(c)
         /\ Over(c)' <=> Over(c)
         /\ Stage(c)' \in Holding <=> Stage(c) \in Holding
         /\ \A x \in {"invoke", "finish"} : Stage(c)' = x <=> Stage(c) = x
         /\ Waits(c, k, n)' <=> Waits(c, k, n)
<1>1. PICK a, b : a = Stage(c) /\ b = Stage(c)'
  OBVIOUS
<1>2. Similar(a, b)
  BY <1>1 DEF Alike
<1>3. a \in {"write", "publish"} => id'[c[1]] = id[c[1]]
  BY <1>1 DEF Alike, Holding, Places
<1>4. Waits(c, k, n)' <=> Waits(c, k, n)
  BY <1>1, <1>2, <1>3 DEF Waits, Similar
<1> QED  BY <1>1, <1>2, <1>4
         DEF Similar, Acked, Written, Published, Leads, Over, Holding, Places

\* A meeting whose calls are left alone goes on.
LEMMA Frame ==
  ASSUME NEW P, NEW s, NEW k, NEW n, Meeting(P, s, k, n),
         \A c \in P : Alike(c),
         states'[s] = states[s], Members(P, s)',
         (\E c \in P : ~Acked(c)) => map'[k] = s,
         \A l \in Key : map'[l] = s => map[l] = s, k \in Key
  PROVE  Meeting(P, s, k, n)'
<1>1. ASSUME NEW c \in P
      PROVE  /\ Acked(c)' <=> Acked(c)
             /\ Written(c)' <=> Written(c)
             /\ Published(c)' <=> Published(c)
             /\ Leads(c)' <=> Leads(c)
             /\ Over(c)' <=> Over(c)
             /\ Stage(c)' \in Holding <=> Stage(c) \in Holding
             /\ \A x \in {"invoke", "finish"} : Stage(c)' = x <=> Stage(c) = x
             /\ Waits(c, k, n)' <=> Waits(c, k, n)
  BY AlikeStages
<1>2. Counters(P, s, k)'
  <2>1. {c \in P : Acked(c)}' = {c \in P : Acked(c)}
    BY <1>1
  <2>2. {c \in P : Published(c)}' = {c \in P : Published(c)}
    BY <1>1
  <2> QED  BY <1>1, <2>1, <2>2 DEF Counters, Meeting
<1>3. InTheMap(P, s, k)'
  <2>1. InTheMap(P, s, k)
    BY DEF Meeting
  <2>2. (\E c \in P : Stage(c)' \in {"invoke", "finish"})
          => \E c \in P : Stage(c) \in {"invoke", "finish"}
    BY <1>1
  <2>3. (\E c \in P : ~Acked(c)') => \E c \in P : ~Acked(c)
    BY <1>1
  <2> QED  BY <2>1, <2>2, <2>3 DEF InTheMap
<1>4. Ids(P, s, k)'
  <2>1. \A c \in P : Stage(c) \in Holding => id'[c[1]] = id[c[1]]
    BY DEF Alike
  <2> QED  BY <1>1, <2>1 DEF Ids, Meeting
<1>5. Leader(P, s, k, n)'
  BY <1>1 DEF Leader, Meeting
<1>6. Readiness(P, s, k, n)'
  <2>1. \A c \in P : (Has(c)' <=> Has(c)) /\ (Has(c) => Got(c)' = Got(c))
    BY DEF Alike
  <2>2. Readiness(P, s, k, n)
    BY DEF Meeting
  <2>3. (\E c \in P : Stage(c)' = "finish") => \E c \in P : Stage(c) = "finish"
    BY <1>1
  <2> QED  BY <1>1, <2>1, <2>2, <2>3 DEF Readiness, Proper
<1> QED  BY <1>2, <1>3, <1>4, <1>5, <1>6 DEF Meeting

\* The meeting of another thread u goes on when t takes a step elsewhere.
LEMMA Elsewhere ==
  ASSUME RInv, NEW t \in Thread, Local(t), NEW u \in Thread, u # t, state[u] # 0,
         NEW me, me = <<t, step[t]>>, me \notin Here(u) \/ Alike(me),
         state'[t] # state[u], state'[t] # 0 => me \notin Here(u),
         states'[state[u]] = states[state[u]],
         (\E c \in Here(u) : ~Acked(c)) => map'[Call(u).key] = state[u],
         \A l \in Key : map'[l] = state[u] => map[l] = state[u]
  PROVE  MeetingOf(u)'
<1>1. PICK P, s, k, n : P = Here(u) /\ s = state[u] /\ k = Call(u).key /\ n = Call(u).num_threads
  OBVIOUS
<1>2. pc[u] # "idle"
  BY ThreadFacts DEF Holding
<1>3. k \in Key
  BY <1>1, <1>2, HereFacts DEF Calling
<1>4. Meeting(P, s, k, n)
  BY <1>1 DEF RInv, MeetingOf
<1>5. step'[u] = step[u] /\ state'[u] = s /\ calls' = calls
  BY <1>1 DEF Local
<1>6. Here(u)' = P /\ Call(u)' = Call(u)
  BY <1>1, <1>5 DEF Here, Call
<1>7. ASSUME NEW c \in P  PROVE Alike(c)
  <2>1. c = <<c[1], c[2]>> /\ c[1] \in Thread /\ c[2] \in Nat
    BY <1>1, <1>2, HereFacts
  <2>2. CASE c # me
    BY <2>1, <2>2, OthersAlike
  <2>3. CASE c = me
    BY <1>1, <2>3
  <2> QED  BY <2>2, <2>3
<1>8. Members(P, s)'
  <2>1. \A v \in Thread : state[v] = s <=> state[v] # 0 /\ <<v, step[v]>> \in P
    BY <1>4 DEF Meeting, Members
  <2>2. \A v \in Thread \ {t} : state'[v] = state[v] /\ step'[v] = step[v]
    BY DEF Local
  <2>3. state'[t] # s /\ (state'[t] # 0 => <<t, step'[t]>> \notin P)
    BY <1>1 DEF Local
  <2> QED  BY <2>1, <2>2, <2>3 DEF Members
<1>9. Meeting(P, s, k, n)'
  BY <1>1, <1>3, <1>4, <1>7, <1>8, Frame
<1> QED  BY <1>1, <1>5, <1>6, <1>9 DEF MeetingOf
-----------------------------------------------------------------------------
(* The steps of a thread between Join and Return.                          *)

Inner(t) ==
  /\ state[t] # 0
  /\ UNCHANGED <<calls, step, state, flag, got>>
  /\ pc' \in [Thread -> Places] /\ pc'[t] \in Holding \ {"ack"}
  /\ \A u \in Thread \ {t} : pc'[u] = pc[u] \/ (pc[u] = "waiting" /\ pc'[u] = "await")
  /\ id' \in [Thread -> Nat] /\ \A u \in Thread \ {t} : id'[u] = id[u]
  /\ states' \in Seq(Record) /\ Len(states') = Len(states)
  /\ \A x \in DOMAIN states \ {state[t]} : states'[x] = states[x]
  /\ process' # "check"

\* The entries of the map others need stay, an entry may be erased.
MapKept(t) ==
  /\ map' \in [Key -> Nat] /\ \A l \in Key : map'[l] \in {map[l], 0}
  /\ \A u \in Thread : state[u] # 0 /\ state[u] # state[t] /\ (\E c \in Here(u) : ~Acked(c))
       => map'[Call(u).key] = map[Call(u).key]

LEMMA InnerIsLocal ==
  ASSUME NEW t \in Thread, Inner(t)
  PROVE  Local(t)
BY DEF Inner, Local

LEMMA InnerAcked ==
  ASSUME RInv, NEW t \in Thread, Inner(t),
         NEW c, c = <<c[1], c[2]>>, c[1] \in Thread, c[2] \in Nat, Acked(c)
  PROVE  Acked(c)'
<1>1. CASE c # <<t, step[t]>>
  BY <1>1, OthersAlike, InnerIsLocal, AlikeStages
<1>2. CASE c = <<t, step[t]>>
  <2>1. step'[t] = step[t] /\ step[t] \in Nat /\ pc'[t] \in Holding \ {"ack"}
    BY ThreadFacts DEF Inner
  <2>2. c[1] = t /\ c[2] = step[t]
    BY <1>2
  <2>3. Stage(c)' = pc'[t]
    BY <2>1, <2>2 DEF Stage
  <2> QED  BY <2>1, <2>3 DEF Acked, Holding
<1> QED  BY <1>1, <1>2

LEMMA InnerKeeps ==
  ASSUME RInv, NEW t \in Thread, Inner(t), MapKept(t),
         NEW P, NEW s, NEW k, NEW n, P = Here(t), s = state[t], k = Call(t).key,
         n = Call(t).num_threads, Meeting(P, s, k, n)'
  PROVE  RInv'
<1>1. /\ Types /\ calls' = calls /\ step' = step /\ state' = state /\ flag' = flag
      /\ got' = got
  BY DEF Inner, RInv
<1>2. pc[t] \in Holding /\ pc'[t] \in Holding /\ s \in DOMAIN states
  BY ThreadFacts DEF Inner, ThreadInv
<1>3. DOMAIN states' = DOMAIN states /\ states \in Seq(Record)
  BY <1>1 DEF Inner, Types
<1>4. Types'
  <2>1. \A l \in Key : map'[l] <= Len(states')
    <3>1. \A l \in Key : map[l] \in Nat /\ map[l] <= Len(states)
      BY <1>1 DEF Types
    <3>2. Len(states') = Len(states) /\ Len(states) \in Nat
      BY <1>3 DEF Inner
    <3> QED  BY <3>1, <3>2 DEF MapKept
  <2> QED  BY <1>1, <2>1 DEF Types, Inner, MapKept
<1>5. ASSUME NEW u \in Thread  PROVE ThreadInv(u)'
  <2>1. ThreadInv(u)
    BY DEF RInv
  <2>2. CASE u = t
    <3>1. pc'[t] \notin {"idle", "leave", "alone"} /\ pc[t] \notin {"idle", "leave", "alone"}
      BY <1>2 DEF Holding
    <3> QED  BY <1>1, <1>2, <1>3, <2>1, <2>2, <3>1 DEF ThreadInv
  <2>3. CASE u # t
    <3>1. pc'[u] = pc[u] \/ (pc[u] = "waiting" /\ pc'[u] = "await")
      BY <2>3 DEF Inner
    <3>2. Call(u)' = Call(u)
      BY <1>1 DEF Call
    <3> QED  BY <1>1, <1>3, <2>1, <3>1, <3>2 DEF ThreadInv, Holding, Places
  <2> QED  BY <2>2, <2>3
<1>6. FlagInv'
  <2>1. InFlight' = InFlight
    <3>1. \A u \in Thread : pc'[u] # "idle" <=> pc[u] # "idle"
      BY <1>2 DEF Inner, Holding
    <3>2. \A u \in Thread : Call(u)' = Call(u)
      BY <1>1 DEF Call
    <3> QED  BY <3>1, <3>2 DEF InFlight
  <2> QED  BY <1>1, <2>1 DEF FlagInv, RInv
<1>7. ASSUME NEW u \in Thread, state'[u] # 0  PROVE MeetingOf(u)'
  <2>1. CASE state[u] = state[t]
    <3>1. Here(u) = P /\ Call(u) = Call(t)
      BY <1>1, <1>7, <2>1, SameHere
    <3>2. Here(u)' = P /\ Call(u)' = Call(u) /\ state'[u] = s
      BY <1>1, <2>1, <3>1 DEF Here, Call
    <3> QED  BY <3>1, <3>2 DEF MeetingOf
  <2>2. CASE state[u] # state[t]
    <3>1. u # t /\ state[u] # 0 /\ state'[t] = state[t] /\ state[t] # 0
      BY <1>1, <1>7, <2>2 DEF Inner
    <3>2. <<t, step[t]>> \notin Here(u)
      BY <2>2, <3>1, SameState
    <3>3. states'[state[u]] = states[state[u]]
      <4>1. state[u] \in DOMAIN states
        BY <3>1, ThreadFacts DEF ThreadInv
      <4> QED  BY <2>2, <4>1 DEF Inner
    <3>4. \A l \in Key : map'[l] = state[u] => map[l] = state[u]
      BY <3>1 DEF MapKept
    <3>5. (\E c \in Here(u) : ~Acked(c)) => map'[Call(u).key] = state[u]
      <4>1. (\E c \in Here(u) : ~Acked(c)) => map[Call(u).key] = state[u]
        BY <3>1 DEF RInv, MeetingOf, Meeting, InTheMap
      <4> QED  BY <2>2, <3>1, <4>1 DEF MapKept
    <3> QED  BY <2>2, <3>1, <3>2, <3>3, <3>4, <3>5, InnerIsLocal, Elsewhere
  <2> QED  BY <2>1, <2>2
<1>8. ASSUME NEW u \in Thread, NEW i \in DOMAIN got'[u]  PROVE GotInv(u, i)'
  <2>1. i \in DOMAIN got[u]
    BY <1>1
  <2>2. \A c \in Together(calls, u, i) : Acked(c) => Acked(c)'
    <3> SUFFICES ASSUME NEW c \in Together(calls, u, i), Acked(c) PROVE Acked(c)'
      OBVIOUS
    <3>1. c = <<c[1], c[2]>> /\ c[1] \in Thread /\ c[2] \in Nat
      BY <2>1, PastFacts, RoundCalls
    <3> QED  BY <3>1, InnerAcked
  <2>3. GotInv(u, i)
    BY <2>1, PastFacts
  <2> QED  BY <1>1, <2>2, <2>3 DEF GotInv
<1>9. ParticipantsAgree'
  BY <1>1 DEF ParticipantsAgree, RInv
<1>10. ChecksHold'
  BY DEF ChecksHold, Inner
<1> QED  BY <1>4, <1>5, <1>6, <1>7, <1>8, <1>9, <1>10 DEF RInv

\* The other calls of the round are left alone.
AlikeBut(P, me, k, n) ==
  \A c \in P \ {me} :
    /\ Alike(c)
    /\ Acked(c)' <=> Acked(c)
    /\ Written(c)' <=> Written(c)
    /\ Published(c)' <=> Published(c)
    /\ Leads(c)' <=> Leads(c)
    /\ Over(c)' <=> Over(c)
    /\ Stage(c)' \in Holding <=> Stage(c) \in Holding
    /\ \A x \in {"invoke", "finish"} : Stage(c)' = x <=> Stage(c) = x
    /\ Waits(c, k, n)' <=> Waits(c, k, n)
    /\ Stage(c) \in Holding => id'[c[1]] = id[c[1]]

\* What every inner step of t can rely on.
Context(t, P, me, s, k, n) ==
  /\ P = Here(t) /\ me = <<t, step[t]>> /\ s = state[t]
  /\ k = Call(t).key /\ n = Call(t).num_threads

LEMMA ContextExists ==
  ASSUME NEW t
  PROVE  \E P, me, s, k, n : Context(t, P, me, s, k, n)
BY DEF Context

LEMMA OwnFacts ==
  ASSUME RInv, NEW t \in Thread, state[t] # 0,
         NEW P, NEW me, NEW s, NEW k, NEW n, Context(t, P, me, s, k, n)
  PROVE  /\ me \in P /\ me[1] = t /\ me[2] = step[t] /\ Stage(me) = pc[t]
         /\ Meeting(P, s, k, n)
         /\ s \in DOMAIN states /\ states \in Seq(Record) /\ states[s] \in Record
         /\ Held(t) = states[s]
         /\ IsFiniteSet(P) /\ Cardinality(P) \in Nat /\ Cardinality(P) <= n
         /\ n \in Nat \ {0} /\ k \in Key
         /\ \A c \in P : c = <<c[1], c[2]>> /\ c[1] \in Thread /\ c[2] \in Nat
         /\ \A c \in P : id[c[1]] \in Nat
<1> USE DEF Context
<1>1. pc[t] # "idle" /\ step[t] \in Nat /\ s \in DOMAIN states
  BY ThreadFacts DEF Holding, ThreadInv
<1>2. me[1] = t /\ me[2] = step[t]
  OBVIOUS
<1>3. Stage(me) = pc[t]
  BY <1>1, <1>2 DEF Stage
<1>4. Meeting(P, s, k, n)
  BY DEF RInv, MeetingOf
<1>5. states \in Seq(Record) /\ states[s] \in Record
  BY <1>1 DEF RInv, Types
<1>6. n \in Nat \ {0} /\ k \in Key
  BY <1>1, HereFacts DEF Calling
<1>7. \A c \in P : c = <<c[1], c[2]>> /\ c[1] \in Thread /\ c[2] \in Nat
  BY <1>1, HereFacts
<1>8. \A c \in P : id[c[1]] \in Nat
  BY <1>7, ThreadFacts
<1>9. me \in P /\ IsFiniteSet(P) /\ Cardinality(P) \in Nat /\ Cardinality(P) <= n
  BY <1>1, HereFacts
<1> QED  BY <1>1, <1>2, <1>3, <1>4, <1>5, <1>6, <1>7, <1>8, <1>9 DEF Held

LEMMA InnerFacts ==
  ASSUME RInv, NEW t \in Thread, Inner(t),
         NEW P, NEW me, NEW s, NEW k, NEW n, Context(t, P, me, s, k, n)
  PROVE  /\ Stage(me)' = pc'[t]
         /\ AlikeBut(P, me, k, n)
         /\ Members(P, s)'
         /\ \A c \in P : (Has(c)' <=> Has(c)) /\ Got(c)' = Got(c)
         /\ \A c \in P : id'[c[1]] \in Nat
<1>1. state[t] # 0 /\ state' = state /\ step' = step /\ got' = got
  BY DEF Inner
<1>2. /\ me[1] = t /\ me[2] = step[t] /\ step[t] \in Nat /\ Meeting(P, s, k, n)
      /\ \A c \in P : c = <<c[1], c[2]>> /\ c[1] \in Thread /\ c[2] \in Nat
  BY <1>1, OwnFacts, ThreadFacts
<1>3. Stage(me)' = pc'[t]
  BY <1>1, <1>2 DEF Stage
<1>4. AlikeBut(P, me, k, n)
  <2> SUFFICES ASSUME NEW c \in P \ {me}
               PROVE  /\ Alike(c)
                      /\ Acked(c)' <=> Acked(c)
                      /\ Written(c)' <=> Written(c)
                      /\ Published(c)' <=> Published(c)
                      /\ Leads(c)' <=> Leads(c)
                      /\ Over(c)' <=> Over(c)
                      /\ Stage(c)' \in Holding <=> Stage(c) \in Holding
                      /\ \A x \in {"invoke", "finish"} : Stage(c)' = x <=> Stage(c) = x
                      /\ Waits(c, k, n)' <=> Waits(c, k, n)
                      /\ Stage(c) \in Holding => id'[c[1]] = id[c[1]]
    BY DEF AlikeBut
  <2>1. Alike(c)
    BY <1>2, OthersAlike, InnerIsLocal DEF Context
  <2>2. Stage(c) \in Holding => id'[c[1]] = id[c[1]]
    BY <2>1 DEF Alike
  <2> QED  BY <2>1, <2>2, AlikeStages
<1>5. Members(P, s)'
  BY <1>1, <1>2 DEF Members, Meeting
<1>6. \A c \in P : (Has(c)' <=> Has(c)) /\ Got(c)' = Got(c)
  BY <1>1 DEF Has, Got
<1>7. \A c \in P : id'[c[1]] \in Nat
  BY <1>2 DEF Inner
<1> QED  BY <1>3, <1>4, <1>5, <1>6, <1>7

\* SignalAll wakes up who waits at the state of t.
LEMMA SignalFacts ==
  ASSUME RInv, NEW t \in Thread, NEW p \in Places, SignalAll(t, p)
  PROVE  /\ pc' \in [Thread -> Places] /\ pc'[t] = p
         /\ \A u \in Thread \ {t} : pc'[u] = pc[u] \/ (pc[u] = "waiting" /\ pc'[u] = "await")
<1>1. pc \in [Thread -> Places]
  BY DEF RInv, Types
<1>2. \A u \in Thread : pc'[u] = CASE u = t -> p
             [] u # t /\ pc[u] = "waiting" /\ state[u] = state[t] -> "await"
             [] OTHER -> pc[u]
  BY DEF SignalAll
<1>3. pc'[t] = p
  BY <1>2
<1>4. \A u \in Thread \ {t} : pc'[u] = pc[u] \/ (pc[u] = "waiting" /\ pc'[u] = "await")
  BY <1>2
<1>5. \A u \in Thread : pc'[u] \in Places
  BY <1>1, <1>3, <1>4 DEF Places
<1>6. pc' = [u \in Thread |-> pc'[u]]
  BY DEF SignalAll
<1> QED  BY <1>3, <1>4, <1>5, <1>6

\* While a call of the round has not got past its write or, with a result, its
\* second counter, there is no leader and the result is not ready.
LEMMA NotYet ==
  ASSUME NEW P, NEW s, NEW k, NEW n, Meeting(P, s, k, n), NEW me \in P,
         ~Waits(me, k, n), ~Over(me), ~Leads(me)
  PROVE  ~states[s].ready /\ \A c \in P : ~Leads(c) /\ ~Over(c)
<1>1. ~states[s].ready
  BY DEF Meeting, Readiness
<1>2. \A c \in P : ~Leads(c)
  BY DEF Meeting, Leader
<1> QED  BY <1>1, <1>2 DEF Meeting, Readiness

LEMMA SetsFacts ==
  ASSUME RInv, NEW t \in Thread, state[t] # 0, NEW r \in Record, Sets(t, r)
  PROVE  /\ states' \in Seq(Record) /\ Len(states') = Len(states)
         /\ states'[state[t]] = r
         /\ \A x \in DOMAIN states \ {state[t]} : states'[x] = states[x]
<1>1. states \in Seq(Record) /\ state[t] \in DOMAIN states
  BY ThreadFacts DEF RInv, Types, ThreadInv
<1>2. states' = [states EXCEPT ![state[t]] = r]
  BY DEF Sets
<1> QED  BY <1>1, <1>2

LEMMA MapStays ==
  ASSUME RInv, NEW t \in Thread, map' = map
  PROVE  MapKept(t)
BY DEF RInv, Types, MapKept

LEMMA AcknowledgeInv ==
  ASSUME RInv, NEW t \in Thread, Acknowledge(t)
  PROVE  RInv'
<1>1. PICK P, me, s, k, n : Context(t, P, me, s, k, n)
  BY ContextExists
<1>2. pc[t] = "ack" /\ state[t] # 0
  BY ThreadFacts DEF Acknowledge, Holding, Places
<1>3. /\ me \in P /\ me[1] = t /\ Stage(me) = "ack"
      /\ Meeting(P, s, k, n) /\ states[s] \in Record /\ Held(t) = states[s]
      /\ IsFiniteSet(P) /\ Cardinality(P) \in Nat /\ Cardinality(P) <= n /\ n \in Nat \ {0}
      /\ k = Call(t).key /\ n = Call(t).num_threads /\ s = state[t]
      /\ \A c \in P : id[c[1]] \in Nat
  BY <1>1, <1>2, OwnFacts DEF Context
<1>4. ~states[s].ready /\ \A c \in P : ~Leads(c) /\ ~Over(c)
  BY <1>3, NotYet DEF Waits, Over, Leads
<1> DEFINE A == {c \in P : Acked(c)}
<1>5. /\ me \notin A /\ IsFiniteSet(A) /\ Cardinality(A) \in Nat
      /\ Cardinality(A) < n /\ Cardinality(A \cup {me}) = Cardinality(A) + 1
  <2>1. me \notin A /\ A \in SUBSET P
    BY <1>3 DEF Acked
  <2> HIDE DEF A
  <2>2. IsFiniteSet(A) /\ Cardinality(A) \in Nat /\ Cardinality(A) <= Cardinality(P)
        /\ Cardinality(A) # Cardinality(P)
    BY <1>3, <2>1, FS_Subset, FS_CardinalityType
  <2>3. Cardinality(A \cup {me}) = Cardinality(A) + 1
    BY <2>1, <2>2, FS_AddElement
  <2> QED  BY <1>3, <2>1, <2>2, <2>3
<1>6. states[s].ack = Cardinality(A)
  BY <1>3 DEF Meeting, Counters
<1>7. PICK r : /\ r = [states[s] EXCEPT !.ack = @ + 1] /\ r \in Record
               /\ r.ack = Cardinality(A) + 1 /\ r.rel = states[s].rel
               /\ r.values = states[s].values /\ r.ready = states[s].ready
               /\ r.result = states[s].result
  <2> HIDE DEF A
  <2>1. PICK r : r = [states[s] EXCEPT !.ack = @ + 1]
    OBVIOUS
  <2>2. states[s] \in Record /\ states[s].ack \in Nat
    BY <1>3 DEF Record
  <2>3. r \in Record /\ r.ack = states[s].ack + 1 /\ r.rel = states[s].rel
        /\ r.values = states[s].values /\ r.ready = states[s].ready
        /\ r.result = states[s].result
    BY <2>1, <2>2 DEF Record
  <2> QED  BY <1>6, <2>1, <2>3
<1> HIDE DEF A
<1>8. /\ states' \in Seq(Record) /\ Len(states') = Len(states) /\ states'[s] = r
      /\ \A x \in DOMAIN states \ {state[t]} : states'[x] = states[x]
  BY <1>2, <1>3, <1>7, SetsFacts DEF Acknowledge
<1>9. /\ pc' \in [Thread -> Places] /\ pc'[t] = "write"
      /\ \A u \in Thread \ {t} : pc'[u] = pc[u] \/ (pc[u] = "waiting" /\ pc'[u] = "await")
  BY SignalFacts DEF Acknowledge, Places
<1>10. /\ id' \in [Thread -> Nat] /\ id'[t] = Cardinality(A)
       /\ \A u \in Thread \ {t} : id'[u] = id[u]
  BY <1>3, <1>5, <1>6 DEF Acknowledge, RInv, Types
<1>11. process' # "check"
  BY <1>3, <1>5, <1>6 DEF Acknowledge, Check
<1>12. Inner(t) /\ map' = map
  BY <1>2, <1>8, <1>9, <1>10, <1>11 DEF Inner, Acknowledge, Holding, Places
<1>13. /\ Stage(me)' = "write" /\ AlikeBut(P, me, k, n) /\ Members(P, s)'
       /\ \A c \in P : (Has(c)' <=> Has(c)) /\ Got(c)' = Got(c)
  BY <1>1, <1>9, <1>12, InnerFacts
<1>14. /\ Acked(me)' /\ ~Written(me)' /\ ~Published(me)' /\ ~Leads(me)' /\ ~Over(me)'
       /\ ~Acked(me) /\ ~Written(me) /\ ~Published(me) /\ ~Leads(me) /\ ~Over(me)
  BY <1>3, <1>13 DEF Acked, Written, Published, Leads, Over
<1>15. Counters(P, s, k)'
  <2>1. {c \in P : Acked(c)'} = A \cup {me}
    BY <1>3, <1>13, <1>14 DEF AlikeBut, A
  <2>2. \A c \in P : (Published(c)' <=> Published(c)) /\ (Written(c)' <=> Written(c))
    BY <1>13, <1>14 DEF AlikeBut
  <2>3. {c \in P : Published(c)'} = {c \in P : Published(c)}
    BY <2>2
  <2> QED  BY <1>3, <1>5, <1>7, <1>8, <2>1, <2>2, <2>3 DEF Counters, Meeting
<1>16. InTheMap(P, s, k)'
  <2>1. \A c \in P : ~Acked(c)' => ~Acked(c)
    BY <1>13, <1>14 DEF AlikeBut
  <2>2. \A c \in P : Stage(c)' \notin {"invoke", "finish"}
    BY <1>4, <1>13 DEF AlikeBut, Leads
  <2> QED  BY <1>3, <1>4, <1>7, <1>8, <1>12, <2>1, <2>2 DEF InTheMap, Meeting
<1>17. Ids(P, s, k)'
  <2> SUFFICES ASSUME k \in Barriers, NEW c \in P, NEW d \in P,
                      Acked(c)', Stage(c)' \in Holding, Acked(d)', Stage(d)' \in Holding
               PROVE  id'[c[1]] < states'[s].ack /\ (c # d => id'[c[1]] # id'[d[1]])
    BY DEF Ids
  <2>1. \A e \in P \ {me} : Acked(e)' /\ Stage(e)' \in Holding
          => id'[e[1]] = id[e[1]] /\ id[e[1]] < Cardinality(A) /\ id[e[1]] \in Nat
    BY <1>3, <1>6, <1>13 DEF AlikeBut, Ids, Meeting
  <2>2. c # d /\ c # me /\ d # me => id[c[1]] # id[d[1]]
    BY <1>3, <1>13 DEF AlikeBut, Ids, Meeting
  <2> QED  BY <1>3, <1>5, <1>7, <1>8, <1>10, <2>1, <2>2
<1>18. Leader(P, s, k, n)'
  BY <1>4, <1>13, <1>14 DEF Leader, AlikeBut
<1>19. Readiness(P, s, k, n)'
  <2>1. ~states'[s].ready /\ \A c \in P : ~Over(c)' /\ Stage(c)' # "finish"
    BY <1>4, <1>7, <1>8, <1>13, <1>14 DEF AlikeBut, Leads
  <2> QED  BY <1>3, <1>7, <1>8, <1>13, <2>1 DEF Readiness, Meeting
<1> QED  BY <1>1, <1>12, <1>13, <1>15, <1>16, <1>17, <1>18, <1>19, InnerKeeps, MapStays
         DEF Meeting, Context

LEMMA GoesFacts ==
  ASSUME RInv, NEW t \in Thread, NEW p \in Places, Goes(t, p)
  PROVE  /\ pc' \in [Thread -> Places] /\ pc'[t] = p
         /\ \A u \in Thread \ {t} : pc'[u] = pc[u]
BY DEF RInv, Types, Goes

LEMMA WriteValueInv ==
  ASSUME RInv, NEW t \in Thread, WriteValue(t)
  PROVE  RInv'
<1>1. PICK P, me, s, k, n : Context(t, P, me, s, k, n)
  BY ContextExists
<1>2. pc[t] = "write" /\ state[t] # 0
  BY ThreadFacts DEF WriteValue, Holding, Places
<1>3. /\ me \in P /\ me[1] = t /\ Stage(me) = "write"
      /\ Meeting(P, s, k, n) /\ states[s] \in Record /\ Held(t) = states[s]
      /\ s = state[t]
  BY <1>1, <1>2, OwnFacts DEF Context
<1>4. PICK r : /\ r = [states[s] EXCEPT !.values = @ \cup {t}] /\ r \in Record
               /\ r.ack = states[s].ack /\ r.rel = states[s].rel
               /\ r.values = states[s].values \cup {t} /\ r.ready = states[s].ready
               /\ r.result = states[s].result
  <2>1. PICK r : r = [states[s] EXCEPT !.values = @ \cup {t}]
    OBVIOUS
  <2>2. r \in Record /\ r.ack = states[s].ack /\ r.rel = states[s].rel
        /\ r.values = states[s].values \cup {t} /\ r.ready = states[s].ready
        /\ r.result = states[s].result
    BY <1>3, <2>1 DEF Record
  <2> QED  BY <2>1, <2>2
<1>5. /\ states' \in Seq(Record) /\ Len(states') = Len(states) /\ states'[s] = r
      /\ \A x \in DOMAIN states \ {state[t]} : states'[x] = states[x]
  BY <1>2, <1>3, <1>4, SetsFacts DEF WriteValue
<1>6. /\ pc' \in [Thread -> Places] /\ pc'[t] = "publish"
      /\ \A u \in Thread \ {t} : pc'[u] = pc[u]
  BY GoesFacts DEF WriteValue, Places
<1>7. Inner(t) /\ map' = map /\ id' = id
  BY <1>2, <1>5, <1>6 DEF Inner, WriteValue, Holding, Places, RInv, Types, ChecksHold
<1>8. /\ Stage(me)' = "publish" /\ AlikeBut(P, me, k, n) /\ Members(P, s)'
      /\ \A c \in P : (Has(c)' <=> Has(c)) /\ Got(c)' = Got(c)
  BY <1>1, <1>6, <1>7, InnerFacts
<1>9. /\ Acked(me)' /\ ~Published(me)' /\ ~Leads(me)' /\ ~Over(me)' /\ Written(me)'
      /\ Acked(me) /\ ~Published(me) /\ ~Leads(me) /\ ~Over(me)
  BY <1>3, <1>8 DEF Acked, Published, Leads, Over, Written
<1>10. Waits(me, k, n)' <=> Waits(me, k, n)
  BY <1>3, <1>7, <1>8 DEF Waits
<1>11. \A c \in P : /\ Acked(c)' <=> Acked(c)
                    /\ Published(c)' <=> Published(c)
                    /\ Leads(c)' <=> Leads(c)
                    /\ Over(c)' <=> Over(c)
                    /\ Stage(c)' \in Holding <=> Stage(c) \in Holding
                    /\ \A x \in {"invoke", "finish"} : Stage(c)' = x <=> Stage(c) = x
                    /\ Waits(c, k, n)' <=> Waits(c, k, n)
  BY <1>3, <1>8, <1>9, <1>10 DEF AlikeBut, Holding, Places
<1>12. Counters(P, s, k)'
  <2>1. {c \in P : Acked(c)'} = {c \in P : Acked(c)}
    BY <1>11
  <2>2. {c \in P : Published(c)'} = {c \in P : Published(c)}
    BY <1>11
  <2>3. ASSUME NEW u \in Thread
        PROVE  u \in states'[s].values <=> \E c \in P : c[1] = u /\ Written(c)'
    <3>1. u \in states[s].values <=> \E c \in P : c[1] = u /\ Written(c)
      BY <1>3 DEF Meeting, Counters
    <3>2. \A c \in P \ {me} : Written(c)' <=> Written(c)
      BY <1>8 DEF AlikeBut
    <3>3. ~Written(me)
      BY <1>3 DEF Written
    <3> QED  BY <1>3, <1>4, <1>5, <1>9, <3>1, <3>2, <3>3
  <2> QED  BY <1>3, <1>4, <1>5, <2>1, <2>2, <2>3 DEF Counters, Meeting
<1>13. InTheMap(P, s, k)'
  BY <1>3, <1>4, <1>5, <1>7, <1>11 DEF InTheMap, Meeting
<1>14. Ids(P, s, k)'
  BY <1>3, <1>4, <1>5, <1>7, <1>11 DEF Ids, Meeting
<1>15. Leader(P, s, k, n)'
  BY <1>3, <1>4, <1>5, <1>11 DEF Leader, Meeting
<1>16. Readiness(P, s, k, n)'
  BY <1>3, <1>4, <1>5, <1>8, <1>11 DEF Readiness, Meeting, Proper
<1> QED  BY <1>1, <1>7, <1>8, <1>12, <1>13, <1>14, <1>15, <1>16, InnerKeeps, MapStays
         DEF Meeting, Context

\* A step that makes no difference to its own round either.
LEMMA AlikeInv ==
  ASSUME RInv, NEW t \in Thread, Inner(t), map' = map, states' = states,
         id' = id, Similar(pc[t], pc'[t])
  PROVE  RInv'
<1>1. PICK P, me, s, k, n : Context(t, P, me, s, k, n)
  BY ContextExists
<1>2. state[t] # 0
  BY DEF Inner
<1>3. /\ me \in P /\ Stage(me) = pc[t] /\ Meeting(P, s, k, n) /\ k \in Key
  BY <1>1, <1>2, OwnFacts
<1>4. /\ Stage(me)' = pc'[t] /\ AlikeBut(P, me, k, n) /\ Members(P, s)'
      /\ \A c \in P : (Has(c)' <=> Has(c)) /\ Got(c)' = Got(c)
  BY <1>1, InnerFacts
<1>5. \A c \in P : Alike(c)
  <2>1. Alike(me)
    BY <1>3, <1>4 DEF Alike
  <2> QED  BY <2>1, <1>4 DEF AlikeBut
<1>6. (\E c \in P : ~Acked(c)) => map'[k] = s
  BY <1>3 DEF Meeting, InTheMap
<1>7. Meeting(P, s, k, n)'
  BY <1>3, <1>4, <1>5, <1>6, Frame
<1> QED  BY <1>1, <1>7, InnerKeeps, MapStays DEF Context

\* Somebody sees that the result is ready.
LEMMA ReadyInv ==
  ASSUME RInv, NEW t \in Thread, Inner(t), map' = map, states' = states, id' = id,
         pc[t] \in {"await", "waiting"}, pc'[t] = "return", Held(t).ready
  PROVE  RInv'
<1>1. PICK P, me, s, k, n : Context(t, P, me, s, k, n)
  BY ContextExists
<1>2. state[t] # 0
  BY DEF Inner
<1>3. /\ me \in P /\ Stage(me) \in {"await", "waiting"}
      /\ Meeting(P, s, k, n) /\ states[s].ready
  BY <1>1, <1>2, OwnFacts
<1>4. /\ Stage(me)' = "return" /\ AlikeBut(P, me, k, n) /\ Members(P, s)'
      /\ \A c \in P : (Has(c)' <=> Has(c)) /\ Got(c)' = Got(c)
  BY <1>1, InnerFacts
<1>5. /\ Acked(me)' /\ Published(me)' /\ ~Leads(me)' /\ Over(me)' /\ Written(me)'
      /\ Acked(me) /\ Published(me) /\ ~Leads(me) /\ Written(me)
  BY <1>3, <1>4 DEF Acked, Published, Leads, Over, Written
<1>6. \A c \in P : /\ Acked(c)' <=> Acked(c)
                   /\ Written(c)' <=> Written(c)
                   /\ Published(c)' <=> Published(c)
                   /\ Leads(c)' <=> Leads(c)
                   /\ Stage(c)' \in Holding <=> Stage(c) \in Holding
                   /\ \A x \in {"invoke", "finish"} : Stage(c)' = x <=> Stage(c) = x
  BY <1>3, <1>4, <1>5 DEF AlikeBut, Holding, Places
<1>7. Counters(P, s, k)'
  <2>1. {c \in P : Acked(c)'} = {c \in P : Acked(c)}
    BY <1>6
  <2>2. {c \in P : Published(c)'} = {c \in P : Published(c)}
    BY <1>6
  <2> QED  BY <1>3, <1>6, <2>1, <2>2 DEF Counters, Meeting
<1>8. InTheMap(P, s, k)'
  BY <1>3, <1>6 DEF InTheMap, Meeting
<1>9. Ids(P, s, k)'
  BY <1>3, <1>6 DEF Ids, Meeting
<1>10. Leader(P, s, k, n)'
  BY <1>3, <1>6 DEF Leader, Meeting
<1>11. Readiness(P, s, k, n)'
  <2>1. \A c \in P : Over(c)' \/ Waits(c, k, n)'
    BY <1>3, <1>4, <1>5 DEF AlikeBut, Readiness, Meeting
  <2> QED  BY <1>3, <1>4, <2>1 DEF Readiness, Meeting, Proper
<1> QED  BY <1>1, <1>4, <1>7, <1>8, <1>9, <1>10, <1>11, InnerKeeps, MapStays
         DEF Meeting, Context

LEMMA NotifyInv ==
  ASSUME RInv, NEW t \in Thread, Notify(t)
  PROVE  RInv'
<1>1. pc[t] = "notify" /\ state[t] # 0
  BY ThreadFacts DEF Notify, Holding, Places
<1>2. /\ pc' \in [Thread -> Places] /\ pc'[t] = "return"
      /\ \A u \in Thread \ {t} : pc'[u] = pc[u] \/ (pc[u] = "waiting" /\ pc'[u] = "await")
  BY SignalFacts DEF Notify, Places
<1>3. Inner(t)
  BY <1>1, <1>2 DEF Inner, Notify, Holding, Places, RInv, Types, ChecksHold
<1>4. Similar(pc[t], pc'[t])
  BY <1>1, <1>2 DEF Similar
<1> QED  BY <1>3, <1>4, AlikeInv DEF Notify

LEMMA AwaitInv ==
  ASSUME RInv, NEW t \in Thread, Await(t)
  PROVE  RInv'
<1>1. pc[t] = "await" /\ state[t] # 0
  BY ThreadFacts DEF Await, Holding, Places
<1>2. PICK p \in {"return", "waiting"} :
        Goes(t, p) /\ p = IF Held(t).ready THEN "return" ELSE "waiting"
  BY DEF Await
<1>3. /\ pc' \in [Thread -> Places] /\ pc'[t] = p
      /\ \A u \in Thread \ {t} : pc'[u] = pc[u]
  BY <1>2, GoesFacts DEF Places
<1>4. Inner(t) /\ id' = id /\ map' = map /\ states' = states
  BY <1>1, <1>3 DEF Inner, Await, Holding, Places, RInv, Types, ChecksHold
<1>5. CASE Held(t).ready
  BY <1>1, <1>2, <1>3, <1>4, <1>5, ReadyInv
<1>6. CASE ~Held(t).ready
  <2>1. Similar(pc[t], pc'[t])
    BY <1>1, <1>2, <1>3, <1>6 DEF Similar
  <2> QED  BY <1>4, <2>1, AlikeInv
<1> QED  BY <1>5, <1>6

LEMMA TimeOutInv ==
  ASSUME RInv, NEW t \in Thread, TimeOut(t), process = "running"
  PROVE  RInv'
<1>1. pc[t] = "waiting" /\ state[t] # 0
  BY ThreadFacts DEF TimeOut, Holding, Places
<1>2. PICK p \in {"return", "await", "waiting"} :
        /\ pc' \in [Thread -> Places] /\ pc'[t] = p
        /\ \A u \in Thread \ {t} : pc'[u] = pc[u]
        /\ p = "return" => Held(t).ready
  <2>1. \/ Held(t).ready /\ Goes(t, "return")
        \/ Goes(t, "await")
        \/ pc' = pc
    BY DEF TimeOut
  <2>2. CASE Held(t).ready /\ Goes(t, "return")
    BY <2>2, GoesFacts DEF Places
  <2>3. CASE Goes(t, "await")
    BY <2>3, GoesFacts DEF Places
  <2>4. CASE pc' = pc
    BY <1>1, <2>4 DEF RInv, Types
  <2> QED  BY <2>1, <2>2, <2>3, <2>4
<1>3. process' # "check"
  BY DEF TimeOut
<1>4. Inner(t) /\ id' = id /\ map' = map /\ states' = states
  BY <1>1, <1>2, <1>3 DEF Inner, TimeOut, Holding, Places, RInv, Types
<1>5. CASE p = "return"
  BY <1>1, <1>2, <1>4, <1>5, ReadyInv
<1>6. CASE p # "return"
  <2>1. Similar(pc[t], pc'[t])
    BY <1>1, <1>2, <1>6 DEF Similar
  <2> QED  BY <1>4, <2>1, AlikeInv
<1> QED  BY <1>5, <1>6

\* The leader fills in the result, the others wait.
LEMMA LeaderFacts ==
  ASSUME NEW P, NEW s, NEW k, NEW n, Meeting(P, s, k, n), NEW me \in P, Leads(me)
  PROVE  /\ ~states[s].ready /\ \A c \in P \ {me} : Waits(c, k, n) /\ Acked(c) /\ ~Leads(c)
         /\ Acked(me) /\ (\A c \in P : ~Over(c)) /\ Cardinality(P) = n
<1>1. /\ ~states[s].ready /\ Cardinality(P) = n
      /\ \A c \in P \ {me} : Waits(c, k, n)
  BY DEF Meeting, Leader
<1>2. \A c \in P \ {me} : Acked(c) /\ ~Leads(c) /\ ~Over(c)
  BY <1>1 DEF Waits, Acked, Leads, Over
<1> QED  BY <1>1, <1>2 DEF Leads, Acked, Over

LEMMA CompleteInv ==
  ASSUME RInv, NEW t \in Thread, Complete(t), MapKept(t)
  PROVE  RInv'
<1>1. PICK P, me, s, k, n : Context(t, P, me, s, k, n)
  BY ContextExists
<1>2. pc[t] = "complete" /\ state[t] # 0
  BY ThreadFacts DEF Complete, Holding, Places
<1>3. /\ me \in P /\ Stage(me) = "complete" /\ Meeting(P, s, k, n) /\ k \in Key
      /\ k = Call(t).key /\ s = state[t] /\ s # 0
  BY <1>1, <1>2, OwnFacts DEF Context
<1>4. /\ ~states[s].ready /\ Acked(me) /\ (\A c \in P : ~Over(c)) /\ Cardinality(P) = n
      /\ \A c \in P \ {me} : Waits(c, k, n) /\ Acked(c) /\ ~Leads(c)
  BY <1>3, LeaderFacts DEF Leads
<1>5. /\ pc' \in [Thread -> Places] /\ pc'[t] = "invoke"
      /\ \A u \in Thread \ {t} : pc'[u] = pc[u]
  BY GoesFacts DEF Complete, Places
<1>6. Inner(t) /\ states' = states /\ id' = id
  BY <1>2, <1>5 DEF Inner, Complete, Holding, Places, RInv, Types, ChecksHold
<1>7. /\ Stage(me)' = "invoke" /\ AlikeBut(P, me, k, n) /\ Members(P, s)'
      /\ \A c \in P : (Has(c)' <=> Has(c)) /\ Got(c)' = Got(c)
  BY <1>1, <1>5, <1>6, InnerFacts
<1>8. /\ Acked(me)' /\ Published(me)' /\ Leads(me)' /\ ~Over(me)' /\ Written(me)'
      /\ Acked(me) /\ Published(me) /\ Leads(me) /\ Written(me)
  BY <1>3, <1>7 DEF Acked, Published, Leads, Over, Written
<1>9. \A c \in P : /\ Acked(c)' <=> Acked(c)
                   /\ Written(c)' <=> Written(c)
                   /\ Published(c)' <=> Published(c)
                   /\ Leads(c)' <=> Leads(c)
                   /\ Stage(c)' \in Holding <=> Stage(c) \in Holding
                   /\ Stage(c)' = "finish" <=> Stage(c) = "finish"
                   /\ ~Over(c)'
  BY <1>3, <1>4, <1>7, <1>8 DEF AlikeBut, Holding, Places
<1>10. Counters(P, s, k)'
  <2>1. {c \in P : Acked(c)'} = {c \in P : Acked(c)}
    BY <1>9
  <2>2. {c \in P : Published(c)'} = {c \in P : Published(c)}
    BY <1>9
  <2> QED  BY <1>3, <1>6, <1>9, <2>1, <2>2 DEF Counters, Meeting
<1>11. InTheMap(P, s, k)'
  <2>1. map'[k] = 0 /\ \A l \in Key \ {k} : map'[l] = map[l]
    BY <1>3 DEF Complete, RInv, Types
  <2>2. \A c \in P : Acked(c)'
    BY <1>4, <1>9
  <2> QED  BY <1>3, <2>1, <2>2 DEF InTheMap, Meeting
<1>12. Ids(P, s, k)'
  BY <1>3, <1>6, <1>9 DEF Ids, Meeting
<1>13. Leader(P, s, k, n)'
  BY <1>4, <1>6, <1>7, <1>9 DEF Leader, AlikeBut
<1>14. Readiness(P, s, k, n)'
  BY <1>3, <1>4, <1>6, <1>7, <1>9 DEF Readiness, Meeting, Proper
<1> QED  BY <1>1, <1>6, <1>7, <1>10, <1>11, <1>12, <1>13, <1>14, InnerKeeps
         DEF Meeting, Context

\* Calls that are between Join and Return hold the state of their round.
LEMMA HoldersFacts ==
  ASSUME RInv, NEW t \in Thread, state[t] # 0,
         NEW P, NEW me, NEW s, NEW k, NEW n, Context(t, P, me, s, k, n),
         NEW c \in P, Stage(c) \in Holding
  PROVE  c[1] \in Thread /\ c = <<c[1], step[c[1]]>> /\ state[c[1]] = s
<1>1. /\ c = <<c[1], c[2]>> /\ c[1] \in Thread /\ c[2] \in Nat /\ Meeting(P, s, k, n)
  BY OwnFacts
<1>2. step[c[1]] \in Nat
  BY <1>1, ThreadFacts
<1>3. step[c[1]] = c[2] /\ pc[c[1]] \in Holding
  BY <1>1, <1>2 DEF Stage, Holding, Places
<1>4. state[c[1]] # 0
  BY <1>1, <1>3, ThreadFacts
<1> QED  BY <1>1, <1>3, <1>4 DEF Meeting, Members

\* When everybody is there, all participants hold the state and nobody else.
LEMMA UseCountFacts ==
  ASSUME RInv, NEW t \in Thread, state[t] # 0,
         NEW P, NEW me, NEW s, NEW k, NEW n, Context(t, P, me, s, k, n),
         \A c \in P : Stage(c) \in Holding
  PROVE  UseCount(s) = Cardinality(P)
<1> DEFINE U == {u \in Thread : state[u] = s}
           f == [u \in U |-> <<u, step[u]>>]
<1>1. \A c \in P : c[1] \in U /\ c = <<c[1], step[c[1]]>>
  BY HoldersFacts
<1>2. \A u \in U : <<u, step[u]>> \in P
  <2>1. Members(P, s) /\ s # 0
    BY OwnFacts DEF Meeting, Context
  <2> QED  BY <2>1 DEF Members
<1>3. f \in Bijection(U, P)
  <2>1. f \in [U -> P]
    BY <1>2
  <2>2. \A u, v \in U : f[u] = f[v] => u = v
    OBVIOUS
  <2>3. \A c \in P : \E u \in U : f[u] = c
    BY <1>1
  <2> HIDE DEF f, U
  <2> QED  BY <2>1, <2>2, <2>3 DEF Bijection, Injection, Surjection, IsInjective
<1>4. IsFiniteSet(U)
  BY ThreadAssumption, FS_Subset
<1>5. Cardinality(P) = Cardinality(U)
  <2>1. ExistsBijection(U, P)
    BY <1>3 DEF ExistsBijection
  <2> HIDE DEF U, f
  <2> QED  BY <1>4, <2>1, FS_Bijection
<1> QED  BY <1>5 DEF UseCount

LEMMA InvokeInv ==
  ASSUME RInv, NEW t \in Thread, Invoke(t)
  PROVE  RInv'
<1>1. PICK P, me, s, k, n : Context(t, P, me, s, k, n)
  BY ContextExists
<1>2. pc[t] = "invoke" /\ state[t] # 0
  BY ThreadFacts DEF Invoke, Holding, Places
<1>3. /\ me \in P /\ Stage(me) = "invoke" /\ Meeting(P, s, k, n) /\ k \in Key
      /\ k = Call(t).key /\ s = state[t] /\ states[s] \in Record /\ Held(t) = states[s]
      /\ n = Call(t).num_threads
      /\ \A c \in P : c = <<c[1], c[2]>> /\ c[1] \in Thread /\ c[2] \in Nat
  BY <1>1, <1>2, OwnFacts DEF Context
<1>4. /\ ~states[s].ready /\ Acked(me) /\ (\A c \in P : ~Over(c)) /\ Cardinality(P) = n
      /\ \A c \in P \ {me} : Waits(c, k, n) /\ Acked(c) /\ ~Leads(c)
  BY <1>3, LeaderFacts DEF Leads
<1>5. \A c \in P : Stage(c) \in Holding
  BY <1>3, <1>4 DEF Waits, Holding, Places
<1>6. process' # "check"
  <2>1. UseCount(s) = n
    BY <1>1, <1>2, <1>4, <1>5, UseCountFacts
  <2> QED  BY <1>3, <2>1 DEF Invoke, Check
<1>7. \A c \in P : c = <<c[1], step[c[1]]>>
  BY <1>1, <1>2, <1>5, HoldersFacts
<1>8. PICK res \in Results(states[s].values) : Sets(t, [states[s] EXCEPT !.result = res])
  BY <1>3 DEF Invoke
<1>9. res \in Result /\ Proper(res, P, k)
  <2> DEFINE V == {<<u, step[u]>> : u \in states[s].values}
  <2>1. \A u \in Thread : u \in states[s].values <=> \E c \in P : c[1] = u /\ Written(c)
    BY <1>3 DEF Meeting, Counters
  <2>2. states[s].values \subseteq Thread
    BY <1>3 DEF Record
  <2>3. V \subseteq P
    BY <1>7, <2>1, <2>2
  <2>4. P \subseteq Thread \X Nat
    BY <1>3
  <2>5. k \notin Barriers => V = P
    <3>1. k \notin Barriers => \A c \in P : Written(c)
      BY <1>3, <1>4 DEF Written, Waits
    <3> QED  BY <1>3, <1>7, <2>1, <2>3, <3>1
  <2>6. res = [status |-> "ok", values |-> V] \/ res = [status |-> "error", values |-> {}]
    BY <1>8 DEF Results
  <2> HIDE DEF V
  <2>7. V \in SUBSET (Thread \X Nat)
    BY <2>3, <2>4
  <2> QED  BY <2>5, <2>6, <2>7 DEF Proper, Result
<1>10. PICK r : /\ r = [states[s] EXCEPT !.result = res] /\ r \in Record
                /\ r.ack = states[s].ack /\ r.rel = states[s].rel
                /\ r.values = states[s].values /\ r.ready = states[s].ready
                /\ r.result = res
  <2>1. PICK r : r = [states[s] EXCEPT !.result = res]
    OBVIOUS
  <2>2. r \in Record /\ r.ack = states[s].ack /\ r.rel = states[s].rel
        /\ r.values = states[s].values /\ r.ready = states[s].ready
        /\ r.result = res
    BY <1>3, <1>9, <2>1 DEF Record
  <2> QED  BY <2>1, <2>2
<1>11. /\ states' \in Seq(Record) /\ Len(states') = Len(states) /\ states'[s] = r
       /\ \A x \in DOMAIN states \ {state[t]} : states'[x] = states[x]
  BY <1>2, <1>3, <1>8, <1>10, SetsFacts
<1>12. /\ pc' \in [Thread -> Places] /\ pc'[t] = "finish"
       /\ \A u \in Thread \ {t} : pc'[u] = pc[u]
  BY GoesFacts DEF Invoke, Places
<1>13. Inner(t) /\ map' = map /\ id' = id
  BY <1>2, <1>6, <1>11, <1>12 DEF Inner, Invoke, Holding, Places, RInv, Types
<1>14. /\ Stage(me)' = "finish" /\ AlikeBut(P, me, k, n) /\ Members(P, s)'
       /\ \A c \in P : (Has(c)' <=> Has(c)) /\ Got(c)' = Got(c)
  BY <1>1, <1>12, <1>13, InnerFacts
<1>15. /\ Acked(me)' /\ Published(me)' /\ Leads(me)' /\ ~Over(me)' /\ Written(me)'
       /\ Acked(me) /\ Published(me) /\ Leads(me) /\ Written(me)
  BY <1>3, <1>14 DEF Acked, Published, Leads, Over, Written
<1>16. \A c \in P : /\ Acked(c)' <=> Acked(c)
                    /\ Written(c)' <=> Written(c)
                    /\ Published(c)' <=> Published(c)
                    /\ Leads(c)' <=> Leads(c)
                    /\ Stage(c)' \in Holding <=> Stage(c) \in Holding
                    /\ ~Over(c)'
  BY <1>3, <1>4, <1>14, <1>15 DEF AlikeBut, Holding, Places
<1>17. Counters(P, s, k)'
  <2>1. {c \in P : Acked(c)'} = {c \in P : Acked(c)}
    BY <1>16
  <2>2. {c \in P : Published(c)'} = {c \in P : Published(c)}
    BY <1>16
  <2> QED  BY <1>3, <1>10, <1>11, <1>16, <2>1, <2>2 DEF Counters, Meeting
<1>18. InTheMap(P, s, k)'
  BY <1>3, <1>4, <1>10, <1>11, <1>13, <1>16 DEF InTheMap, Meeting
<1>19. Ids(P, s, k)'
  BY <1>3, <1>10, <1>11, <1>13, <1>16 DEF Ids, Meeting
<1>20. Leader(P, s, k, n)'
  BY <1>4, <1>10, <1>11, <1>14, <1>16 DEF Leader, AlikeBut
<1>21. Readiness(P, s, k, n)'
  <2>1. \A c \in P : ~Has(c)
    <3>1. \A c \in P : step[c[1]] = c[2] /\ pc[c[1]] # "leave"
      <4>1. \A c \in P : step[c[1]] = c[2]
        BY <1>3, <1>7
      <4>2. \A c \in P : step[c[1]] \in Nat
        BY <1>3, ThreadFacts
      <4> QED  BY <1>5, <4>1, <4>2 DEF Stage, Holding
    <3>2. \A c \in P : Len(got[c[1]]) = c[2] - 1 /\ DOMAIN got[c[1]] = 1 .. Len(got[c[1]])
      BY <1>3, <3>1, ThreadFacts DEF ThreadInv
    <3> QED  BY <1>3, <3>2 DEF Has
  <2> QED  BY <1>4, <1>9, <1>10, <1>11, <1>14, <1>16, <2>1 DEF Readiness, Proper
<1> QED  BY <1>1, <1>13, <1>14, <1>17, <1>18, <1>19, <1>20, <1>21, InnerKeeps, MapStays
         DEF Meeting, Context

LEMMA SetReadyInv ==
  ASSUME RInv, NEW t \in Thread, SetReady(t)
  PROVE  RInv'
<1>1. PICK P, me, s, k, n : Context(t, P, me, s, k, n)
  BY ContextExists
<1>2. pc[t] = "finish" /\ state[t] # 0
  BY ThreadFacts DEF SetReady, Holding, Places
<1>3. /\ me \in P /\ Stage(me) = "finish" /\ Meeting(P, s, k, n)
      /\ s = state[t] /\ states[s] \in Record /\ Held(t) = states[s]
  BY <1>1, <1>2, OwnFacts DEF Context
<1>4. /\ ~states[s].ready /\ Acked(me) /\ (\A c \in P : ~Over(c)) /\ Cardinality(P) = n
      /\ \A c \in P \ {me} : Waits(c, k, n) /\ Acked(c) /\ ~Leads(c)
  BY <1>3, LeaderFacts DEF Leads
<1>5. PICK r : /\ r = [states[s] EXCEPT !.ready = TRUE] /\ r \in Record
               /\ r.ack = states[s].ack /\ r.rel = states[s].rel
               /\ r.values = states[s].values /\ r.ready = TRUE
               /\ r.result = states[s].result
  <2>1. PICK r : r = [states[s] EXCEPT !.ready = TRUE]
    OBVIOUS
  <2>2. r \in Record /\ r.ack = states[s].ack /\ r.rel = states[s].rel
        /\ r.values = states[s].values /\ r.ready = TRUE
        /\ r.result = states[s].result
    BY <1>3, <2>1 DEF Record
  <2> QED  BY <2>1, <2>2
<1>6. /\ states' \in Seq(Record) /\ Len(states') = Len(states) /\ states'[s] = r
      /\ \A x \in DOMAIN states \ {state[t]} : states'[x] = states[x]
  BY <1>2, <1>3, <1>5, SetsFacts DEF SetReady
<1>7. /\ pc' \in [Thread -> Places] /\ pc'[t] = "notify"
      /\ \A u \in Thread \ {t} : pc'[u] = pc[u]
  BY GoesFacts DEF SetReady, Places
<1>8. Inner(t) /\ map' = map /\ id' = id
  BY <1>2, <1>6, <1>7 DEF Inner, SetReady, Holding, Places, RInv, Types, ChecksHold
<1>9. /\ Stage(me)' = "notify" /\ AlikeBut(P, me, k, n) /\ Members(P, s)'
      /\ \A c \in P : (Has(c)' <=> Has(c)) /\ Got(c)' = Got(c)
  BY <1>1, <1>7, <1>8, InnerFacts
<1>10. /\ Acked(me)' /\ Published(me)' /\ ~Leads(me)' /\ Over(me)' /\ Written(me)'
       /\ Acked(me) /\ Published(me) /\ Leads(me) /\ Written(me)
  BY <1>3, <1>9 DEF Acked, Published, Leads, Over, Written
<1>11. \A c \in P : /\ Acked(c)' <=> Acked(c)
                    /\ Written(c)' <=> Written(c)
                    /\ Published(c)' <=> Published(c)
                    /\ ~Leads(c)'
                    /\ Stage(c)' \in Holding <=> Stage(c) \in Holding
  BY <1>3, <1>4, <1>9, <1>10 DEF AlikeBut, Holding, Places
<1>12. Counters(P, s, k)'
  <2>1. {c \in P : Acked(c)'} = {c \in P : Acked(c)}
    BY <1>11
  <2>2. {c \in P : Published(c)'} = {c \in P : Published(c)}
    BY <1>11
  <2> QED  BY <1>3, <1>5, <1>6, <1>11, <2>1, <2>2 DEF Counters, Meeting
<1>13. InTheMap(P, s, k)'
  <2>1. map[k] # s
    BY <1>3 DEF InTheMap, Meeting
  <2>2. \A c \in P : Acked(c)'
    BY <1>4, <1>11
  <2> QED  BY <1>3, <1>8, <2>1, <2>2 DEF InTheMap, Meeting
<1>14. Ids(P, s, k)'
  BY <1>3, <1>5, <1>6, <1>8, <1>11 DEF Ids, Meeting
<1>15. Leader(P, s, k, n)'
  BY <1>11 DEF Leader
<1>16. Readiness(P, s, k, n)'
  <2>1. Proper(states[s].result, P, k) /\ \A c \in P : Has(c) => Got(c) = states[s].result
    BY <1>3 DEF Readiness, Meeting
  <2>2. \A c \in P : Over(c)' \/ Waits(c, k, n)'
    BY <1>4, <1>9, <1>10 DEF AlikeBut
  <2> QED  BY <1>5, <1>6, <1>9, <2>1, <2>2 DEF Readiness, Proper
<1> QED  BY <1>1, <1>8, <1>9, <1>12, <1>13, <1>14, <1>15, <1>16, InnerKeeps, MapStays
         DEF Meeting, Context

LEMMA StageType ==
  ASSUME RInv, NEW c, c[1] \in Thread
  PROVE  Stage(c) \in Places \cup {"done"}
BY ThreadFacts DEF Stage, Places

\* The second counter, or the first one in a rendezvous without a result: the
\* last call of the round to come is the only one that leads.
LEMMA LastLeads ==
  ASSUME RInv, NEW t \in Thread, pc[t] = "publish", state[t] # 0,
         NEW P, NEW me, NEW s, NEW k, NEW n, Context(t, P, me, s, k, n),
         ~Waits(me, k, n),
         (IF k \in Barriers THEN id[t] ELSE states[s].rel) >= n - 1
  PROVE  Cardinality(P) = n /\ \A c \in P \ {me} : Waits(c, k, n)
<1>1. /\ me \in P /\ me[1] = t /\ Stage(me) = "publish" /\ Meeting(P, s, k, n)
      /\ states[s] \in Record /\ n \in Nat \ {0}
      /\ IsFiniteSet(P) /\ Cardinality(P) \in Nat /\ Cardinality(P) <= n
      /\ \A c \in P : c = <<c[1], c[2]>> /\ c[1] \in Thread /\ c[2] \in Nat
      /\ \A c \in P : id[c[1]] \in Nat
  BY OwnFacts
<1>2. ~states[s].ready /\ \A c \in P : ~Leads(c) /\ ~Over(c)
  BY <1>1, NotYet DEF Over, Leads
<1>3. \A c \in P : Stage(c) \in Places \cup {"done"}
  BY <1>1, StageType
<1>4. CASE k \in Barriers
  <2> DEFINE A == {c \in P : Acked(c)}
  <2>1. states[s].ack = Cardinality(A)
    BY <1>1 DEF Meeting, Counters
  <2>2. A \in SUBSET P /\ me \in A
    BY <1>1 DEF Acked
  <2> HIDE DEF A
  <2>3. /\ IsFiniteSet(A) /\ Cardinality(A) \in Nat /\ Cardinality(A) <= Cardinality(P)
        /\ Cardinality(P) = Cardinality(A) => A = P
    BY <1>1, <2>2, FS_Subset, FS_CardinalityType
  <2>4. Acked(me) /\ Stage(me) \in Holding
    BY <1>1 DEF Acked, Holding, Places
  <2>5. id[t] < Cardinality(A)
    BY <1>1, <1>4, <2>1, <2>4 DEF Meeting, Ids
  <2>6. Cardinality(P) = n /\ Cardinality(A) = n /\ A = P /\ id[t] = n - 1
    <3>1. id[t] >= n - 1 /\ id[t] \in Nat
      BY <1>1, <1>4
    <3> QED  BY <1>1, <2>3, <2>5, <3>1
  <2>7. ASSUME NEW c \in P \ {me}  PROVE Waits(c, k, n)
    <3>1. Acked(c)
      BY <2>6 DEF A
    <3>2. Stage(c) \in {"write", "publish", "await", "waiting"}
      BY <1>2, <1>3, <3>1 DEF Acked, Leads, Over, Places
    <3>3. Stage(c) \in Holding
      BY <3>2 DEF Holding, Places
    <3>4. id[c[1]] < Cardinality(A) /\ id[c[1]] # id[t] /\ id[c[1]] \in Nat
      BY <1>1, <1>4, <2>1, <2>4, <3>1, <3>3 DEF Meeting, Ids
    <3>5. id[c[1]] < n - 1
      BY <1>1, <2>6, <3>4
    <3> QED  BY <1>4, <3>2, <3>5 DEF Waits
  <2> QED  BY <2>6, <2>7
<1>5. CASE k \notin Barriers
  <2> DEFINE B == {c \in P : Published(c)}
  <2>1. states[s].rel = Cardinality(B) /\ states[s].rel \in Nat
    BY <1>1, <1>5 DEF Meeting, Counters, Record
  <2>2. B \in SUBSET (P \ {me})
    BY <1>1 DEF Published
  <2>3. IsFiniteSet(P \ {me}) /\ Cardinality(P \ {me}) = Cardinality(P) - 1
    BY <1>1, FS_RemoveElement
  <2> HIDE DEF B
  <2>4. /\ Cardinality(B) <= Cardinality(P \ {me})
        /\ Cardinality(P \ {me}) = Cardinality(B) => P \ {me} = B
    BY <2>2, <2>3, FS_Subset
  <2>5. Cardinality(P) = n /\ B = P \ {me}
    <3>1. Cardinality(B) >= n - 1 /\ Cardinality(B) \in Nat
      BY <1>5, <2>1
    <3> QED  BY <1>1, <2>3, <2>4, <3>1
  <2>6. ASSUME NEW c \in P \ {me}  PROVE Waits(c, k, n)
    <3>1. Published(c)
      BY <2>5 DEF B
    <3>2. Stage(c) \in {"await", "waiting"}
      BY <1>2, <1>3, <3>1 DEF Published, Leads, Over, Places
    <3> QED  BY <3>2 DEF Waits
  <2> QED  BY <2>5, <2>6
<1> QED  BY <1>4, <1>5

LEMMA PublishInv ==
  ASSUME RInv, NEW t \in Thread, Publish(t)
  PROVE  RInv'
<1>1. PICK P, me, s, k, n : Context(t, P, me, s, k, n)
  BY ContextExists
<1>2. pc[t] = "publish" /\ state[t] # 0
  BY ThreadFacts DEF Publish, Holding, Places
<1>3. /\ me \in P /\ me[1] = t /\ Stage(me) = "publish" /\ Meeting(P, s, k, n)
      /\ s = state[t] /\ states[s] \in Record /\ Held(t) = states[s] /\ states \in Seq(Record)
      /\ k = Call(t).key /\ n = Call(t).num_threads /\ n \in Nat \ {0} /\ IsFiniteSet(P)
      /\ \A c \in P : c = <<c[1], c[2]>> /\ c[1] \in Thread /\ c[2] \in Nat
  BY <1>1, <1>2, OwnFacts DEF Context
<1>4. id \in [Thread -> Nat] /\ states[s].rel \in Nat
  BY <1>3 DEF RInv, Types, Record
<1>5. PICK last \in Nat : last = IF k \in Barriers THEN id[t] ELSE states[s].rel
  BY <1>4
<1>6. PICK p \in {"await", "complete"} : p = IF last < n - 1 THEN "await" ELSE "complete"
  OBVIOUS
<1>7. /\ pc' \in [Thread -> Places] /\ pc'[t] = p
      /\ \A u \in Thread \ {t} : pc'[u] = pc[u]
  <2>1. Goes(t, p)
    BY <1>3, <1>5, <1>6 DEF Publish
  <2> QED  BY <2>1, GoesFacts DEF Places
<1>8. /\ id' \in [Thread -> Nat] /\ (\A u \in Thread \ {t} : id'[u] = id[u])
      /\ k \in Barriers => id' = id
  <2>1. id' = [id EXCEPT ![t] = last]
    BY <1>3, <1>5 DEF Publish
  <2> QED  BY <1>4, <1>5, <2>1
<1>9. PICK r \in Record : /\ r.ack = states[s].ack /\ r.values = states[s].values
                          /\ r.ready = states[s].ready /\ r.result = states[s].result
                          /\ k \notin Barriers => r.rel = states[s].rel + 1
                          /\ states' \in Seq(Record) /\ Len(states') = Len(states)
                          /\ states'[s] = r
                          /\ \A x \in DOMAIN states \ {state[t]} : states'[x] = states[x]
  <2>1. CASE k \in Barriers
    <3>1. states' = states
      BY <1>3, <2>1 DEF Publish
    <3> QED  BY <1>3, <2>1, <3>1
  <2>2. CASE k \notin Barriers
    <3>1. PICK r : r = [states[s] EXCEPT !.rel = @ + 1]
      OBVIOUS
    <3>2. /\ r \in Record /\ r.ack = states[s].ack /\ r.rel = states[s].rel + 1
          /\ r.values = states[s].values /\ r.ready = states[s].ready
          /\ r.result = states[s].result
      <4>1. states[s] \in Record /\ states[s].rel \in Nat
        BY <1>3, <1>4
      <4> QED  BY ONLY <3>1, <4>1 DEF Record
    <3>3. Sets(t, r)
      BY <1>3, <2>2, <3>1 DEF Publish
    <3>4. /\ states' \in Seq(Record) /\ Len(states') = Len(states) /\ states'[s] = r
          /\ \A x \in DOMAIN states \ {state[t]} : states'[x] = states[x]
      BY <1>2, <1>3, <3>2, <3>3, SetsFacts
    <3> QED  BY <3>2, <3>4
  <2> QED  BY <2>1, <2>2
<1>10. Inner(t) /\ map' = map
  BY <1>2, <1>6, <1>7, <1>8, <1>9 DEF Inner, Publish, Holding, Places, RInv, Types, ChecksHold
<1>11. /\ Stage(me)' = p /\ AlikeBut(P, me, k, n) /\ Members(P, s)'
       /\ \A c \in P : (Has(c)' <=> Has(c)) /\ Got(c)' = Got(c)
  BY <1>1, <1>7, <1>10, InnerFacts
<1>12. /\ Acked(me)' /\ Published(me)' /\ ~Over(me)' /\ Written(me)'
       /\ Acked(me) /\ ~Published(me) /\ ~Over(me) /\ Written(me) /\ ~Leads(me)
       /\ (Leads(me)' <=> p = "complete") /\ (p = "await" => Waits(me, k, n)')
  BY <1>3, <1>6, <1>11 DEF Acked, Published, Leads, Over, Written, Waits
<1>13. \A c \in P : /\ Acked(c)' <=> Acked(c)
                    /\ Written(c)' <=> Written(c)
                    /\ Over(c)' <=> Over(c)
                    /\ Stage(c)' \in Holding <=> Stage(c) \in Holding
                    /\ \A x \in {"invoke", "finish"} : Stage(c)' = x <=> Stage(c) = x
  BY <1>3, <1>6, <1>11, <1>12 DEF AlikeBut, Holding, Places
<1>14. Counters(P, s, k)'
  <2>1. {c \in P : Acked(c)'} = {c \in P : Acked(c)}
    BY <1>13
  <2> DEFINE B == {c \in P : Published(c)}
  <2>2. {c \in P : Published(c)'} = B \cup {me}
    BY <1>3, <1>11, <1>12 DEF AlikeBut
  <2>3. Cardinality(B \cup {me}) = Cardinality(B) + 1
    <3>1. me \notin B /\ B \in SUBSET P
      BY <1>12
    <3> HIDE DEF B
    <3>2. IsFiniteSet(B)
      BY <1>3, <3>1, FS_Subset
    <3> QED  BY <3>1, <3>2, FS_AddElement
  <2> QED  BY <1>3, <1>9, <1>13, <2>1, <2>2, <2>3 DEF Counters, Meeting
<1>15. InTheMap(P, s, k)'
  BY <1>3, <1>9, <1>10, <1>13 DEF InTheMap, Meeting
<1>16. Ids(P, s, k)'
  BY <1>3, <1>8, <1>9, <1>13 DEF Ids, Meeting
<1>17. CASE Waits(me, k, n)
  <2>1. k \in Barriers /\ p = "await"
    BY <1>3, <1>5, <1>6, <1>17 DEF Waits
  <2>2. \A c \in P : (Leads(c)' <=> Leads(c)) /\ (Waits(c, k, n)' <=> Waits(c, k, n))
    BY <1>11, <1>12, <1>17, <2>1 DEF AlikeBut
  <2>3. Leader(P, s, k, n)'
    BY <1>3, <1>9, <2>2 DEF Leader, Meeting
  <2>4. Readiness(P, s, k, n)'
    BY <1>3, <1>9, <1>11, <1>13, <2>2 DEF Readiness, Meeting, Proper
  <2> QED  BY <1>1, <1>10, <1>11, <1>14, <1>15, <1>16, <2>3, <2>4, InnerKeeps, MapStays
           DEF Meeting, Context
<1>18. CASE ~Waits(me, k, n)
  <2>1. ~states[s].ready /\ \A c \in P : ~Leads(c) /\ ~Over(c)
    BY <1>3, <1>12, <1>18, NotYet
  <2>2. p = "complete" => Cardinality(P) = n /\ \A c \in P \ {me} : Waits(c, k, n)
    <3>1. p = "complete" => last >= n - 1
      BY <1>3, <1>5, <1>6
    <3> QED  BY <1>1, <1>2, <1>3, <1>5, <1>18, <3>1, LastLeads
  <2>3. Leader(P, s, k, n)'
    <3>1. \A c \in P \ {me} : ~Leads(c)' /\ (Waits(c, k, n)' <=> Waits(c, k, n))
      BY <1>11, <2>1 DEF AlikeBut
    <3> QED  BY <1>9, <1>12, <2>1, <2>2, <3>1 DEF Leader
  <2>4. Readiness(P, s, k, n)'
    <3>1. ~states'[s].ready /\ \A c \in P : ~Over(c)' /\ Stage(c)' # "finish"
      BY <1>9, <1>13, <2>1 DEF Leads
    <3> QED  BY <1>3, <1>9, <1>11, <3>1 DEF Readiness, Meeting
  <2> QED  BY <1>1, <1>10, <1>11, <1>14, <1>15, <1>16, <2>3, <2>4, InnerKeeps, MapStays
           DEF Meeting, Context
<1> QED  BY <1>17, <1>18
-----------------------------------------------------------------------------
(* Rounds with the same key do not mix.                                    *)

LEMMA HasFacts ==
  ASSUME RInv, NEW c, c[1] \in Thread, c[2] \in Nat \ {0}
  PROVE  Has(c) <=> Stage(c) \in {"leave", "done"}
<1>1. /\ step[c[1]] \in Nat \ {0} /\ DOMAIN got[c[1]] = 1 .. Len(got[c[1]])
      /\ Len(got[c[1]]) = IF pc[c[1]] = "leave" THEN step[c[1]] ELSE step[c[1]] - 1
      /\ pc[c[1]] \in Places
  BY ThreadFacts DEF ThreadInv
<1> QED  BY <1>1 DEF Has, Stage, Places

\* A call in flight is not one of those that skip the round.
LEMMA NotSkipped ==
  ASSUME RInv, NEW t \in Thread, pc[t] # "idle", NEW c \in Here(t), Has(c)
  PROVE  /\ Got(c).status # "skipped"
         /\ Proper(Got(c), Here(t), Call(t).key)
         /\ \A d \in Here(t) : Acked(d)
<1>1. c[1] \in Thread /\ calls[c[1]][c[2]] = Call(t) /\ Together(calls, c[1], c[2]) = Here(t)
  BY HereFacts, HereSame
<1>2. GotInv(c[1], c[2])
  BY <1>1, PastFacts DEF Has
<1>3. Got(c).status # "skipped"
  <2> SUFFICES ASSUME Got(c).status = "skipped" PROVE FALSE
    OBVIOUS
  <2>1. flag = kCompleted /\ Call(t).flagged
    BY <1>1, <1>2 DEF GotInv, Got
  <2>2. t \in InFlight
    BY <2>1 DEF InFlight
  <2> QED  BY <2>1, <2>2 DEF FlagInv, RInv
<1> QED  BY <1>1, <1>2, <1>3 DEF GotInv, Got

\* A thread in a later round of the key has got the result of the earlier one.
LEMMA LaterRound ==
  ASSUME RInv, NEW t \in Thread, pc[t] # "idle", NEW u \in Thread, pc[u] # "idle",
         Call(t).key = Call(u).key,
         Round(calls, t, step[t]) < Round(calls, u, step[u])
  PROVE  \E c \in Here(t) : Has(c)
<1>1. PICK p \in Programs : p = calls
  BY DEF RInv, Types
<1>2. /\ step[t] \in DOMAIN p[t] /\ step[u] \in DOMAIN p[u]
      /\ p[t][step[t]].key = p[u][step[u]].key
  BY <1>1, HereFacts DEF Call
<1>3. PICK r : r = Round(p, t, step[t])
  OBVIOUS
<1>4. r \in Nat /\ r >= 1
  BY <1>3, ThreadFacts, RoundType
<1>5. r < Round(p, u, step[u]) /\ Round(p, u, step[u]) \in Nat
  BY <1>1, <1>3, ThreadFacts, RoundType
<1>6. PICK j \in 1 .. step[u] : p[u][j].key = p[u][step[u]].key /\ Round(p, u, j) = r
  <2>1. r <= Round(p, u, step[u])
    BY <1>4, <1>5
  <2> QED  BY <1>2, <1>4, <2>1, EarlierRounds
<1>7. step[u] \in Nat /\ j \in Nat \ {0} /\ j # step[u] /\ j < step[u]
  <2>1. step[u] \in Nat
    BY ThreadFacts
  <2>2. j # step[u]
    BY <1>4, <1>5, <1>6
  <2> QED  BY <2>1, <2>2
<1>8. j \in DOMAIN p[u]
  BY <1>2, <1>7, ProgramType
<1>9. <<u, j>> \in Here(t)
  BY <1>1, <1>2, <1>3, <1>6, <1>8 DEF Here, Together
<1>10. Stage(<<u, j>>) = "done"
  BY <1>7 DEF Stage
<1>11. Has(<<u, j>>)
  BY <1>7, <1>10, HasFacts
<1> QED  BY <1>9, <1>11

LEMMA NotMixed ==
  ASSUME RInv, NEW t \in Thread, pc[t] # "idle", NEW u \in Thread, pc[u] # "idle",
         Call(t).key = Call(u).key, Here(t) # Here(u)
  PROVE  (\E c \in Here(t) : Has(c)) \/ (\E c \in Here(u) : Has(c))
<1>1. Round(calls, t, step[t]) # Round(calls, u, step[u])
  BY DEF Here, Together, Call
<1>2. Round(calls, t, step[t]) \in Nat /\ Round(calls, u, step[u]) \in Nat
  BY ThreadFacts, RoundType
<1> QED  BY <1>1, <1>2, LaterRound

\* A state somebody holds is ready when a call of its round is over.
LEMMA HasIsReady ==
  ASSUME RInv, NEW t \in Thread, state[t] # 0, NEW c \in Here(t), Has(c)
  PROVE  states[state[t]].ready /\ Got(c) = states[state[t]].result
<1>1. pc[t] # "idle"
  BY ThreadFacts DEF Holding
<1>2. c[1] \in Thread /\ c[2] \in Nat \ {0}
  BY <1>1, HereFacts
<1>3. Over(c)
  BY <1>2, HasFacts DEF Over
<1>4. Readiness(Here(t), state[t], Call(t).key, Call(t).num_threads)
  BY DEF RInv, MeetingOf, Meeting
<1> QED  BY <1>3, <1>4 DEF Readiness

LEMMA CompleteMap ==
  ASSUME RInv, NEW t \in Thread, Complete(t)
  PROVE  MapKept(t)
<1>1. PICK P, me, s, k, n : Context(t, P, me, s, k, n)
  BY ContextExists
<1>2. pc[t] = "complete" /\ state[t] # 0
  BY ThreadFacts DEF Complete, Holding, Places
<1>3. /\ me \in P /\ Stage(me) = "complete" /\ Meeting(P, s, k, n) /\ k \in Key
      /\ k = Call(t).key /\ s = state[t] /\ P = Here(t)
  BY <1>1, <1>2, OwnFacts DEF Context
<1>4. ~states[s].ready
  BY <1>3, LeaderFacts DEF Leads
<1>5. map \in [Key -> Nat] /\ map' = [map EXCEPT ![k] = 0]
  BY <1>3 DEF Complete, RInv, Types
<1>6. ASSUME NEW u \in Thread, state[u] # 0, state[u] # state[t],
             NEW c \in Here(u), ~Acked(c)
      PROVE  map'[Call(u).key] = map[Call(u).key]
  <2>1. pc[u] # "idle" /\ Call(u).key \in Key
    BY <1>6, ThreadFacts, HereFacts DEF Holding, Calling
  <2>2. <<u, step[u]>> \in Here(u)
    BY <2>1, HereFacts
  <2>3. Here(u) # Here(t)
    BY <1>2, <1>6, <2>2, SameState
  <2>4. Call(u).key # k
    <3> SUFFICES ASSUME Call(u).key = k PROVE FALSE
      OBVIOUS
    <3>1. (\E d \in Here(t) : Has(d)) \/ (\E d \in Here(u) : Has(d))
      BY <1>2, <1>3, <2>1, <2>3, NotMixed
    <3>2. ~ \E d \in Here(t) : Has(d)
      BY <1>2, <1>3, <1>4, HasIsReady
    <3>3. ~ \E d \in Here(u) : Has(d)
      BY <1>6, <2>1, NotSkipped
    <3> QED  BY <3>1, <3>2, <3>3
  <2> QED  BY <1>5, <2>1, <2>4
<1> QED  BY <1>5, <1>6 DEF MapKept
-----------------------------------------------------------------------------
(* The steps that begin and end a call.                                    *)

LEMMA LocalAcked ==
  ASSUME RInv, NEW t \in Thread, Local(t),
         NEW me, me = <<t, step[t]>>, Acked(me) => Acked(me)',
         NEW c \in AllCalls(calls), Acked(c)
  PROVE  Acked(c)'
<1>1. calls \in Programs
  BY DEF RInv, Types
<1>2. c = <<c[1], c[2]>> /\ c[1] \in Thread /\ c[2] \in Nat
  BY <1>1, AllCallsFacts, ProgramType
<1>3. CASE c # me
  BY <1>2, <1>3, OthersAlike, AlikeStages
<1>4. CASE c = me
  BY <1>4
<1> QED  BY <1>3, <1>4

LEMMA TogetherInAll ==
  ASSUME NEW p, NEW t, NEW i, NEW c \in Together(p, t, i)
  PROVE  c \in AllCalls(p)
BY DEF Together, AllCalls

\* Who has skipped a call has seen the flag completed, which it remains.
FlagStays == flag = kCompleted => flag' = kCompleted

\* Results that were got before.
LEMMA OldGot ==
  ASSUME RInv, NEW t \in Thread, Local(t), FlagStays,
         NEW me, me = <<t, step[t]>>, Acked(me) => Acked(me)',
         NEW u \in Thread, NEW i \in DOMAIN got[u], got'[u][i] = got[u][i]
  PROVE  GotInv(u, i)'
<1>1. GotInv(u, i) /\ calls' = calls
  BY PastFacts DEF Local
<1>2. \A c \in Together(calls, u, i) : Acked(c) => Acked(c)'
  BY LocalAcked, TogetherInAll
<1> QED  BY <1>1, <1>2 DEF GotInv, FlagStays

LEMMA NothingGot ==
  ASSUME RInv, NEW t \in Thread, Local(t), FlagStays, got' = got,
         NEW me, me = <<t, step[t]>>, Acked(me) => Acked(me)'
  PROVE  /\ \A u \in Thread : \A i \in DOMAIN got'[u] : GotInv(u, i)'
         /\ ParticipantsAgree'
<1>1. ASSUME NEW u \in Thread, NEW i \in DOMAIN got'[u]  PROVE GotInv(u, i)'
  BY OldGot
<1>2. ParticipantsAgree'
  BY DEF ParticipantsAgree, RInv, Local
<1> QED  BY <1>1, <1>2

\* The call of t gets the result r.
LEMMA NewGot ==
  ASSUME RInv, NEW t \in Thread, Local(t), FlagStays, pc[t] # "leave",
         step[t] \in DOMAIN calls[t],
         NEW r \in Result, got' = [got EXCEPT ![t] = Append(@, r)],
         NEW me, me = <<t, step[t]>>, Acked(me) => Acked(me)',
         NEW i, i = step[t], GotInv(t, i)', got'[t][i] = r,
         \A c \in Here(t) : Has(c) => Got(c) = r
  PROVE  /\ \A u \in Thread : \A j \in DOMAIN got'[u] : GotInv(u, j)'
         /\ ParticipantsAgree'
<1>1. /\ got \in [Thread -> Seq(Result)] /\ got[t] \in Seq(Result) /\ calls' = calls
      /\ Len(got[t]) = i - 1 /\ i \in Nat \ {0} /\ calls \in Programs
  BY ThreadFacts DEF RInv, Types, ThreadInv, Local
<1>2. /\ DOMAIN got'[t] = 1 .. i /\ DOMAIN got[t] = 1 .. i - 1
      /\ \A j \in 1 .. i - 1 : got'[t][j] = got[t][j]
  <2>1. got'[t] = Append(got[t], r)
    BY <1>1
  <2> QED  BY <1>1, <2>1
<1>3. \A u \in Thread \ {t} : got'[u] = got[u]
  BY <1>1
<1>4. ASSUME NEW u \in Thread, NEW j \in DOMAIN got'[u], <<u, j>> # me
      PROVE  j \in DOMAIN got[u] /\ got'[u][j] = got[u][j]
  BY <1>1, <1>2, <1>3, <1>4
<1>5. ASSUME NEW u \in Thread, NEW j \in DOMAIN got'[u]  PROVE GotInv(u, j)'
  <2>1. CASE <<u, j>> = me
    BY <2>1
  <2>2. CASE <<u, j>> # me
    BY <1>4, <2>2, OldGot
  <2> QED  BY <2>1, <2>2
<1>6. ASSUME NEW u \in Thread, NEW j \in DOMAIN got'[u],
             NEW c \in Together(calls, u, j), c[2] \in DOMAIN got'[c[1]]
      PROVE  got'[c[1]][c[2]] = got'[u][j]
  <2>1. j \in DOMAIN calls[u]
    <3>1. CASE <<u, j>> = me
      BY <3>1
    <3>2. CASE <<u, j>> # me
      BY <1>4, <3>2, PastFacts
    <3> QED  BY <3>1, <3>2
  <2>2. c = <<c[1], c[2]>> /\ c[1] \in Thread /\ c[2] \in DOMAIN calls[c[1]]
    BY <1>1, <2>1, RoundCalls
  <2>3. Together(calls, c[1], c[2]) = Together(calls, u, j)
    BY <1>1, <2>1, SameRound
  <2>4. <<u, j>> \in Together(calls, u, j)
    BY <1>1, <2>1, TogetherFacts
  <2>5. CASE <<u, j>> # me /\ c # me
    <3>1. /\ j \in DOMAIN got[u] /\ got'[u][j] = got[u][j]
          /\ c[2] \in DOMAIN got[c[1]] /\ got'[c[1]][c[2]] = got[c[1]][c[2]]
      BY <1>4, <1>6, <2>2, <2>5
    <3> QED  BY <3>1 DEF RInv, ParticipantsAgree
  <2>6. CASE <<u, j>> = me
    <3>1. CASE c = me
      BY <2>6, <3>1
    <3>2. CASE c # me
      <4>1. c[2] \in DOMAIN got[c[1]] /\ got'[c[1]][c[2]] = got[c[1]][c[2]]
        BY <1>4, <1>6, <2>2, <3>2
      <4>2. c \in Here(t)
        BY <2>6 DEF Here
      <4> QED  BY <2>6, <4>1, <4>2 DEF Has, Got
    <3> QED  BY <3>1, <3>2
  <2>7. CASE <<u, j>> # me /\ c = me
    <3>1. j \in DOMAIN got[u] /\ got'[u][j] = got[u][j]
      BY <1>4, <2>7
    <3>2. PICK d : d = <<u, j>>
      OBVIOUS
    <3>3. d \in Here(t) /\ d[1] = u /\ d[2] = j
      BY <2>3, <2>4, <2>7, <3>2 DEF Here
    <3>4. Got(d) = r
      BY <3>1, <3>3 DEF Has
    <3> QED  BY <2>7, <3>1, <3>3, <3>4 DEF Got
  <2> QED  BY <2>5, <2>6, <2>7
<1>7. ParticipantsAgree'
  BY <1>1, <1>6 DEF ParticipantsAgree
<1> QED  BY <1>5, <1>7

\* Steps of a thread that holds no state.
LEMMA OuterMeetings ==
  ASSUME RInv, NEW t \in Thread, Local(t), state' = state, state[t] = 0,
         states' = states, map' = map,
         NEW me, me = <<t, step[t]>>,
         Alike(me) \/ \A u \in Thread : state[u] # 0 => me \notin Here(u)
  PROVE  \A u \in Thread : state'[u] # 0 => MeetingOf(u)'
<1> SUFFICES ASSUME NEW u \in Thread, state'[u] # 0  PROVE MeetingOf(u)'
  OBVIOUS
<1>1. (\E c \in Here(u) : ~Acked(c)) => map'[Call(u).key] = state[u]
  BY DEF RInv, MeetingOf, Meeting, InTheMap
<1> QED  BY <1>1, Elsewhere

LEMMA OthersThread ==
  ASSUME RInv, NEW t \in Thread, Local(t), DOMAIN states \subseteq DOMAIN states',
         NEW u \in Thread, u # t
  PROVE  ThreadInv(u)' /\ (u \in InFlight' <=> u \in InFlight)
<1>1. ThreadInv(u)
  BY DEF RInv
<1>2. /\ step'[u] = step[u] /\ state'[u] = state[u] /\ got'[u] = got[u] /\ calls' = calls
      /\ pc'[u] = pc[u] \/ (pc[u] = "waiting" /\ pc'[u] = "await")
  BY DEF Local
<1>3. Call(u)' = Call(u)
  BY <1>2 DEF Call
<1>4. ThreadInv(u)'
  BY <1>1, <1>2, <1>3 DEF ThreadInv, Holding, Places
<1>5. u \in InFlight' <=> u \in InFlight
  BY <1>2, <1>3 DEF InFlight
<1> QED  BY <1>4, <1>5

LEMMA InFlightFacts ==
  ASSUME RInv
  PROVE  /\ IsFiniteSet(InFlight) /\ Cardinality(InFlight) \in Nat
         /\ Cardinality(InFlight) <= Cardinality(Thread)
         /\ Cardinality(InFlight) < kCompleted /\ kCompleted \in Nat
<1>1. InFlight \in SUBSET Thread /\ IsFiniteSet(Thread)
  BY ThreadAssumption DEF InFlight
<1>2. /\ IsFiniteSet(InFlight) /\ Cardinality(InFlight) \in Nat
      /\ Cardinality(InFlight) <= Cardinality(Thread) /\ Cardinality(Thread) \in Nat
  <2> HIDE DEF InFlight
  <2> QED  BY <1>1, FS_Subset, FS_CardinalityType
<1>3. Cardinality(Thread) < kCompleted /\ kCompleted \in Nat
  BY ThreadAssumption DEF kCompleted
<1> QED  BY <1>2, <1>3

\* A call that begins.
LEMMA BeginsInv ==
  ASSUME RInv, NEW t \in Thread, pc[t] = "idle", step[t] <= Len(calls[t]),
         UNCHANGED <<calls, id, stuck, state, states, map, process, got, step>>,
         Goes(t, Begin(t)),
         IF Call(t).flagged THEN flag # kCompleted /\ flag' = flag + 1 ELSE flag' = flag
  PROVE  RInv'
<1>1. PICK me : me = <<t, step[t]>>
  OBVIOUS
<1>2. /\ calls' = calls /\ id' = id /\ state' = state /\ states' = states /\ map' = map
      /\ process' = process /\ got' = got /\ step' = step
  OBVIOUS
<1>3. PICK p : p = Begin(t)
  OBVIOUS
<1>4. p \in {"alone", "join"} /\ (p = "alone" => Call(t).num_threads = 1)
  BY <1>3 DEF Begin
<1>5. /\ pc' \in [Thread -> Places] /\ pc'[t] = p
      /\ \A u \in Thread \ {t} : pc'[u] = pc[u]
  BY <1>3, <1>4, GoesFacts DEF Places
<1>6. /\ step[t] \in Nat \ {0} /\ state[t] = 0 /\ ThreadInv(t) /\ Types
      /\ step[t] \in DOMAIN calls[t]
  BY ThreadFacts DEF RInv, Holding
<1>7. Local(t)
  BY <1>2, <1>5, <1>6 DEF Local
<1>8. Stage(me) = "idle" /\ Stage(me)' = p
  BY <1>1, <1>2, <1>5, <1>6 DEF Stage
<1>9. Alike(me)
  <2>1. Stage(me) \notin Holding
    BY <1>8 DEF Holding
  <2>2. Similar(Stage(me), Stage(me)')
    BY <1>4, <1>8 DEF Similar
  <2> QED  BY <1>2, <2>1, <2>2 DEF Alike, Has, Got
<1>10. ~Acked(me)
  BY <1>8 DEF Acked
<1>11. Call(t)' = Call(t)
  BY <1>2 DEF Call
<1>12. \A u \in Thread : ThreadInv(u)'
  <2>1. ThreadInv(t)'
    BY <1>2, <1>4, <1>5, <1>6, <1>11 DEF ThreadInv, Holding
  <2>2. \A u \in Thread \ {t} : ThreadInv(u)'
    BY <1>2, <1>7, OthersThread
  <2> QED  BY <2>1, <2>2
<1>13. FlagInv' /\ FlagStays /\ flag' \in Nat
  <2>1. \A u \in Thread \ {t} : u \in InFlight' <=> u \in InFlight
    BY <1>2, <1>7, OthersThread
  <2>2. t \notin InFlight /\ InFlight' \subseteq Thread /\ InFlight \subseteq Thread
    BY DEF InFlight
  <2>3. t \in InFlight' <=> Call(t).flagged
    BY <1>4, <1>5, <1>11 DEF InFlight
  <2>4. flag \in Nat
    BY <1>6 DEF Types
  <2>5. CASE ~Call(t).flagged
    <3>1. InFlight' = InFlight
      <4>1. \A u \in Thread : u \in InFlight' <=> u \in InFlight
        BY <2>1, <2>2, <2>3, <2>5
      <4> QED  BY ONLY <2>2, <4>1
    <3>2. flag' = flag
      BY <2>5
    <3> QED  BY <2>4, <3>1, <3>2 DEF FlagInv, FlagStays, RInv
  <2>6. CASE Call(t).flagged
    <3>1. InFlight' = InFlight \cup {t}
      BY <2>1, <2>2, <2>3, <2>6
    <3>2. flag # kCompleted /\ flag' = flag + 1 /\ flag = Cardinality(InFlight)
      BY <2>6 DEF FlagInv, RInv
    <3>3. Cardinality(InFlight') = Cardinality(InFlight) + 1
      <4>1. IsFiniteSet(InFlight)
        BY InFlightFacts
      <4> QED  BY ONLY <2>2, <3>1, <4>1, FS_AddElement
    <3>4. Cardinality(InFlight') # kCompleted
      <4>1. InFlight' \in SUBSET Thread /\ IsFiniteSet(Thread)
        BY <2>2, ThreadAssumption
      <4>2. Cardinality(InFlight') <= Cardinality(Thread) /\ Cardinality(Thread) \in Nat
        BY ONLY <4>1, FS_Subset, FS_CardinalityType
      <4> QED  BY <3>2, <3>3, <2>4, <4>2, ThreadAssumption DEF kCompleted
    <3> QED  BY <2>4, <3>2, <3>3, <3>4 DEF FlagInv, FlagStays
  <2> QED  BY <2>5, <2>6
<1>14. Types'
  BY <1>2, <1>5, <1>6, <1>13 DEF Types
<1>15. \A u \in Thread : state'[u] # 0 => MeetingOf(u)'
  BY <1>1, <1>2, <1>6, <1>7, <1>9, OuterMeetings
<1>16. (\A u \in Thread : \A i \in DOMAIN got'[u] : GotInv(u, i)') /\ ParticipantsAgree'
  BY <1>1, <1>2, <1>7, <1>10, <1>13, NothingGot
<1>17. ChecksHold'
  BY <1>2 DEF ChecksHold, RInv
<1> QED  BY <1>12, <1>13, <1>14, <1>15, <1>16, <1>17 DEF RInv

\* A call that skips the rendezvous, because the flag is completed.
LEMMA SkipsInv ==
  ASSUME RInv, NEW t \in Thread, pc[t] = "idle", step[t] <= Len(calls[t]),
         UNCHANGED <<calls, id, stuck, state, states, map, process, flag, pc>>,
         Call(t).flagged, flag = kCompleted, Returns(t, Skipped)
  PROVE  RInv'
<1>1. PICK me, i : me = <<t, step[t]>> /\ i = step[t]
  OBVIOUS
<1>2. /\ calls' = calls /\ id' = id /\ state' = state /\ states' = states /\ map' = map
      /\ process' = process /\ flag' = flag /\ pc' = pc
  OBVIOUS
<1>3. /\ i \in Nat \ {0} /\ state[t] = 0 /\ ThreadInv(t) /\ Types /\ Len(got[t]) = i - 1
      /\ got[t] \in Seq(Result) /\ i \in DOMAIN calls[t] /\ calls \in Programs
  BY <1>1, ThreadFacts DEF RInv, Types, Holding, ThreadInv
<1>4. Skipped \in Result
  BY DEF Skipped, Result
<1>5. /\ got' = [got EXCEPT ![t] = Append(@, Skipped)]
      /\ step' = [step EXCEPT ![t] = @ + 1]
  BY DEF Returns
<1>6. /\ got'[t] = Append(got[t], Skipped) /\ \A u \in Thread \ {t} : got'[u] = got[u]
      /\ step'[t] = i + 1 /\ \A u \in Thread \ {t} : step'[u] = step[u]
  BY <1>1, <1>3, <1>5 DEF Types
<1>7. got'[t] \in Seq(Result) /\ Len(got'[t]) = i /\ got'[t][i] = Skipped
  BY <1>3, <1>4, <1>6
<1>8. Local(t)
  BY <1>1, <1>2, <1>3, <1>4, <1>6 DEF Local
<1>9. ~Acked(me)
  BY <1>1, <1>3 DEF Acked, Stage
<1>10. InFlight = {}
  BY DEF RInv, FlagInv
<1>11. \A u \in Thread : ThreadInv(u)'
  <2>1. ThreadInv(t)'
    BY <1>1, <1>2, <1>3, <1>6, <1>7 DEF ThreadInv, Holding
  <2>2. \A u \in Thread \ {t} : ThreadInv(u)'
    BY <1>2, <1>8, OthersThread
  <2> QED  BY <2>1, <2>2
<1>12. FlagInv' /\ FlagStays
  <2>1. \A u \in Thread \ {t} : u \in InFlight' <=> u \in InFlight
    BY <1>2, <1>8, OthersThread
  <2>2. t \notin InFlight' /\ InFlight' \subseteq Thread
    BY <1>2 DEF InFlight
  <2>3. InFlight' = {}
    BY <1>10, <2>1, <2>2
  <2> QED  BY <1>2, <2>3 DEF FlagInv, FlagStays
<1>13. Types'
  BY <1>2, <1>3, <1>4, <1>5 DEF Types
<1>14. \A u \in Thread : state[u] # 0 => me \notin Here(u)
  <2> SUFFICES ASSUME NEW u \in Thread, state[u] # 0, me \in Here(u)  PROVE FALSE
    OBVIOUS
  <2>1. pc[u] # "idle"
    BY ThreadFacts DEF Holding
  <2>2. me[1] = t /\ me[2] = step[t]
    BY <1>1
  <2>3. calls[me[1]][me[2]] = Call(u)
    BY <2>1, HereFacts
  <2>4. Call(u).flagged
    BY <2>2, <2>3 DEF Call
  <2> QED  BY <1>10, <2>1, <2>4 DEF InFlight
<1>15. \A u \in Thread : state'[u] # 0 => MeetingOf(u)'
  BY <1>1, <1>2, <1>3, <1>8, <1>14, OuterMeetings
<1>16. GotInv(t, i)'
  <2>1. got'[t][i].status = "skipped"
    BY <1>7 DEF Skipped
  <2>2. calls'[t][i].flagged
    BY <1>1, <1>2 DEF Call
  <2> QED  BY <1>2, <1>7, <2>1, <2>2 DEF GotInv
<1>17. \A c \in Here(t) : Has(c) => Got(c) = Skipped
  <2> SUFFICES ASSUME NEW c \in Here(t), Has(c)  PROVE Got(c) = Skipped
    OBVIOUS
  <2>1. c \in Together(calls, t, i)
    BY <1>1 DEF Here
  <2>2. c[1] \in Thread
    BY <1>3, <2>1, RoundCalls
  <2>3. Together(calls, c[1], c[2]) = Together(calls, t, i)
    BY <1>3, <2>1, SameRound
  <2>4. GotInv(c[1], c[2])
    BY <2>2, PastFacts DEF Has
  <2>5. me \in Together(calls, t, i)
    BY <1>1, <1>3, TogetherFacts
  <2> QED  BY <1>9, <2>3, <2>4, <2>5 DEF GotInv, Got
<1>18. /\ \A u \in Thread : \A j \in DOMAIN got'[u] : GotInv(u, j)'
       /\ ParticipantsAgree'
  BY <1>1, <1>3, <1>4, <1>5, <1>7, <1>8, <1>9, <1>12, <1>16, <1>17, NewGot
<1>19. ChecksHold'
  BY <1>2 DEF ChecksHold, RInv
<1> QED  BY <1>11, <1>12, <1>13, <1>15, <1>18, <1>19 DEF RInv

LEMMA CallsInv ==
  ASSUME RInv, NEW t \in Thread, Calls(t)
  PROVE  RInv'
<1>1. CASE Call(t).flagged /\ flag = kCompleted
  BY <1>1, SkipsInv DEF Calls, TryJoin
<1>2. CASE ~(Call(t).flagged /\ flag = kCompleted)
  BY <1>2, BeginsInv DEF Calls, TryJoin
<1> QED  BY <1>1, <1>2

\* A call gets its result: it goes on to leave the flag, or is done.
LEMMA EndFacts ==
  ASSUME RInv, NEW t \in Thread, pc[t] \notin {"idle", "leave"}, NEW r \in Result, End(t, r),
         calls' = calls, id' = id, states' = states, map' = map, flag' = flag,
         NEW me, me = <<t, step[t]>>, NEW i, i = step[t]
  PROVE  /\ Local(t) /\ Types' /\ (\A u \in Thread : ThreadInv(u)') /\ FlagInv' /\ FlagStays
         /\ got' = [got EXCEPT ![t] = Append(@, r)] /\ got'[t][i] = r
         /\ i \in DOMAIN got'[t] /\ i \in DOMAIN calls[t]
         /\ state'[t] = 0 /\ state' = [state EXCEPT ![t] = 0]
         /\ Stage(me)' \in {"leave", "done"} /\ Acked(me)'
<1>1. /\ i \in Nat \ {0} /\ ThreadInv(t) /\ Types /\ Len(got[t]) = i - 1
      /\ got[t] \in Seq(Result) /\ i \in DOMAIN calls[t] /\ calls \in Programs
  BY ThreadFacts DEF RInv, Types, ThreadInv
<1>2. got' = [got EXCEPT ![t] = Append(@, r)] /\ state' = [state EXCEPT ![t] = 0]
  BY DEF End, Returns
<1>3. /\ got'[t] = Append(got[t], r) /\ \A u \in Thread \ {t} : got'[u] = got[u]
      /\ state'[t] = 0 /\ \A u \in Thread \ {t} : state'[u] = state[u]
  BY <1>1, <1>2 DEF Types
<1>4. got'[t] \in Seq(Result) /\ Len(got'[t]) = i /\ got'[t][i] = r /\ i \in DOMAIN got'[t]
  BY <1>1, <1>3
<1>5. PICK p \in {"leave", "idle"} :
        /\ Goes(t, p) /\ (p = "leave" <=> Call(t).flagged)
        /\ step' = [step EXCEPT ![t] = IF p = "leave" THEN i ELSE i + 1]
  <2>1. step \in [Thread -> Nat \ {0}]
    BY <1>1 DEF Types
  <2>2. CASE Call(t).flagged
    <3>1. step' = [step EXCEPT ![t] = i] /\ Goes(t, "leave")
      BY <2>1, <2>2 DEF End
    <3> QED  BY <2>2, <3>1
  <2>3. CASE ~Call(t).flagged
    <3>1. step' = [step EXCEPT ![t] = i + 1] /\ Goes(t, "idle")
      BY <2>1, <2>3 DEF End, Returns
    <3> QED  BY <2>3, <3>1
  <2> QED  BY <2>2, <2>3
<1>6. /\ pc' \in [Thread -> Places] /\ pc'[t] = p
      /\ \A u \in Thread \ {t} : pc'[u] = pc[u]
  BY <1>5, GoesFacts DEF Places
<1>7. /\ step' \in [Thread -> Nat \ {0}] /\ step'[t] = IF p = "leave" THEN i ELSE i + 1
      /\ \A u \in Thread \ {t} : step'[u] = step[u]
  BY <1>1, <1>5 DEF Types
<1>8. Local(t)
  BY <1>1, <1>3, <1>5, <1>6, <1>7 DEF Local
<1>9. Stage(me)' \in {"leave", "done"}
  <2>1. me[1] = t /\ me[2] = i
    OBVIOUS
  <2>2. Stage(me)' = CASE step'[t] > i -> "done" [] step'[t] < i -> "idle" [] OTHER -> pc'[t]
    BY <2>1 DEF Stage
  <2> QED  BY <1>1, <1>5, <1>6, <1>7, <2>2
<1>10. \A u \in Thread : ThreadInv(u)'
  <2>1. ThreadInv(t)'
    <3>1. p = "leave" => Call(t)' = Call(t)
      BY <1>7 DEF Call
    <3> QED  BY <1>1, <1>3, <1>4, <1>5, <1>6, <1>7, <3>1 DEF ThreadInv, Holding
  <2>2. \A u \in Thread \ {t} : ThreadInv(u)'
    BY <1>8, OthersThread
  <2> QED  BY <2>1, <2>2
<1>11. FlagInv' /\ FlagStays
  <2>1. \A u \in Thread \ {t} : u \in InFlight' <=> u \in InFlight
    BY <1>8, OthersThread
  <2>2. t \in InFlight' <=> t \in InFlight
    <3>1. p = "leave" => Call(t)' = Call(t)
      BY <1>7 DEF Call
    <3> QED  BY <1>5, <1>6, <3>1 DEF InFlight
  <2>3. InFlight' \subseteq Thread /\ InFlight \subseteq Thread
    BY DEF InFlight
  <2>4. InFlight' = InFlight
    BY ONLY <2>1, <2>2, <2>3
  <2> QED  BY <2>4 DEF FlagInv, FlagStays, RInv
<1>12. Types'
  <2>1. got' \in [Thread -> Seq(Result)] /\ state' \in [Thread -> Nat]
    BY <1>1, <1>2, <1>4, <1>3 DEF Types
  <2> QED  BY <1>1, <1>6, <1>7, <2>1 DEF Types
<1>13. Acked(me)'
  BY <1>9 DEF Acked
<1> QED  BY <1>1, <1>2, <1>3, <1>4, <1>8, <1>9, <1>10, <1>11, <1>12, <1>13

LEMMA AloneInv ==
  ASSUME RInv, NEW t \in Thread, Alone(t)
  PROVE  RInv'
<1>1. PICK me, i : me = <<t, step[t]>> /\ i = step[t]
  OBVIOUS
<1>2. pc[t] = "alone" /\ state[t] = 0 /\ Call(t).num_threads = 1 /\ state \in [Thread -> Nat]
  BY ThreadFacts DEF Alone, Holding, ThreadInv, RInv, Types
<1>3. PICK r \in Results({t}) : End(t, r)
  BY DEF Alone
<1>4. Here(t) = {me}
  <2>1. /\ me \in Here(t) /\ IsFiniteSet(Here(t)) /\ Cardinality(Here(t)) \in Nat
        /\ Cardinality(Here(t)) <= 1
    BY <1>1, <1>2, HereFacts
  <2>2. PICK Q : Q = Here(t) \ {me}
    OBVIOUS
  <2>3. IsFiniteSet(Q) /\ Cardinality(Q) = Cardinality(Here(t)) - 1
    BY ONLY <2>1, <2>2, FS_RemoveElement
  <2>4. Cardinality(Q) = 0
    BY <2>1, <2>3, FS_CardinalityType
  <2>5. Q = {}
    BY ONLY <2>3, <2>4, FS_EmptySet
  <2> QED  BY <2>1, <2>2, <2>5
<1>5. step[t] \in Nat
  BY ThreadFacts
<1>6. r \in Result /\ Proper(r, {me}, Call(t).key) /\ r.status # "skipped"
  <2>1. r = [status |-> "ok", values |-> {me}] \/ r = [status |-> "error", values |-> {}]
    BY <1>1, <1>3 DEF Results
  <2>2. {me} \in SUBSET (Thread \X Nat)
    BY <1>1, <1>5
  <2> QED  BY <2>1, <2>2 DEF Proper, Result
<1>7. /\ calls' = calls /\ id' = id /\ states' = states /\ map' = map /\ flag' = flag
      /\ process' = process
  BY DEF Alone
<1>8. /\ Local(t) /\ Types' /\ (\A u \in Thread : ThreadInv(u)') /\ FlagInv' /\ FlagStays
      /\ got' = [got EXCEPT ![t] = Append(@, r)] /\ got'[t][i] = r
      /\ i \in DOMAIN calls[t] /\ Acked(me)' /\ state' = [state EXCEPT ![t] = 0]
  BY <1>1, <1>2, <1>3, <1>6, <1>7, EndFacts
<1>9. state' = state
  BY <1>2, <1>8
<1>10. \A u \in Thread : state[u] # 0 => me \notin Here(u)
  <2> SUFFICES ASSUME NEW u \in Thread, state[u] # 0, me \in Here(u)  PROVE FALSE
    OBVIOUS
  <2>1. pc[u] # "idle"
    BY ThreadFacts DEF Holding
  <2>2. me[1] = t /\ me[2] = step[t]
    BY <1>1
  <2>3. Together(calls, me[1], me[2]) = Here(u)
    BY <2>1, HereSame
  <2>4. Here(u) = {me}
    BY <1>4, <2>2, <2>3 DEF Here
  <2>5. <<u, step[u]>> \in Here(u)
    BY <2>1, HereFacts
  <2> QED  BY <1>1, <1>2, <2>4, <2>5
<1>11. \A u \in Thread : state'[u] # 0 => MeetingOf(u)'
  BY <1>1, <1>2, <1>7, <1>8, <1>9, <1>10, OuterMeetings
<1>12. GotInv(t, i)'
  <2>1. Together(calls, t, i) = {me} /\ calls[t][i] = Call(t)
    BY <1>1, <1>4 DEF Here, Call
  <2> QED  BY <1>6, <1>7, <1>8, <2>1 DEF GotInv, Proper
<1>13. \A c \in Here(t) : ~Has(c)
  <2>1. me[1] \in Thread /\ me[2] \in Nat \ {0} /\ Stage(me) = "alone"
    BY <1>1, <1>2, ThreadFacts DEF Stage
  <2> QED  BY <1>4, <2>1, HasFacts
<1>14. /\ \A u \in Thread : \A j \in DOMAIN got'[u] : GotInv(u, j)'
       /\ ParticipantsAgree'
  BY <1>1, <1>2, <1>6, <1>8, <1>12, <1>13, NewGot
<1>15. ChecksHold'
  BY <1>7 DEF ChecksHold, RInv
<1> QED  BY <1>8, <1>11, <1>14, <1>15 DEF RInv

LEMMA LeaveInv ==
  ASSUME RInv, NEW t \in Thread, Leave(t)
  PROVE  RInv'
<1>1. PICK me, i : me = <<t, step[t]>> /\ i = step[t]
  OBVIOUS
<1>2. /\ pc[t] = "leave" /\ state[t] = 0 /\ Call(t).flagged /\ i \in Nat \ {0} /\ Types
      /\ ThreadInv(t) /\ Len(got[t]) = i /\ i \in DOMAIN calls[t]
  BY <1>1, ThreadFacts DEF Leave, Holding, ThreadInv, RInv
<1>3. /\ calls' = calls /\ id' = id /\ state' = state /\ states' = states /\ map' = map
      /\ got' = got
  BY DEF Leave
<1>4. /\ pc' \in [Thread -> Places] /\ pc'[t] = "idle"
      /\ \A u \in Thread \ {t} : pc'[u] = pc[u]
  BY GoesFacts DEF Leave, Places
<1>5. /\ step' \in [Thread -> Nat \ {0}] /\ step'[t] = i + 1
      /\ \A u \in Thread \ {t} : step'[u] = step[u]
  BY <1>1, <1>2 DEF Leave, Types
<1>6. Local(t)
  BY <1>1, <1>2, <1>3, <1>4, <1>5 DEF Local
<1>7. Stage(me) = "leave" /\ Stage(me)' = "done"
  <2>1. me[1] = t /\ me[2] = i
    BY <1>1
  <2> QED  BY <1>1, <1>2, <1>5, <2>1 DEF Stage
<1>8. Alike(me)
  <2>1. Stage(me) \notin Holding
    BY <1>7 DEF Holding
  <2>2. Similar(Stage(me), Stage(me)')
    BY <1>7 DEF Similar
  <2> QED  BY <1>3, <2>1, <2>2 DEF Alike, Has, Got
<1>9. Acked(me)'
  BY <1>7 DEF Acked
<1>10. t \in InFlight
  BY <1>2 DEF InFlight
<1>11. /\ flag # kCompleted /\ flag = Cardinality(InFlight) /\ flag \in Nat /\ flag # 0
       /\ flag < kCompleted
  <2>1. flag # kCompleted /\ flag = Cardinality(InFlight)
    BY <1>10 DEF RInv, FlagInv
  <2>2. Cardinality(InFlight) # 0
    BY <1>10, InFlightFacts, FS_EmptySet
  <2> QED  BY <2>1, <2>2, InFlightFacts
<1>12. \A u \in Thread : ThreadInv(u)'
  <2>1. ThreadInv(t)'
    <3>1. Len(calls[t]) \in Nat /\ DOMAIN calls[t] = 1 .. Len(calls[t])
      BY ThreadFacts
    <3> QED  BY <1>1, <1>2, <1>3, <1>4, <1>5, <3>1 DEF ThreadInv, Holding
  <2>2. \A u \in Thread \ {t} : ThreadInv(u)'
    BY <1>3, <1>6, OthersThread
  <2> QED  BY <2>1, <2>2
<1>13. FlagInv' /\ flag' \in Nat
  <2>1. \A u \in Thread \ {t} : u \in InFlight' <=> u \in InFlight
    BY <1>3, <1>6, OthersThread
  <2>2. t \notin InFlight' /\ InFlight' \subseteq Thread /\ InFlight \subseteq Thread
    BY <1>4 DEF InFlight
  <2>3. InFlight' = InFlight \ {t}
    BY ONLY <2>1, <2>2
  <2>4. IsFiniteSet(InFlight') /\ Cardinality(InFlight') = Cardinality(InFlight) - 1
    <3>1. IsFiniteSet(InFlight)
      BY InFlightFacts
    <3> QED  BY ONLY <1>10, <2>3, <3>1, FS_RemoveElement
  <2>5. flag' = IF flag = 1 THEN kCompleted ELSE flag - 1
    BY DEF Leave
  <2>6. CASE flag = 1
    <3>1. Cardinality(InFlight') = 0
      BY <1>11, <2>4, <2>6
    <3>2. InFlight' = {}
      BY ONLY <2>4, <3>1, FS_EmptySet
    <3> QED  BY <2>5, <2>6, <3>2, InFlightFacts DEF FlagInv
  <2>7. CASE flag # 1
    BY <1>11, <2>4, <2>5, <2>7, InFlightFacts DEF FlagInv
  <2> QED  BY <2>6, <2>7
<1>14. Types'
  BY <1>2, <1>3, <1>4, <1>5, <1>13 DEF Types
<1>15. FlagStays
  BY <1>11 DEF FlagStays
<1>16. \A u \in Thread : state'[u] # 0 => MeetingOf(u)'
  BY <1>1, <1>2, <1>3, <1>6, <1>8, OuterMeetings
<1>17. (\A u \in Thread : \A j \in DOMAIN got'[u] : GotInv(u, j)') /\ ParticipantsAgree'
  BY <1>1, <1>3, <1>6, <1>9, <1>15, NothingGot
<1>18. ChecksHold'
  BY <1>11 DEF ChecksHold, Leave, Check, kPending
<1> QED  BY <1>12, <1>13, <1>14, <1>16, <1>17, <1>18 DEF RInv

LEMMA LocalAlikeBut ==
  ASSUME RInv, NEW t \in Thread, Local(t), NEW me, me = <<t, step[t]>>, NEW k, NEW n,
         NEW P, \A c \in P : c = <<c[1], c[2]>> /\ c[1] \in Thread /\ c[2] \in Nat
  PROVE  AlikeBut(P, me, k, n)
<1> SUFFICES ASSUME NEW c \in P \ {me}
             PROVE  /\ Alike(c)
                    /\ Acked(c)' <=> Acked(c)
                    /\ Written(c)' <=> Written(c)
                    /\ Published(c)' <=> Published(c)
                    /\ Leads(c)' <=> Leads(c)
                    /\ Over(c)' <=> Over(c)
                    /\ Stage(c)' \in Holding <=> Stage(c) \in Holding
                    /\ \A x \in {"invoke", "finish"} : Stage(c)' = x <=> Stage(c) = x
                    /\ Waits(c, k, n)' <=> Waits(c, k, n)
                    /\ Stage(c) \in Holding => id'[c[1]] = id[c[1]]
  BY DEF AlikeBut
<1>1. Alike(c)
  BY OthersAlike
<1>2. Stage(c) \in Holding => id'[c[1]] = id[c[1]]
  BY <1>1 DEF Alike
<1> QED  BY <1>1, <1>2, AlikeStages

LEMMA ReturnInv ==
  ASSUME RInv, NEW t \in Thread, Return(t)
  PROVE  RInv'
<1>1. PICK P, me, s, k, n : Context(t, P, me, s, k, n)
  BY ContextExists
<1>2. pc[t] = "return" /\ state[t] # 0
  BY ThreadFacts DEF Return, Holding, Places
<1>3. /\ me \in P /\ Stage(me) = "return" /\ Meeting(P, s, k, n) /\ k \in Key
      /\ k = Call(t).key /\ s = state[t] /\ s # 0 /\ P = Here(t) /\ me = <<t, step[t]>>
      /\ states[s] \in Record /\ Held(t) = states[s] /\ me[1] = t /\ me[2] = step[t]
      /\ \A c \in P : c = <<c[1], c[2]>> /\ c[1] \in Thread /\ c[2] \in Nat
  BY <1>1, <1>2, OwnFacts DEF Context
<1>4. PICK i, r : i = step[t] /\ r = states[s].result
  OBVIOUS
<1>5. r \in Result /\ End(t, r)
  BY <1>3, <1>4 DEF Return, Record
<1>6. /\ calls' = calls /\ id' = id /\ states' = states /\ map' = map /\ flag' = flag
      /\ process' = process
  BY DEF Return
<1>7. /\ Local(t) /\ Types' /\ (\A u \in Thread : ThreadInv(u)') /\ FlagInv' /\ FlagStays
      /\ got' = [got EXCEPT ![t] = Append(@, r)] /\ got'[t][i] = r
      /\ i \in DOMAIN got'[t] /\ i \in DOMAIN calls[t] /\ Acked(me)' /\ state'[t] = 0
      /\ Stage(me)' \in {"leave", "done"}
  BY <1>2, <1>3, <1>4, <1>5, <1>6, EndFacts
<1>8. AlikeBut(P, me, k, n)
  BY <1>3, <1>7, LocalAlikeBut
<1>9. /\ Acked(me) /\ Written(me) /\ Published(me) /\ ~Leads(me) /\ Over(me)
      /\ Acked(me)' /\ Written(me)' /\ Published(me)' /\ ~Leads(me)' /\ Over(me)'
      /\ Stage(me)' \notin Holding /\ ~Waits(me, k, n) /\ ~Waits(me, k, n)'
  <2>1. PICK a, b : a = Stage(me) /\ b = Stage(me)'
    OBVIOUS
  <2>2. a = "return" /\ b \in {"leave", "done"}
    BY <1>3, <1>7, <2>1
  <2>3. ~Waits(me, k, n) /\ ~Waits(me, k, n)'
    BY <2>1, <2>2 DEF Waits
  <2> QED  BY <2>1, <2>2, <2>3 DEF Acked, Written, Published, Leads, Over, Holding, Places
<1>10. \A c \in P : /\ Acked(c)' <=> Acked(c)
                    /\ Written(c)' <=> Written(c)
                    /\ Published(c)' <=> Published(c)
                    /\ Leads(c)' <=> Leads(c)
                    /\ Over(c)' <=> Over(c)
                    /\ Stage(c)' \in Holding => Stage(c) \in Holding
                    /\ \A x \in {"invoke", "finish"} : Stage(c)' = x <=> Stage(c) = x
                    /\ Waits(c, k, n)' <=> Waits(c, k, n)
  BY <1>3, <1>7, <1>8, <1>9 DEF AlikeBut
<1>11. Meeting(P, s, k, n)'
  <2>1. Members(P, s)'
    <3>1. \A v \in Thread : state[v] = s <=> state[v] # 0 /\ <<v, step[v]>> \in P
      BY <1>3 DEF Meeting, Members
    <3>2. \A v \in Thread \ {t} : state'[v] = state[v] /\ step'[v] = step[v]
      BY <1>7 DEF Local
    <3> QED  BY <1>3, <1>7, <3>1, <3>2 DEF Members
  <2>2. Counters(P, s, k)'
    <3>1. {c \in P : Acked(c)'} = {c \in P : Acked(c)}
      BY <1>10
    <3>2. {c \in P : Published(c)'} = {c \in P : Published(c)}
      BY <1>10
    <3> QED  BY <1>3, <1>6, <1>10, <3>1, <3>2 DEF Counters, Meeting
  <2>3. InTheMap(P, s, k)'
    BY <1>3, <1>6, <1>10 DEF InTheMap, Meeting
  <2>4. Ids(P, s, k)'
    BY <1>3, <1>6, <1>10 DEF Ids, Meeting
  <2>5. Leader(P, s, k, n)'
    BY <1>3, <1>6, <1>10 DEF Leader, Meeting
  <2>6. Readiness(P, s, k, n)'
    <3>1. Got(me)' = r
      BY <1>3, <1>4, <1>7 DEF Got
    <3>2. \A c \in P \ {me} : (Has(c)' <=> Has(c)) /\ (Has(c) => Got(c)' = Got(c))
      BY <1>8 DEF AlikeBut, Alike
    <3>3. \A c \in P : Has(c)' => Got(c)' = states'[s].result
      BY <1>3, <1>4, <1>6, <3>1, <3>2 DEF Meeting, Readiness
    <3>4. Readiness(P, s, k, n)
      BY <1>3 DEF Meeting
    <3> QED  BY <1>6, <1>10, <3>3, <3>4 DEF Readiness, Proper
  <2> QED  BY <2>1, <2>2, <2>3, <2>4, <2>5, <2>6 DEF Meeting
<1>12. ASSUME NEW u \in Thread, state'[u] # 0  PROVE MeetingOf(u)'
  <2>1. u # t /\ state'[u] = state[u] /\ step'[u] = step[u] /\ state[u] # 0
    BY <1>7, <1>12 DEF Local
  <2>2. CASE state[u] = state[t]
    <3>1. Here(u) = P /\ Call(u) = Call(t)
      BY <1>2, <1>3, <2>2, SameHere
    <3>2. Here(u)' = P /\ Call(u)' = Call(u) /\ state'[u] = s
      BY <1>3, <1>6, <2>1, <2>2, <3>1 DEF Here, Call
    <3>3. k = Call(u).key /\ n = Call(u).num_threads
      BY <1>1, <3>1 DEF Context
    <3> QED  BY <1>11, <3>2, <3>3 DEF MeetingOf
  <2>3. CASE state[u] # state[t]
    <3>1. me \notin Here(u)
      BY <1>2, <1>3, <2>1, <2>3, SameState
    <3>2. (\E c \in Here(u) : ~Acked(c)) => map'[Call(u).key] = state[u]
      BY <1>6, <2>1 DEF RInv, MeetingOf, Meeting, InTheMap
    <3> QED  BY <1>3, <1>6, <1>7, <2>1, <3>1, <3>2, Elsewhere
  <2> QED  BY <2>2, <2>3
<1>13. Readiness(P, s, k, n) /\ states[s].ready
  BY <1>3, <1>9 DEF Meeting, Readiness
<1>14. GotInv(t, i)'
  <2>1. Proper(r, P, k)
    BY <1>4, <1>13 DEF Readiness
  <2>2. \A c \in P : Acked(c)'
    <3>1. \A c \in P : Acked(c)
      BY <1>13 DEF Readiness, Over, Waits, Acked
    <3> QED  BY <1>10, <3>1
  <2>3. Together(calls, t, i) = P /\ calls[t][i].key = k
    BY <1>3, <1>4 DEF Here, Call
  <2>4. r.status # "skipped"
    BY <2>1 DEF Proper
  <2> QED  BY <1>6, <1>7, <2>1, <2>2, <2>3, <2>4 DEF GotInv, Proper
<1>15. \A c \in Here(t) : Has(c) => Got(c) = r
  BY <1>3, <1>4, <1>13 DEF Readiness
<1>16. /\ \A u \in Thread : \A j \in DOMAIN got'[u] : GotInv(u, j)'
       /\ ParticipantsAgree'
  BY <1>2, <1>3, <1>4, <1>5, <1>7, <1>14, <1>15, NewGot
<1>17. ChecksHold'
  BY <1>6 DEF ChecksHold, RInv
<1> QED  BY <1>7, <1>12, <1>16, <1>17 DEF RInv

LEMMA UseCountType ==
  ASSUME NEW x
  PROVE  UseCount(x) \in Nat /\ (UseCount(x) > 0 <=> \E u \in Thread : state[u] = x)
<1> DEFINE U == {u \in Thread : state[u] = x}
<1>1. U \in SUBSET Thread /\ IsFiniteSet(Thread) /\ UseCount(x) = Cardinality(U)
  BY ThreadAssumption DEF UseCount
<1>2. U # {} <=> \E u \in Thread : state[u] = x
  OBVIOUS
<1> HIDE DEF U
<1>3. IsFiniteSet(U) /\ Cardinality(U) \in Nat
  BY ONLY <1>1, FS_Subset, FS_CardinalityType
<1>4. Cardinality(U) = 0 <=> U = {}
  BY ONLY <1>3, FS_EmptySet
<1> QED  BY <1>1, <1>2, <1>3, <1>4

LEMMA InMapFacts ==
  ASSUME RInv, NEW l \in Key
  PROVE  /\ InMap[l] \in Nat /\ InMap[l] \in {map[l], 0} /\ InMap[l] <= Len(states)
         /\ InMap[l] # 0 => \E u \in Thread : state[u] = InMap[l]
         /\ \A u \in Thread : state[u] # 0 /\ map[l] = state[u] => InMap[l] = state[u]
<1>1. InMap[l] = IF UseCount(map[l]) > 0 THEN map[l] ELSE 0
  BY DEF InMap
<1>2. map[l] \in Nat /\ map[l] <= Len(states) /\ Len(states) \in Nat
  BY DEF RInv, Types
<1> QED  BY <1>1, <1>2, UseCountType

\* The map a call joins with: the entries of states somebody holds stay.
JoinsAt(t, s, k) ==
  /\ map' \in [Key -> Nat]
  /\ map'[k] = s /\ (\A l \in Key \ {k} : map'[l] = InMap[l])
  /\ s = IF InMap[k] # 0 THEN InMap[k] ELSE Len(states) + 1
  /\ states' \in Seq(Record) /\ DOMAIN states \subseteq DOMAIN states'
  /\ s \in DOMAIN states' /\ Len(states) <= Len(states')
  /\ \A x \in DOMAIN states : states'[x] = states[x]
  /\ InMap[k] = 0 => states'[s] = NewState
  /\ state' = [state EXCEPT ![t] = s]

LEMMA JoinFacts ==
  ASSUME RInv, NEW t \in Thread, Join(t), NEW k, k = Call(t).key
  PROVE  \E s \in Nat \ {0} : JoinsAt(t, s, k)
<1>1. pc[t] = "join"
  BY DEF Join
<1>2. k \in Key
  BY <1>1, HereFacts DEF Calling
<1>3. PICK s : s = IF InMap[k] # 0 THEN InMap[k] ELSE Len(states) + 1
  OBVIOUS
<1>4. /\ InMap[k] \in Nat /\ InMap[k] <= Len(states) /\ states \in Seq(Record)
      /\ Len(states) \in Nat /\ DOMAIN states = 1 .. Len(states)
  BY <1>2, InMapFacts DEF RInv, Types
<1>5. /\ states' = IF s > Len(states) THEN Append(states, NewState) ELSE states
      /\ state' = [state EXCEPT ![t] = s]
      /\ map' = [InMap EXCEPT ![k] = s]
  BY <1>3 DEF Join
<1>6. s \in Nat \ {0}
  BY <1>3, <1>4
<1>7. NewState \in Record
  BY DEF NewState, Record, Result
<1>8. /\ states' \in Seq(Record) /\ DOMAIN states \subseteq DOMAIN states'
      /\ s \in DOMAIN states' /\ Len(states) <= Len(states')
      /\ \A x \in DOMAIN states : states'[x] = states[x]
      /\ InMap[k] = 0 => states'[s] = NewState
  <2>1. CASE InMap[k] = 0
    <3>1. s = Len(states) + 1
      BY <1>3, <2>1
    <3>2. s > Len(states)
      BY <1>4, <3>1
    <3>3. states' = Append(states, NewState)
      BY <1>5, <3>2
    <3> QED  BY <1>4, <1>7, <3>1, <3>3
  <2>2. CASE InMap[k] # 0
    <3>1. s = InMap[k]
      BY <1>3, <2>2
    <3>2. ~(s > Len(states))
      BY <1>4, <3>1
    <3>3. states' = states
      BY <1>5, <3>2
    <3> QED  BY <1>4, <1>6, <2>2, <3>1, <3>3
  <2> QED  BY <2>1, <2>2
<1>9. /\ map' \in [Key -> Nat] /\ map'[k] = s
      /\ \A l \in Key \ {k} : map'[l] = InMap[l]
  <2>1. InMap \in [Key -> Nat]
    <3>1. \A l \in Key : InMap[l] \in Nat
      BY InMapFacts
    <3>2. InMap = [l \in Key |-> InMap[l]]
      BY DEF InMap
    <3> QED  BY <3>1, <3>2
  <2> QED  BY <1>2, <1>5, <1>6, <2>1
<1> QED  BY <1>3, <1>5, <1>6, <1>8, <1>9 DEF JoinsAt

\* A state that somebody holds in the round of t is the one that t finds, and
\* the one t finds is of its round.
LEMMA JoinsOwnRound ==
  ASSUME RInv, NEW t \in Thread, pc[t] = "join",
         NEW k, k = Call(t).key, NEW s \in Nat \ {0},
         s = IF InMap[k] # 0 THEN InMap[k] ELSE Len(states) + 1,
         NEW u \in Thread, state[u] # 0
  PROVE  /\ <<t, step[t]>> \in Here(u) => InMap[k] # 0 /\ state[u] = s
         /\ state[u] = s => InMap[k] # 0 /\ Here(u) = Here(t) /\ Call(u) = Call(t) /\ map[k] = s
<1>1. PICK me : me = <<t, step[t]>>
  OBVIOUS
<1>2. /\ me[1] = t /\ me[2] = step[t] /\ me \in Here(t) /\ k \in Key /\ step[t] \in Nat
  BY <1>1, HereFacts, ThreadFacts DEF Calling
<1>3. ~Acked(me)
  <2>1. Stage(me) = "join"
    BY <1>2 DEF Stage
  <2> QED  BY <2>1 DEF Acked
<1>4. pc[u] # "idle" /\ state[u] \in DOMAIN states
  BY ThreadFacts DEF Holding, ThreadInv
<1>5. InTheMap(Here(u), state[u], Call(u).key)
  BY DEF RInv, MeetingOf, Meeting
<1>6. ASSUME me \in Here(u)  PROVE InMap[k] # 0 /\ state[u] = s
  <2>1. calls[me[1]][me[2]] = Call(u)
    BY <1>4, <1>6, HereFacts
  <2>2. Call(u).key = k
    BY <1>2, <2>1 DEF Call
  <2>3. map[k] = state[u]
    BY <1>3, <1>5, <1>6, <2>2 DEF InTheMap
  <2> QED  BY <1>2, <2>3, InMapFacts
<1>7. ASSUME state[u] = s
      PROVE  InMap[k] # 0 /\ Here(u) = Here(t) /\ Call(u) = Call(t) /\ map[k] = s
  <2>1. InMap[k] # 0 /\ s = InMap[k]
    BY <1>4, <1>7 DEF RInv, Types
  <2>2. map[k] = s
    BY <1>2, <2>1, InMapFacts
  <2>3. Call(u).key = k /\ ~states[state[u]].ready
    BY <1>2, <1>5, <1>7, <2>2 DEF InTheMap
  <2>4. Here(u) = Here(t)
    <3> SUFFICES ASSUME Here(u) # Here(t) PROVE FALSE
      OBVIOUS
    <3>1. (\E c \in Here(t) : Has(c)) \/ (\E c \in Here(u) : Has(c))
      BY <1>4, <2>3, NotMixed
    <3>2. ~ \E c \in Here(t) : Has(c)
      BY <1>2, <1>3, NotSkipped
    <3>3. ~ \E c \in Here(u) : Has(c)
      BY <2>3, HasIsReady
    <3> QED  BY <3>1, <3>2, <3>3
  <2>5. Call(u) = Call(t)
    <3>1. calls[me[1]][me[2]] = Call(u)
      BY <1>2, <1>4, <2>4, HereFacts
    <3> QED  BY <1>2, <3>1 DEF Call
  <2> QED  BY <2>1, <2>2, <2>4, <2>5
<1> QED  BY <1>1, <1>6, <1>7

LEMMA JoinInv ==
  ASSUME RInv, NEW t \in Thread, Join(t)
  PROVE  RInv'
<1>1. PICK P, me, k, n : /\ P = Here(t) /\ me = <<t, step[t]>>
                         /\ k = Call(t).key /\ n = Call(t).num_threads
  OBVIOUS
<1>2. pc[t] = "join" /\ state[t] = 0 /\ step[t] \in Nat \ {0} /\ Types /\ ThreadInv(t)
  BY ThreadFacts DEF Join, Holding, RInv
<1>3. /\ me \in P /\ me[1] = t /\ me[2] = step[t] /\ k \in Key
      /\ \A c \in P : c = <<c[1], c[2]>> /\ c[1] \in Thread /\ c[2] \in Nat /\ c[2] # 0
  BY <1>1, <1>2, HereFacts DEF Calling
<1>4. PICK s \in Nat \ {0} : JoinsAt(t, s, k)
  BY <1>1, JoinFacts
<1>5. /\ calls' = calls /\ step' = step /\ id' = id /\ flag' = flag /\ got' = got
      /\ process' = process
  BY DEF Join
<1>6. /\ pc' \in [Thread -> Places] /\ pc'[t] = "ack"
      /\ \A u \in Thread \ {t} : pc'[u] = pc[u]
  BY GoesFacts DEF Join, Places
<1>7. /\ state' \in [Thread -> Nat] /\ state'[t] = s
      /\ \A u \in Thread \ {t} : state'[u] = state[u]
  BY <1>2, <1>4 DEF JoinsAt, Types
<1>8. Local(t)
  BY <1>5, <1>6, <1>7 DEF Local
<1>9. Stage(me) = "join" /\ Stage(me)' = "ack"
  BY <1>2, <1>3, <1>5, <1>6 DEF Stage
<1>10. AlikeBut(P, me, k, n)
  BY <1>1, <1>3, <1>8, LocalAlikeBut
<1>11. /\ ~Acked(me) /\ ~Written(me) /\ ~Published(me) /\ ~Leads(me) /\ ~Over(me)
       /\ ~Acked(me)' /\ ~Written(me)' /\ ~Published(me)' /\ ~Leads(me)' /\ ~Over(me)'
       /\ ~Waits(me, k, n) /\ ~Waits(me, k, n)'
  BY <1>9 DEF Acked, Written, Published, Leads, Over, Waits
<1>12. \A c \in P : /\ Acked(c)' <=> Acked(c)
                    /\ Written(c)' <=> Written(c)
                    /\ Published(c)' <=> Published(c)
                    /\ Leads(c)' <=> Leads(c)
                    /\ Over(c)' <=> Over(c)
                    /\ Acked(c)' /\ Stage(c)' \in Holding => Stage(c) \in Holding
                    /\ \A x \in {"invoke", "finish"} : Stage(c)' = x <=> Stage(c) = x
                    /\ Waits(c, k, n)' <=> Waits(c, k, n)
                    /\ Has(c)' <=> Has(c)
                    /\ Got(c)' = Got(c)
  <2>1. \A c \in P : (Has(c)' <=> Has(c)) /\ Got(c)' = Got(c)
    BY <1>5 DEF Has, Got
  <2>2. \A x \in {"invoke", "finish"} : Stage(me)' # x /\ Stage(me) # x
    BY <1>9
  <2> QED  BY <1>3, <1>10, <1>11, <2>1, <2>2 DEF AlikeBut
<1>13. ASSUME NEW u \in Thread, state[u] # 0
       PROVE  /\ me \in Here(u) => InMap[k] # 0 /\ state[u] = s
              /\ state[u] = s => /\ InMap[k] # 0 /\ Here(u) = P /\ Call(u) = Call(t)
                                 /\ map[k] = s
  BY <1>1, <1>2, <1>4, <1>13, JoinsOwnRound DEF JoinsAt
<1>14. Meeting(P, s, k, n)'
  <2>1. CASE InMap[k] # 0
    <3>1. PICK u \in Thread : state[u] = s
      BY <1>3, <1>4, <2>1, InMapFacts DEF JoinsAt
    <3>2. Here(u) = P /\ Call(u) = Call(t) /\ map[k] = s
      BY <1>13, <3>1
    <3>3. Meeting(P, s, k, n)
      BY <1>1, <3>1, <3>2 DEF RInv, MeetingOf
    <3>4. states'[s] = states[s]
      <4>1. s \in DOMAIN states
        BY <3>1, ThreadFacts DEF ThreadInv
      <4> QED  BY <1>4, <4>1 DEF JoinsAt
    <3>5. Members(P, s)'
      <4>1. \A v \in Thread : state[v] = s <=> state[v] # 0 /\ <<v, step[v]>> \in P
        BY <3>3 DEF Meeting, Members
      <4>2. state'[t] = s /\ s # 0 /\ <<t, step'[t]>> \in P
        BY <1>1, <1>3, <1>5, <1>7
      <4> QED  BY <1>5, <1>7, <4>1, <4>2 DEF Members
    <3>6. Counters(P, s, k)'
      <4>1. {c \in P : Acked(c)'} = {c \in P : Acked(c)}
        BY <1>12
      <4>2. {c \in P : Published(c)'} = {c \in P : Published(c)}
        BY <1>12
      <4> QED  BY <1>12, <3>3, <3>4, <4>1, <4>2 DEF Counters, Meeting
    <3>7. InTheMap(P, s, k)'
      <4>1. map'[k] = s /\ \A l \in Key \ {k} : map'[l] # s
        <5>1. \A l \in Key \ {k} : map[l] # s
          BY <3>3 DEF Meeting, InTheMap
        <5>2. \A l \in Key \ {k} : map'[l] \in {map[l], 0}
          BY <1>4, InMapFacts DEF JoinsAt
        <5> QED  BY <1>4, <5>1, <5>2 DEF JoinsAt
      <4>2. ~states[s].ready /\ \A c \in P : Stage(c) \notin {"invoke", "finish"}
        BY <3>2, <3>3 DEF Meeting, InTheMap
      <4> QED  BY <1>12, <3>4, <4>1, <4>2 DEF InTheMap
    <3>8. Ids(P, s, k)'
      BY <1>5, <1>12, <3>3, <3>4 DEF Ids, Meeting
    <3>9. Leader(P, s, k, n)'
      BY <1>12, <3>3, <3>4 DEF Leader, Meeting
    <3>10. Readiness(P, s, k, n)'
      BY <1>12, <3>3, <3>4 DEF Readiness, Meeting, Proper
    <3> QED  BY <3>5, <3>6, <3>7, <3>8, <3>9, <3>10 DEF Meeting
  <2>2. CASE InMap[k] = 0
    <3>1. /\ s = Len(states) + 1 /\ states'[s].ack = 0 /\ states'[s].rel = 0
          /\ states'[s].values = {} /\ ~states'[s].ready
      BY <1>4, <2>2 DEF JoinsAt, NewState
    <3>2. \A v \in Thread : state[v] # 0 => <<v, step[v]>> \notin P
      <4> SUFFICES ASSUME NEW v \in Thread, state[v] # 0, <<v, step[v]>> \in P  PROVE FALSE
        OBVIOUS
      <4>1. PICK d : d = <<v, step[v]>>
        OBVIOUS
      <4>2. d \in Here(t) /\ d[1] = v /\ d[2] = step[v]
        BY <1>1, <4>1
      <4>3. Together(calls, d[1], d[2]) = Here(t)
        BY <1>2, <4>2, HereSame
      <4>4. me \in Here(v)
        BY <1>1, <1>3, <4>2, <4>3 DEF Here
      <4> QED  BY <1>13, <2>2, <4>4
    <3>3. \A c \in P : Stage(c) \in {"idle", "alone", "join"}
      <4> SUFFICES ASSUME NEW c \in P, Stage(c) \notin {"idle", "alone", "join"}  PROVE FALSE
        OBVIOUS
      <4>1. ~Has(c)
        BY <1>1, <1>2, <1>3, <1>11, NotSkipped
      <4>2. Stage(c) \notin {"leave", "done"}
        BY <1>3, <4>1, HasFacts
      <4>3. /\ c[1] \in Thread /\ step[c[1]] \in Nat /\ pc[c[1]] \in Places
            /\ c = <<c[1], c[2]>> /\ c[2] \in Nat
        BY <1>3, ThreadFacts
      <4>4. step[c[1]] = c[2] /\ pc[c[1]] = Stage(c)
        BY <4>2, <4>3 DEF Stage
      <4>5. pc[c[1]] \in Holding
        BY <4>2, <4>3, <4>4 DEF Holding
      <4>6. state[c[1]] # 0
        BY <4>3, <4>5, ThreadFacts
      <4>7. c = <<c[1], step[c[1]]>>
        BY <4>3, <4>4
      <4> QED  BY <3>2, <4>3, <4>6, <4>7
    <3>4. \A c \in P : /\ ~Acked(c) /\ ~Written(c) /\ ~Published(c) /\ ~Leads(c) /\ ~Over(c)
                       /\ ~Has(c)
      <4>1. \A c \in P : ~Has(c)
        BY <1>3, <3>3, HasFacts
      <4> QED  BY <3>3, <4>1 DEF Acked, Written, Published, Leads, Over
    <3>5. \A c \in P : /\ ~Acked(c)' /\ ~Written(c)' /\ ~Published(c)' /\ ~Leads(c)'
                       /\ ~Over(c)' /\ ~Has(c)'
      BY <1>12, <3>4
    <3>6. Members(P, s)'
      <4>1. \A v \in Thread \ {t} : state'[v] # s /\ (state'[v] # 0 => <<v, step'[v]>> \notin P)
        <5>1. \A v \in Thread : state[v] # s
          BY <1>4, <1>13, <2>2
        <5> QED  BY <1>5, <1>7, <3>2, <5>1
      <4>2. state'[t] = s /\ s # 0 /\ <<t, step'[t]>> \in P
        BY <1>1, <1>3, <1>5, <1>7
      <4> QED  BY <4>1, <4>2 DEF Members
    <3>7. Counters(P, s, k)'
      <4>1. {c \in P : Acked(c)'} = {} /\ {c \in P : Published(c)'} = {}
        BY <3>5
      <4>2. Cardinality({}) = 0
        BY FS_EmptySet
      <4> QED  BY <3>1, <3>5, <4>1, <4>2 DEF Counters
    <3>8. InTheMap(P, s, k)'
      <4>1. map'[k] = s /\ \A l \in Key \ {k} : map'[l] # s
        <5>1. \A l \in Key \ {k} : map'[l] <= Len(states) /\ map'[l] \in Nat
          BY <1>4, InMapFacts DEF JoinsAt
        <5>2. Len(states) \in Nat
          BY <1>2 DEF Types
        <5> QED  BY <1>4, <3>1, <5>1, <5>2 DEF JoinsAt
      <4>2. \A c \in P : Stage(c)' \notin {"invoke", "finish"}
        BY <3>5 DEF Leads
      <4> QED  BY <3>1, <4>1, <4>2 DEF InTheMap
    <3>9. Ids(P, s, k)' /\ Leader(P, s, k, n)'
      BY <3>5 DEF Ids, Leader
    <3>10. Readiness(P, s, k, n)'
      BY <3>1, <3>5 DEF Readiness, Leads
    <3> QED  BY <3>6, <3>7, <3>8, <3>9, <3>10 DEF Meeting
  <2> QED  BY <2>1, <2>2
<1>15. ASSUME NEW u \in Thread, state'[u] # 0  PROVE MeetingOf(u)'
  <2>1. CASE state'[u] = s
    <3>1. Here(u) = P /\ Call(u) = Call(t)
      <4>1. CASE u = t
        BY <1>1, <4>1
      <4>2. CASE u # t
        BY <1>4, <1>7, <1>13, <2>1, <4>2
      <4> QED  BY <4>1, <4>2
    <3>2. Here(u)' = P /\ Call(u)' = Call(u)
      BY <1>5, <3>1 DEF Here, Call
    <3>3. k = Call(u).key /\ n = Call(u).num_threads
      BY <1>1, <3>1
    <3> QED  BY <1>14, <2>1, <3>2, <3>3 DEF MeetingOf
  <2>2. CASE state'[u] # s
    <3>1. u # t /\ state[u] # 0 /\ state[u] # s /\ state'[u] = state[u]
      BY <1>7, <1>15, <2>2
    <3>2. me \notin Here(u)
      BY <1>13, <3>1
    <3>3. states'[state[u]] = states[state[u]]
      <4>1. state[u] \in DOMAIN states
        BY <3>1, ThreadFacts DEF ThreadInv
      <4> QED  BY <1>4, <4>1 DEF JoinsAt
    <3>4. \A l \in Key : map'[l] = state[u] => map[l] = state[u]
      <4>1. \A l \in Key \ {k} : map'[l] \in {map[l], 0}
        BY <1>4, InMapFacts DEF JoinsAt
      <4>2. map'[k] = s
        BY <1>4 DEF JoinsAt
      <4> QED  BY <3>1, <4>1, <4>2
    <3>5. (\E c \in Here(u) : ~Acked(c)) => map'[Call(u).key] = state[u]
      <4> SUFFICES ASSUME \E c \in Here(u) : ~Acked(c)  PROVE map'[Call(u).key] = state[u]
        OBVIOUS
      <4>1. PICK l : l = Call(u).key
        OBVIOUS
      <4>2. l \in Key
        BY <3>1, <4>1, ThreadFacts, HereFacts DEF Holding, Calling
      <4>3. map[l] = state[u]
        BY <3>1, <4>1 DEF RInv, MeetingOf, Meeting, InTheMap
      <4>4. InMap[l] = state[u]
        BY <3>1, <4>2, <4>3, InMapFacts
      <4>5. l # k
        BY <1>4, <3>1, <4>4 DEF JoinsAt
      <4> QED  BY <1>4, <4>1, <4>2, <4>4, <4>5 DEF JoinsAt
    <3> QED  BY <1>1, <1>7, <1>8, <3>1, <3>2, <3>3, <3>4, <3>5, Elsewhere
  <2> QED  BY <2>1, <2>2
<1>16. Types'
  <2>1. \A l \in Key : map'[l] <= Len(states')
    <3>1. Len(states) \in Nat /\ Len(states') \in Nat /\ s \in 1 .. Len(states')
          /\ Len(states) <= Len(states')
      BY <1>2, <1>4 DEF Types, JoinsAt
    <3>2. \A l \in Key \ {k} : map'[l] <= Len(states) /\ map'[l] \in Nat
      BY <1>4, InMapFacts DEF JoinsAt
    <3>3. map'[k] = s
      BY <1>4 DEF JoinsAt
    <3> QED  BY <3>1, <3>2, <3>3
  <2>2. states' \in Seq(Record) /\ map' \in [Key -> Nat]
    BY <1>4 DEF JoinsAt
  <2> QED  BY <1>2, <1>5, <1>6, <1>7, <2>1, <2>2 DEF Types
<1>17. DOMAIN states \subseteq DOMAIN states' /\ s \in DOMAIN states'
  BY <1>4 DEF JoinsAt
<1>18. \A u \in Thread : ThreadInv(u)'
  <2>1. ThreadInv(t)'
    BY <1>2, <1>5, <1>6, <1>7, <1>17 DEF ThreadInv, Holding, Places
  <2>2. \A u \in Thread \ {t} : ThreadInv(u)'
    BY <1>8, <1>17, OthersThread
  <2> QED  BY <2>1, <2>2
<1>19. FlagInv' /\ FlagStays
  <2>1. \A u \in Thread : (pc'[u] # "idle" <=> pc[u] # "idle") /\ Call(u)' = Call(u)
    BY <1>2, <1>5, <1>6 DEF Call
  <2>2. InFlight' = InFlight
    BY <2>1 DEF InFlight
  <2> QED  BY <1>5, <2>2 DEF FlagInv, FlagStays, RInv
<1>20. (\A u \in Thread : \A j \in DOMAIN got'[u] : GotInv(u, j)') /\ ParticipantsAgree'
  BY <1>1, <1>5, <1>8, <1>11, <1>19, NothingGot
<1>21. ChecksHold'
  BY <1>5 DEF ChecksHold, RInv
<1> QED  BY <1>15, <1>16, <1>18, <1>19, <1>20, <1>21 DEF RInv
-----------------------------------------------------------------------------
(* The invariant, and what it gives.                                       *)

LEMMA InitRInv == Init => RInv
<1> SUFFICES ASSUME Init PROVE RInv
  OBVIOUS
<1>1. /\ calls \in Programs /\ step = [t \in Thread |-> 1] /\ pc = [t \in Thread |-> "idle"]
      /\ id = [t \in Thread |-> 0] /\ state = [t \in Thread |-> 0] /\ states = <<>>
      /\ map = [k \in Key |-> 0] /\ flag = 0 /\ got = [t \in Thread |-> <<>>]
      /\ process = "running"
  BY DEF Init, kPending
<1>2. Types
  <2>1. Len(states) = 0 /\ states \in Seq(Record)
    BY <1>1
  <2> QED  BY <1>1, <2>1 DEF Types, Places
<1>3. ASSUME NEW t \in Thread  PROVE ThreadInv(t)
  <2>1. Len(calls[t]) \in Nat
    BY <1>1, ProgramType
  <2>2. /\ pc[t] = "idle" /\ step[t] = 1 /\ state[t] = 0 /\ Len(got[t]) = 0
    BY <1>1
  <2> QED  BY <2>1, <2>2 DEF ThreadInv, Holding
<1>4. FlagInv
  <2>1. InFlight = {}
    BY <1>1 DEF InFlight
  <2>2. Cardinality({}) = 0
    BY FS_EmptySet
  <2> QED  BY <1>1, <2>1, <2>2 DEF FlagInv, kCompleted
<1>5. \A t \in Thread : state[t] = 0 /\ DOMAIN got[t] = {}
  BY <1>1
<1>6. ParticipantsAgree
  BY <1>5 DEF ParticipantsAgree
<1>7. ChecksHold
  BY <1>1 DEF ChecksHold
<1> QED  BY <1>2, <1>3, <1>4, <1>5, <1>6, <1>7 DEF RInv

LEMMA NextRInv == RInv /\ [Next]_vars => RInv'
<1> SUFFICES ASSUME RInv, [Next]_vars PROVE RInv'
  OBVIOUS
<1>1. CASE Next
  <2>1. PICK t \in Thread : Runs(t) \/ TimeOut(t)
    BY <1>1 DEF Next
  <2>2. CASE Calls(t)
    BY <2>2, CallsInv
  <2>3. CASE Alone(t)
    BY <2>3, AloneInv
  <2>4. CASE Join(t)
    BY <2>4, JoinInv
  <2>5. CASE Acknowledge(t)
    BY <2>5, AcknowledgeInv
  <2>6. CASE WriteValue(t)
    BY <2>6, WriteValueInv
  <2>7. CASE Publish(t)
    BY <2>7, PublishInv
  <2>8. CASE Complete(t)
    BY <2>8, CompleteInv, CompleteMap
  <2>9. CASE Invoke(t)
    BY <2>9, InvokeInv
  <2>10. CASE SetReady(t)
    BY <2>10, SetReadyInv
  <2>11. CASE Notify(t)
    BY <2>11, NotifyInv
  <2>12. CASE Await(t)
    BY <2>12, AwaitInv
  <2>13. CASE Return(t)
    BY <2>13, ReturnInv
  <2>14. CASE Leave(t)
    BY <2>14, LeaveInv
  <2>15. CASE TimeOut(t)
    BY <1>1, <2>15, TimeOutInv DEF Next
  <2> QED  BY <2>1, <2>2, <2>3, <2>4, <2>5, <2>6, <2>7, <2>8, <2>9, <2>10, <2>11, <2>12,
              <2>13, <2>14, <2>15 DEF Runs
<1>2. CASE UNCHANGED vars
  <2>1. /\ calls' = calls /\ step' = step /\ pc' = pc /\ id' = id /\ state' = state
        /\ states' = states /\ map' = map /\ flag' = flag /\ got' = got
        /\ process' = process
    BY <1>2 DEF vars
  <2>2. Types' /\ (\A t \in Thread : ThreadInv(t)')
    BY <2>1 DEF RInv, Types, ThreadInv, Call
  <2>3. FlagInv'
    BY <2>1 DEF RInv, FlagInv, InFlight, Call
  <2>4. \A t \in Thread : state'[t] # 0 => MeetingOf(t)'
    <3> SUFFICES ASSUME NEW t \in Thread, state'[t] # 0  PROVE MeetingOf(t)'
      OBVIOUS
    <3>1. MeetingOf(t)
      BY <2>1 DEF RInv
    <3> QED  BY <2>1, <3>1 DEF MeetingOf, Meeting, Here, Call, Members, Counters, InTheMap,
             Ids, Leader, Readiness, Proper, Acked, Written, Published, Leads, Over, Waits,
             Has, Got, Stage
  <2>5. \A t \in Thread : \A i \in DOMAIN got'[t] : GotInv(t, i)'
    BY <2>1 DEF RInv, GotInv, Proper, Acked, Stage
  <2>6. ParticipantsAgree' /\ ChecksHold'
    BY <2>1 DEF RInv, ParticipantsAgree, ChecksHold
  <2> QED  BY <2>2, <2>3, <2>4, <2>5, <2>6 DEF RInv
<1> QED  BY <1>1, <1>2

LEMMA Invariance == Spec => []RInv
BY InitRInv, NextRInv, PTL DEF Spec

\* The CHECKs of Rendezvous, of RendezvousMap and of RendezvousFlag hold in all
\* programs whose rounds have no more than num_threads calls: threads that are
\* already in the next round of a key never enter the state of this one.
THEOREM RendezvousChecks == Spec => []ChecksHold
<1>1. RInv => ChecksHold
  BY DEF RInv
<1> QED  BY <1>1, Invariance, PTL

\* All calls of a round that return get the same result, or all of them skip
\* the round because its flag was completed.
THEOREM RendezvousAgrees == Spec => []ParticipantsAgree
<1>1. RInv => ParticipantsAgree
  BY DEF RInv
<1> QED  BY <1>1, Invariance, PTL

\* The function of a rendezvous with a result has seen the values of exactly
\* the calls of its round.
THEOREM RendezvousSeesAll == Spec => []AllValuesSeen
<1>1. RInv => AllValuesSeen
  <2> SUFFICES ASSUME RInv, NEW t \in Thread, NEW i \in DOMAIN got[t],
                      got[t][i].status = "ok", calls[t][i].key \notin Barriers
               PROVE  got[t][i].values = Together(calls, t, i)
    BY DEF AllValuesSeen
  <2>1. GotInv(t, i)
    BY DEF RInv
  <2> QED  BY <2>1 DEF GotInv, Proper
<1> QED  BY <1>1, Invariance, PTL

\* A call that did not skip the round returns only after all calls of the round
\* have begun.
THEOREM RendezvousWaitsForAll == Spec => []NobodyLeavesEarly
<1>1. RInv => NobodyLeavesEarly
  <2> SUFFICES ASSUME RInv, NEW t \in Thread, NEW i \in DOMAIN got[t],
                      got[t][i].status # "skipped", NEW c \in Together(calls, t, i)
               PROVE  step[c[1]] > c[2] \/ (step[c[1]] = c[2] /\ pc[c[1]] # "idle")
    BY DEF NobodyLeavesEarly
  <2>1. Acked(c)
    BY DEF RInv, GotInv
  <2>2. c[1] \in Thread /\ c[2] \in Nat
    BY PastFacts, RoundCalls
  <2>3. step[c[1]] \in Nat
    BY <2>2, ThreadFacts
  <2> QED  BY <2>1, <2>2, <2>3 DEF Acked, Stage
<1> QED  BY <1>1, Invariance, PTL
=============================================================================
