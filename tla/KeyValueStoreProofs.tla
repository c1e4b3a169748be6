------------------------ MODULE KeyValueStoreProofs ------------------------
(* Proofs about KeyValueStore, for every set of callers, keys and values. *)
EXTENDS KeyValueStore, TLAPS

LOCAL INSTANCE SequencesExt

\* A deletion under way has removed its key, unless somebody has written it since.
Deletions ==
    \A c \in Caller : deleting[c] # NoKey => data[deleting[c]] = NoValue \/ deleting[c] \in written[c]

IInv == TypeOK /\ NoLostWakeup /\ Deletions

LEMMA NormalizedKeys == \A p \in Path : NormalizeKey(p) \in Key
  BY DEF Key

LEMMA InitIInv == Init => IInv
  <1> SUFFICES ASSUME Init PROVE IInv
    OBVIOUS
  <1>1. TypeOK
    BY DEF Init, TypeOK
  <1>2. NoLostWakeup
    BY DEF Init, NoLostWakeup
  <1>3. Deletions
    BY DEF Init, Deletions
  <1> QED BY <1>1, <1>2, <1>3 DEF IInv

\* Storing a value and calling those who wait for it, in one critical section.
LEMMA StoreKeeps ==
    ASSUME IInv, NEW k \in Key, NEW v \in Value, NEW answers, Store(k, v, answers)
    PROVE  IInv'
  <1>1. TypeOK'
    BY DEF IInv, TypeOK, Store, Notify
  <1>2. NoLostWakeup'
    BY DEF IInv, TypeOK, Store, Notify, NoLostWakeup, Exists
  <1>3. Deletions'
    BY DEF IInv, TypeOK, Store, Deletions
  <1> QED BY <1>1, <1>2, <1>3 DEF IInv

LEMMA OnlyKeeps ==
    ASSUME IInv, NEW answers, Only(answers)
    PROVE  IInv'
  BY DEF IInv, TypeOK, NoLostWakeup, Exists, Deletions, Only

LEMMA NextIInv == IInv /\ [Next]_vars => IInv'
  <1> SUFFICES ASSUME IInv, [Next]_vars PROVE IInv'
    OBVIOUS
  <1>1. ASSUME NEW c \in Caller, NEW p \in Path, NEW v \in PutValues,
               NEW allow_overwrite \in BOOLEAN, Put(c, p, v, allow_overwrite)
        PROVE  IInv'
    <2>1. NormalizeKey(p) \in Key /\ v \in Value
      BY NormalizedKeys, ValueAssumption DEF Value
    <2> QED BY <1>1, <2>1, StoreKeeps, OnlyKeeps DEF Put
  <1>2. ASSUME NEW c \in Caller, NEW p \in Path, NEW n \in Increments, IncrementBy(c, p, n)
        PROVE  IInv'
    <2> DEFINE k == NormalizeKey(p)
               old == IF Exists(k) THEN data[k] ELSE 0
    <2>1. k \in Key
      BY NormalizedKeys
    <2>2. CASE Parses(old) /\ Store(k, old + n, {Answer(c, "incremented", old + n)})
      <3>1. old + n \in Value
        <4>1. old \in Int
          BY <2>2, ValueAssumption DEF Parses
        <4> HIDE DEF old
        <4> QED BY <4>1, ValueAssumption DEF Value
      <3> HIDE DEF k, old
      <3> QED BY <2>1, <2>2, <3>1, StoreKeeps
    <2>3. CASE Only({Answer(c, "not a number", old)})
      BY <2>3, OnlyKeeps
    <2> QED BY <1>2, <2>2, <2>3 DEF IncrementBy
  <1>3. ASSUME NEW c \in Caller, NEW p \in Path, Get(c, p)
        PROVE  IInv'
    BY <1>3, OnlyKeeps DEF Get
  <1>4. ASSUME NEW c \in Caller, NEW p \in Path, GetPrefix(c, p)
        PROVE  IInv'
    BY <1>4, OnlyKeeps DEF GetPrefix
  <1>5. ASSUME NEW c \in Caller, NEW p \in Path, Delete(c, p)
        PROVE  IInv'
    <2>1. TypeOK' /\ NoLostWakeup'
      BY <1>5, NormalizedKeys DEF Delete, IInv, TypeOK, NoLostWakeup, Exists
    <2>2. Deletions'
      BY <1>5, NormalizedKeys DEF Delete, IInv, TypeOK, Deletions
    <2> QED BY <2>1, <2>2 DEF IInv
  <1>6. ASSUME NEW c \in Caller, NEW p \in Path, AddCallbackForKey(c, p)
        PROVE  IInv'
    <2> DEFINE k == NormalizeKey(p)
    <2>1. k \in Key
      BY NormalizedKeys
    <2>2. CASE Only({Answer(c, "value", data[k])})
      BY <2>2, OnlyKeeps
    <2>3. CASE /\ ~Exists(k) /\ callbacks' = [callbacks EXCEPT ![k] = @ \cup {c}]
               /\ UNCHANGED <<data, deleting, destroyed, written>>
      <3> HIDE DEF k
      <3> QED BY <2>1, <2>3 DEF IInv, TypeOK, NoLostWakeup, Exists, Deletions
    <2> QED BY <1>6, <2>2, <2>3 DEF AddCallbackForKey
  <1>7. ASSUME NEW c \in Caller, DeletePrefix(c)
        PROVE  IInv'
    <2>1. TypeOK' /\ NoLostWakeup'
      BY <1>7 DEF DeletePrefix, IInv, TypeOK, NoLostWakeup, Exists
    <2>2. Deletions'
      BY <1>7 DEF DeletePrefix, IInv, TypeOK, Deletions
    <2> QED BY <2>1, <2>2 DEF IInv
  <1>8. CASE Destroy
    BY <1>8 DEF Destroy, IInv, TypeOK, NoLostWakeup, Exists, Deletions
  <1>9. CASE UNCHANGED vars
    BY <1>9 DEF vars, IInv, TypeOK, NoLostWakeup, Exists, Deletions
  <1> QED BY <1>1, <1>2, <1>3, <1>4, <1>5, <1>6, <1>7, <1>8, <1>9 DEF Next

LEMMA Invariance == Spec => []IInv
  BY InitIInv, NextIInv, PTL DEF Spec

\* No interleaving of insertions, increments, deletions and reads leaves a
\* caller of GetKeyValueAsync waiting for a key that is in the store.
THEOREM WakeupCorrect == Spec => []NoLostWakeup
  <1>1. IInv => NoLostWakeup
    BY DEF IInv
  <1> QED BY <1>1, Invariance, PTL

\* Whatever ends the wait of a GetKeyValueAsync call answers it, with the value
\* that the key has at that moment or with the destructor's cancellation.
THEOREM WaiterCorrect == Spec => WaiterGetsCurrentValue
  <1> DEFINE Ends(k, c) == \/ data'[k] # NoValue /\ Answer(c, "value", data'[k]) \in replies'
                           \/ destroyed' /\ Answer(c, "cancelled", NoValue) \in replies'
             A == \A k \in Key : \A c \in callbacks[k] \ callbacks'[k] : Ends(k, c)
  <1>1. ASSUME IInv, Next, NEW k \in Key, NEW c \in callbacks[k], c \notin callbacks'[k]
        PROVE  Ends(k, c)
    <2>1. ASSUME NEW l \in Key, NEW v \in Value, NEW answers, Store(l, v, answers)
          PROVE  Ends(k, c)
      <3>1. l = k
        BY <1>1, <2>1 DEF Store, Notify, IInv, TypeOK
      <3>2. Answer(c, "value", v) \in replies'
        BY <1>1, <2>1, <3>1 DEF Store, Notified
      <3>3. data'[k] = v /\ v # NoValue
        BY <1>1, <2>1, <3>1, ValueAssumption DEF Store, IInv, TypeOK, Value
      <3> QED BY <3>2, <3>3
    <2>2. ASSUME NEW answers, Only(answers) PROVE Ends(k, c)
      BY <1>1, <2>2 DEF Only
    <2>3. ASSUME NEW a \in Caller, NEW p \in Path, NEW v \in PutValues,
                 NEW allow_overwrite \in BOOLEAN, Put(a, p, v, allow_overwrite)
          PROVE  Ends(k, c)
      <3>1. NormalizeKey(p) \in Key /\ v \in Value
        BY NormalizedKeys, ValueAssumption DEF Value
      <3> HIDE DEF Ends
      <3> QED BY <2>1, <2>2, <2>3, <3>1 DEF Put
    <2>4. ASSUME NEW a \in Caller, NEW p \in Path, NEW n \in Increments, IncrementBy(a, p, n)
          PROVE  Ends(k, c)
      <3> DEFINE l == NormalizeKey(p)
                 old == IF Exists(l) THEN data[l] ELSE 0
      <3> HIDE DEF Ends
      <3>1. l \in Key
        BY NormalizedKeys
      <3>2. CASE Parses(old) /\ Store(l, old + n, {Answer(a, "incremented", old + n)})
        <4>1. old + n \in Value
          <5>1. old \in Int
            BY <3>2, ValueAssumption DEF Parses
          <5> HIDE DEF old
          <5> QED BY <5>1, ValueAssumption DEF Value
        <4> HIDE DEF l, old
        <4> QED BY <2>1, <3>1, <3>2, <4>1
      <3>3. CASE Only({Answer(a, "not a number", old)})
        BY <2>2, <3>3
      <3> QED BY <2>4, <3>2, <3>3 DEF IncrementBy
    <2>5. CASE \E a \in Caller, p \in Path : Get(a, p) \/ GetPrefix(a, p)
      <3> HIDE DEF Ends
      <3> QED BY <2>2, <2>5 DEF Get, GetPrefix
    <2>6. CASE \E a \in Caller, p \in Path : Delete(a, p) \/ AddCallbackForKey(a, p)
      <3>1. callbacks[k] \subseteq callbacks'[k]
        BY <1>1, <2>6 DEF Delete, AddCallbackForKey, Only, IInv, TypeOK
      <3> QED BY <1>1, <3>1
    <2>7. CASE \E a \in Caller : DeletePrefix(a)
      BY <1>1, <2>7 DEF DeletePrefix
    <2>8. CASE Destroy
      BY <1>1, <2>8 DEF Destroy, DestructorAnswers
    <2> HIDE DEF Ends
    <2> QED BY <1>1, <2>3, <2>4, <2>5, <2>6, <2>7, <2>8 DEF Next
  <1>2. IInv /\ [Next]_vars => [A]_vars
    BY <1>1
  <1>3. Spec => [][A]_vars
    BY <1>2, Invariance, PTL DEF Spec
  <1> QED BY <1>3 DEF WaiterGetsCurrentValue

\* DeletePrefix finishes a deletion: a key that is left at or under the one that
\* is deleted is that key itself, and Deletions says who has written it.
LEMMA PrefixDeleted ==
    ASSUME IInv, NEW c \in Caller, deleting[c] \notin {NoKey, << >>}, DeletePrefix(c),
           NEW k \in Key, data'[k] # NoValue, IsPrefix(deleting[c], k)
    PROVE  k \in written[c]
  <1>1. ~Under(k, deleting[c]) /\ data'[k] = data[k]
    BY DEF DeletePrefix
  <1>2. k = deleting[c]
    BY <1>1 DEF Under, IsStrictPrefix
  <1> QED BY <1>1, <1>2 DEF IInv, Deletions

\* DeleteKeyValue takes the store's lock twice, and any other requests run in
\* between: when it returns, whatever exists at or under its key has been
\* written since it began.
THEOREM DeletionCorrect == Spec => DeletionIsComplete
  <1> DEFINE A == \A c \in Caller : deleting[c] \notin {NoKey, << >>} /\ deleting'[c] = NoKey =>
                    \A k \in Key : data'[k] # NoValue /\ IsPrefix(deleting[c], k)
                                     => k \in written[c]
  <1>1. ASSUME IInv, Next, NEW c \in Caller, deleting[c] \notin {NoKey, << >>},
               deleting'[c] = NoKey
        PROVE  DeletePrefix(c)
    <2>1. deleting \in [Caller -> Key \cup {NoKey}] /\ deleting' # deleting
      BY <1>1 DEF IInv, TypeOK
    <2>2. ASSUME NEW a \in Caller, NEW p \in Path, Delete(a, p) PROVE FALSE
      <3>1. a # c
        BY <1>1, <2>2 DEF Delete, Idle
      <3> QED BY <1>1, <2>1, <2>2, <3>1 DEF Delete
    <2>3. ASSUME NEW a \in Caller, DeletePrefix(a) PROVE a = c
      BY <1>1, <2>1, <2>3 DEF DeletePrefix
    <2> QED BY <1>1, <2>1, <2>2, <2>3
            DEF Next, Put, IncrementBy, Get, GetPrefix, AddCallbackForKey, Destroy, Store, Only
  <1>2. IInv /\ [Next]_vars => [A]_vars
    BY <1>1, PrefixDeleted
  <1>3. Spec => [][A]_vars
    BY <1>2, Invariance, PTL DEF Spec
  <1> QED BY <1>3 DEF DeletionIsComplete

\* The store's maps keep their types: values are text or numbers, and whatever
\* IncrementBy writes back is a number again.
THEOREM StoreTypeCorrect == Spec => []TypeOK
  <1>1. IInv => TypeOK
    BY DEF IInv
  <1> QED BY <1>1, Invariance, PTL
=============================================================================
