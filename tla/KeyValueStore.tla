--------------------------- MODULE KeyValueStore ---------------------------
(***************************************************************************)
(* The coordination service's key-value store                              *)
(* (xla/pjrt/distributed/coordination/key_value_store.{h,cc}) together     *)
(* with the service methods that call it (coordination_service.cc).  These *)
(* methods do not take the service's lock: the requests of different       *)
(* callers interleave, each method of the store is one step under mu_, and *)
(* DeleteKeyValue is two.                                                  *)
(*                                                                         *)
(* A key is a path: the sequence of the names between its slashes.  A      *)
(* value is a number or some text that is not a number.                    *)
(***************************************************************************)
EXTENDS Integers, Sequences

LOCAL INSTANCE SequencesExt

CONSTANTS
    Caller,         \* requests in flight
    Path,           \* keys as callers spell them: "" where slashes are doubled
    Text,           \* values that do not parse as a number
    PutValues,      \* the values that callers insert
    Increments,     \* the increments that callers pass
    MinInt, MaxInt, \* the range of the int that IncrementBy parses into
    NoValue         \* the key is not in data_

ASSUME ValueAssumption ==
    /\ Text \cap Int = {} /\ NoValue \notin Text \cup Int
    /\ PutValues \subseteq Text \cup Int
    /\ Increments \subseteq Int
    /\ MinInt \in Int /\ MaxInt \in Int
ASSUME PathAssumption == \A p \in Path : p \in Seq(STRING)

\* NormalizeKey: no leading, trailing or repeated slashes.
IsName(n) == n # ""
NormalizeKey(p) == SelectSeq(p, IsName)
Key == {NormalizeKey(p) : p \in Path}
Value == Text \cup Int

VARIABLES
    data,       \* data_
    callbacks,  \* callbacks_: the callers waiting for a key
    deleting,   \* callers between the two steps of DeleteKeyValue, with their key
    replies,    \* what the last step answered, and to whom
    destroyed,  \* the destructor has run
    written     \* auxiliary: the keys written while a deletion is under way
vars == <<data, callbacks, deleting, replies, destroyed, written>>

NoKey == <<"">>     \* not a normalized key

TypeOK ==
    /\ data \in [Key -> Value \cup {NoValue}]
    /\ callbacks \in [Key -> SUBSET Caller]
    /\ deleting \in [Caller -> Key \cup {NoKey}]
    /\ destroyed \in BOOLEAN
    /\ written \in [Caller -> SUBSET Key]

Init ==
    /\ data = [k \in Key |-> NoValue]
    /\ callbacks = [k \in Key |-> {}]
    /\ deleting = [c \in Caller |-> NoKey]
    /\ replies = {}
    /\ destroyed = FALSE
    /\ written = [c \in Caller |-> {}]

-----------------------------------------------------------------------------

Answer(c, what, v) == [to |-> c, what |-> what, value |-> v]

Idle(c) == ~destroyed /\ deleting[c] = NoKey /\ \A k \in Key : c \notin callbacks[k]

Exists(k) == data[k] # NoValue

\* The keys that start with the key of directory dir and a slash.  No
\* normalized key starts with a slash, so that nothing is in the root.
UnderMutant(k, dir) == IsPrefix(dir, k) /\ Len(k) = Len(dir) + 1
Under(k, dir) == dir # << >> /\ IsStrictPrefix(dir, k)

\* NotifyCallbacksForKey: everyone who waits for k is called with v.
NotifyMutant(k) == callbacks
Notify(k) == [callbacks EXCEPT ![k] = {}]
NotifiedMutant(k, v) == {Answer(c, "value", data[k]) : c \in callbacks[k]}
Notified(k, v) == {Answer(c, "value", v) : c \in callbacks[k]}
Store(k, v, answers) ==
    /\ data' = [data EXCEPT ![k] = v]
    /\ callbacks' = Notify(k)
    /\ replies' = Notified(k, v) \cup answers
    /\ written' = [c \in Caller |-> IF deleting[c] = NoKey THEN {} ELSE written[c] \cup {k}]
    /\ UNCHANGED <<deleting, destroyed>>

Only(answers) == replies' = answers /\ UNCHANGED <<data, callbacks, deleting, destroyed, written>>

\* InsertKeyValue
Put(c, p, v, allow_overwrite) ==
    LET k == NormalizeKey(p)
    IN  /\ Idle(c)
        /\ \/ /\ allow_overwrite \/ ~Exists(k)
              /\ Store(k, v, {Answer(c, "ok", v)})
           \/ /\ ~allow_overwrite /\ Exists(k)
              /\ Only({Answer(c, "exists", NoValue)})

\* TryGetKeyValue
Get(c, p) ==
    /\ Idle(c)
    /\ Only({Answer(c, IF Exists(NormalizeKey(p)) THEN "value" ELSE "missing",
                    data[NormalizeKey(p)])})

\* IncrementKeyValue: the text is parsed into an int, the sum is an int64_t.
Parses(v) == v \in MinInt .. MaxInt
IncrementBy(c, p, n) ==
    LET k == NormalizeKey(p)
        old == IF Exists(k) THEN data[k] ELSE 0
    IN  /\ Idle(c)
        /\ \/ Parses(old) /\ Store(k, old + n, {Answer(c, "incremented", old + n)})
           \/ ~Parses(old) /\ Only({Answer(c, "not a number", old)})

\* GetKeyValueDir
GetPrefix(c, p) ==
    /\ Idle(c)
    /\ Only({Answer(c, "entries", {k \in Key : Exists(k) /\ Under(k, NormalizeKey(p))})})

\* DeleteKeyValue: first the key, then, in another critical section, the keys
\* under it.
DeleteMutant(c, p) ==
    /\ Idle(c)
    /\ data' = [data EXCEPT ![NormalizeKey(p)] = NoValue]
    /\ deleting' = [deleting EXCEPT ![c] = p]
    /\ replies' = {}
    /\ UNCHANGED <<callbacks, destroyed, written>>
Delete(c, p) ==
    /\ Idle(c)
    /\ data' = [data EXCEPT ![NormalizeKey(p)] = NoValue]
    /\ deleting' = [deleting EXCEPT ![c] = NormalizeKey(p)]
    /\ replies' = {}
    /\ UNCHANGED <<callbacks, destroyed, written>>

DeletePrefix(c) ==
    /\ deleting[c] # NoKey
    /\ data' = [k \in Key |-> IF Under(k, deleting[c]) THEN NoValue ELSE data[k]]
    /\ deleting' = [deleting EXCEPT ![c] = NoKey]
    /\ written' = [written EXCEPT ![c] = {}]
    /\ replies' = {Answer(c, "deleted", deleting[c])}
    /\ UNCHANGED <<callbacks, destroyed>>

\* GetKeyValueAsync
AddCallbackForKey(c, p) ==
    LET k == NormalizeKey(p)
    IN  /\ Idle(c)
        /\ \/ Exists(k) /\ Only({Answer(c, "value", data[k])})
           \/ /\ ~Exists(k)
              /\ callbacks' = [callbacks EXCEPT ![k] = @ \cup {c}]
              /\ replies' = {}
              /\ UNCHANGED <<data, deleting, destroyed, written>>

\* ~KeyValueStore, once no request is running
DestructorAnswers ==
    UNION {{Answer(c, "cancelled", NoValue) : c \in callbacks[k]} : k \in Key}
Destroy ==
    /\ ~destroyed /\ \A c \in Caller : deleting[c] = NoKey
    /\ destroyed' = TRUE
    /\ replies' = DestructorAnswers
    /\ callbacks' = [k \in Key |-> {}]
    /\ UNCHANGED <<data, deleting, written>>

Next ==
    \/ \E c \in Caller, p \in Path :
         \/ \E v \in PutValues, allow_overwrite \in BOOLEAN : Put(c, p, v, allow_overwrite)
         \/ \E n \in Increments : IncrementBy(c, p, n)
         \/ Get(c, p) \/ GetPrefix(c, p) \/ Delete(c, p) \/ AddCallbackForKey(c, p)
    \/ \E c \in Caller : DeletePrefix(c)
    \/ Destroy

Spec == Init /\ [][Next]_vars

-----------------------------------------------------------------------------
(* Properties *)

\* "Adds a callback that is called when the provided key exists in the map": no
\* caller waits for a key that is there, whichever of Put, IncrementBy, Delete
\* and AddCallbackForKey came first.
NoLostWakeup == \A k \in Key : callbacks[k] # {} => ~Exists(k)

\* A waiting GetKeyValueAsync ends with the value that the key has then, or
\* cancelled by the destructor.
WaiterGetsCurrentValue ==
    [][\A k \in Key : \A c \in callbacks[k] \ callbacks'[k] :
          \/ data'[k] # NoValue /\ Answer(c, "value", data'[k]) \in replies'
          \/ destroyed' /\ Answer(c, "cancelled", NoValue) \in replies']_vars

\* "If key is a directory, recursively clean up all key-values under the
\* directory": when DeleteKeyValue returns, what is left at or under the key has
\* been written since the call began, although others run between its two
\* steps.  The root is no directory to the code: see Under.
DeletionIsComplete ==
    [][\A c \in Caller : deleting[c] \notin {NoKey, << >>} /\ deleting'[c] = NoKey =>
         \A k \in Key : data'[k] # NoValue /\ IsPrefix(deleting[c], k)
                           => k \in written[c]]_vars

-----------------------------------------------------------------------------
(* What comments in the source say and the code does not do *)

\* IncrementBy: "The value string is interpreted as a big-endian 64-bit
\* integer"; CoordinationServiceAgent::IncrementKeyValue fails if "the key is
\* not convertible to an int".  A number is never refused.
NumbersAreIncremented ==
    [][\A r \in replies' : r.what = "not a number" => r.value \in Text]_vars
=============================================================================
