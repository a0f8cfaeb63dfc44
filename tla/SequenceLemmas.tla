---------------------------- MODULE SequenceLemmas ----------------------------
(***************************************************************************)
(* What the proofs about the components need of sequences: the largest of  *)
(* their indices with some property, the types and places of elements that *)
(* stay, are added, replaced or taken; and of sequences of watch events,   *)
(* that a cache which applies them in order ends with the current objects. *)
(***************************************************************************)
EXTENDS SequenceTheorems, WellFoundedInduction, TLAPS

\* A set of sequence indices has a largest element.
LEMMA Largest ==
    ASSUME NEW n \in Nat, NEW T \in SUBSET (1 .. n), T # {}
    PROVE  \E x \in T : \A y \in T : y <= x
<1> DEFINE R == OpToRel(<, Nat)
           D == {n - x : x \in T}
<1>1. \A x \in T : x \in Nat /\ n - x \in Nat
  OBVIOUS
<1>2. D \subseteq Nat /\ D # {}
  BY <1>1
<1>3. IsWellFoundedOn(R, Nat)
  BY NatLessThanWellFounded
<1>4. \A x, y \in Nat : y < x => <<y, x>> \in R
  BY DEF OpToRel
<1> HIDE DEF R, D
<1>5. PICK d \in D : \A y \in D : ~(<<y, d>> \in R)
  BY <1>2, <1>3, WFMin
<1>6. PICK x \in T : d = n - x
  BY DEF D
<1>7. ASSUME NEW y \in T PROVE y <= x
  <2>1. n - y \in D /\ n - x \in D
    BY <1>5, <1>6 DEF D
  <2>2. ~(n - y < n - x)
    BY <2>1, <1>2, <1>4, <1>5, <1>6
  <2> QED
    BY <2>2, <1>1
<1> QED
  BY <1>7

\* An element of a sequence has the type of its elements, and one that is
\* added or replaced leaves the others alone.
LEMMA Elements ==
    ASSUME NEW S, NEW seq \in Seq(S)
    PROVE  /\ DOMAIN seq = 1 .. Len(seq)
           /\ Len(seq) \in Nat
           /\ \A i \in DOMAIN seq : seq[i] \in S
BY LenProperties

LEMMA Appended ==
    ASSUME NEW S, NEW seq \in Seq(S), NEW new \in S
    PROVE  /\ Append(seq, new) \in Seq(S)
           /\ Len(Append(seq, new)) = Len(seq) + 1
           /\ DOMAIN Append(seq, new) = DOMAIN seq \cup {Len(seq) + 1}
           /\ \A i \in DOMAIN seq : Append(seq, new)[i] = seq[i]
           /\ Append(seq, new)[Len(seq) + 1] = new
<1>1. Append(seq, new) \in Seq(S) /\ Len(Append(seq, new)) = Len(seq) + 1
  BY AppendProperties
<1>2. /\ DOMAIN seq = 1 .. Len(seq) /\ Len(seq) \in Nat
      /\ DOMAIN Append(seq, new) = 1 .. (Len(seq) + 1)
  BY <1>1, LenProperties
<1> QED
  BY <1>1, <1>2, AppendProperties

LEMMA Replaced ==
    ASSUME NEW S, NEW seq \in Seq(S), NEW i \in DOMAIN seq, NEW new \in S
    PROVE  /\ [seq EXCEPT ![i] = new] \in Seq(S)
           /\ Len([seq EXCEPT ![i] = new]) = Len(seq)
           /\ DOMAIN [seq EXCEPT ![i] = new] = DOMAIN seq
           /\ [seq EXCEPT ![i] = new][i] = new
           /\ \A k \in DOMAIN seq \ {i} : [seq EXCEPT ![i] = new][k] = seq[k]
<1>1. i \in 1 .. Len(seq)
  BY LenProperties
<1> QED
  BY <1>1, ExceptSeq

LEMMA Taken ==
    ASSUME NEW S, NEW seq \in Seq(S), seq # <<>>
    PROVE  /\ Head(seq) = seq[1] /\ 1 \in 1 .. Len(seq)
           /\ Tail(seq) \in Seq(S) /\ Len(Tail(seq)) = Len(seq) - 1
           /\ \A i \in 1 .. Len(Tail(seq)) : i + 1 \in 1 .. Len(seq) /\ Tail(seq)[i] = seq[i + 1]
<1>1. Len(seq) \in Nat \ {0}
  BY EmptySeq
<1>2. /\ Tail(seq) \in Seq(S) /\ Len(Tail(seq)) = Len(seq) - 1
      /\ \A i \in 1 .. Len(Tail(seq)) : Tail(seq)[i] = seq[i + 1]
  BY HeadTailProperties
<1>3. Head(seq) = seq[1]
  BY <1>1
<1> QED
  BY <1>1, <1>2, <1>3

----------------------------------------------------------------------------
(* Watch events.                                                           *)

\* Of every name the last event brings the object as it is in the store; of a
\* name without events the cache has it already.
Synced(names, store, cache, watch) ==
    /\ \A x \in names : (\A i \in 1 .. Len(watch) : watch[i].name # x) => cache[x] = store[x]
    /\ \A i \in 1 .. Len(watch) :
        (\A j \in 1 .. Len(watch) : i < j => watch[j].name # watch[i].name)
            => watch[i].object = store[watch[i].name]

LEMMA SyncedWhenEmpty ==
    ASSUME NEW names, NEW store
    PROVE  Synced(names, store, store, <<>>)
BY EmptySeq DEF Synced

LEMMA SyncedWhenWritten ==
    ASSUME NEW names, NEW objects, NEW store \in [names -> objects], NEW cache,
           NEW watch \in Seq([name: names, object: objects]),
           Synced(names, store, cache, watch), NEW x \in names, NEW new \in objects
    PROVE  Synced(names, [store EXCEPT ![x] = new], cache, Append(watch, [name |-> x, object |-> new]))
<1> DEFINE n == Len(watch)
           later == Append(watch, [name |-> x, object |-> new])
           after == [store EXCEPT ![x] = new]
           event == [name |-> x, object |-> new]
<1>1. event \in [name: names, object: objects] /\ event.name = x /\ event.object = new
  OBVIOUS
<1> HIDE DEF event
<1>2. /\ Len(later) = n + 1 /\ n \in Nat /\ \A i \in 1 .. n : later[i] = watch[i]
      /\ later[n + 1].name = x /\ later[n + 1].object = new
      /\ \A i \in 1 .. n : watch[i].name \in names
  <2>1. DOMAIN watch = 1 .. n /\ n \in Nat
        /\ \A i \in DOMAIN watch : watch[i] \in [name: names, object: objects]
    BY Elements
  <2>2. later = Append(watch, event)
    BY DEF event
  <2> HIDE DEF later
  <2>3. /\ Len(later) = n + 1 /\ later[n + 1] = event
        /\ \A i \in DOMAIN watch : later[i] = watch[i]
    BY <1>1, <2>2, Appended
  <2> QED
    BY <1>1, <2>1, <2>3
<1>3. after[x] = new /\ \A y \in names \ {x} : after[y] = store[y]
  OBVIOUS
<1> HIDE DEF n, later, after
<1>4. /\ \A i \in 1 .. Len(later) : i \in 1 .. n \/ i = n + 1
      /\ n + 1 \in 1 .. Len(later) /\ 1 .. n \subseteq 1 .. Len(later)
      /\ \A i \in 1 .. n : i < n + 1
  BY <1>2
<1>5. ASSUME NEW y \in names, \A i \in 1 .. Len(later) : later[i].name # y
      PROVE  cache[y] = after[y]
  <2>1. y # x /\ \A i \in 1 .. n : watch[i].name # y
    BY <1>2, <1>4, <1>5
  <2> QED
    BY <1>3, <2>1 DEF Synced, n
<1>6. ASSUME NEW i \in 1 .. Len(later),
             \A j \in 1 .. Len(later) : i < j => later[j].name # later[i].name
      PROVE  later[i].object = after[later[i].name]
  <2>1. CASE i = n + 1
    BY <1>2, <1>3, <2>1
  <2>2. CASE i \in 1 .. n
    <3>1. watch[i].name # x /\ \A j \in 1 .. n : i < j => watch[j].name # watch[i].name
      BY <1>2, <1>4, <1>6, <2>2
    <3>2. watch[i].object = store[watch[i].name]
      BY <2>2, <3>1 DEF Synced, n
    <3> QED
      BY <1>2, <1>3, <2>2, <3>1, <3>2
  <2> QED
    BY <1>4, <2>1, <2>2
<1> QED
  BY <1>5, <1>6 DEF Synced, later, after

LEMMA SyncedWhenDelivered ==
    ASSUME NEW names, NEW objects, NEW store, NEW cache \in [names -> objects],
           NEW watch \in Seq([name: names, object: objects]), watch # <<>>,
           Synced(names, store, cache, watch)
    PROVE  Synced(names, store, [cache EXCEPT ![Head(watch).name] = Head(watch).object], Tail(watch))
<1> DEFINE rest == Tail(watch)
           n == Len(rest)
           after == [cache EXCEPT ![Head(watch).name] = Head(watch).object]
<1>1. /\ Head(watch) = watch[1] /\ 1 \in 1 .. Len(watch) /\ Len(watch) \in Nat
      /\ n = Len(watch) - 1 /\ watch[1].name \in names
      /\ \A i \in 1 .. n : rest[i] = watch[i + 1] /\ i + 1 \in 1 .. Len(watch)
  <2>1. DOMAIN watch = 1 .. Len(watch) /\ Len(watch) \in Nat
        /\ \A i \in DOMAIN watch : watch[i] \in [name: names, object: objects]
    BY Elements
  <2>2. /\ Head(watch) = watch[1] /\ 1 \in 1 .. Len(watch) /\ n = Len(watch) - 1
        /\ \A i \in 1 .. n : rest[i] = watch[i + 1] /\ i + 1 \in 1 .. Len(watch)
    BY Taken
  <2> QED
    BY <2>1, <2>2
<1>2. after[watch[1].name] = watch[1].object /\ \A y \in names \ {watch[1].name} : after[y] = cache[y]
  BY <1>1
<1>3. n \in Nat /\ \A i \in 1 .. Len(watch) : i = 1 \/ (i - 1 \in 1 .. n /\ (i - 1) + 1 = i)
  BY <1>1
<1> HIDE DEF n, rest, after
<1>4. ASSUME NEW i \in 1 .. Len(watch), i # 1
      PROVE  i - 1 \in 1 .. n /\ rest[i - 1] = watch[i]
  <2>1. i - 1 \in 1 .. n /\ (i - 1) + 1 = i
    BY <1>3, <1>4
  <2>2. rest[i - 1] = watch[(i - 1) + 1]
    BY <1>1, <2>1
  <2> QED
    BY <2>1, <2>2
<1>5. ASSUME NEW y \in names, \A i \in 1 .. n : rest[i].name # y
      PROVE  after[y] = store[y]
  <2>1. \A i \in 1 .. Len(watch) : i # 1 => watch[i].name # y
    BY <1>4, <1>5
  <2>2. CASE watch[1].name = y
    <3>1. \A j \in 1 .. Len(watch) : 1 < j => watch[j].name # watch[1].name
      BY <2>1, <2>2
    <3> QED
      BY <1>1, <1>2, <2>2, <3>1 DEF Synced
  <2>3. CASE watch[1].name # y
    BY <1>2, <2>1, <2>3 DEF Synced
  <2> QED
    BY <2>2, <2>3
<1>6. ASSUME NEW i \in 1 .. n,
             \A j \in 1 .. n : i < j => rest[j].name # rest[i].name
      PROVE  rest[i].object = store[rest[i].name]
  <2>1. i + 1 \in 1 .. Len(watch) /\ rest[i] = watch[i + 1]
    BY <1>1
  <2>2. ASSUME NEW j \in 1 .. Len(watch), i + 1 < j
        PROVE  watch[j].name # watch[i + 1].name
    <3>1. j # 1 /\ i < j - 1
      BY <1>3, <2>1, <2>2
    <3>2. j - 1 \in 1 .. n /\ rest[j - 1] = watch[j]
      BY <1>4, <3>1
    <3> QED
      BY <1>6, <2>1, <3>1, <3>2
  <2>3. watch[i + 1].object = store[watch[i + 1].name]
    BY <2>1, <2>2 DEF Synced
  <2> QED
    BY <2>1, <2>3
<1> QED
  BY <1>5, <1>6 DEF Synced, n, rest, after

===============================================================================
