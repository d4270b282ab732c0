------------------------- MODULE BoundedStoreProofs -------------------------
(***************************************************************************)
(* What the operations of BoundedStore preserve, for every bound, every    *)
(* key and every entry.                                                    *)
(***************************************************************************)
EXTENDS BoundedStore, SequenceTheorems, FiniteSetTheorems, TLAPS

\* An entry looked up by a key of the store is an entry with that key.
LEMMA EntryOfProperties ==
    ASSUME NEW store, NEW k \in KeysOf(store)
    PROVE  EntryOf(store, k) \in Entries(store) /\ EntryOf(store, k).key = k
BY DEF KeysOf, EntryOf

\* A key's position holds an entry with that key.
LEMMA PositionOfProperties ==
    ASSUME NEW store, NEW k \in KeysOf(store)
    PROVE  PositionOf(store, k) \in DOMAIN store /\ store[PositionOf(store, k)].key = k
<1>1. \E i \in DOMAIN store : store[i].key = k
    BY DEF KeysOf, Entries
<1> QED BY <1>1 DEF PositionOf

\* The entries of a store are elements of the set it is a store over.
LEMMA EntriesInSet ==
    ASSUME NEW E, NEW store \in Seq(E)
    PROVE  Entries(store) \subseteq E
BY LenProperties DEF Entries

\* Without closes the gap: what is left is a sequence, one entry shorter, of
\* the other entries in their order.
LEMMA WithoutShape ==
    ASSUME NEW E, NEW store \in Seq(E), NEW k \in KeysOf(store)
    PROVE  /\ PositionOf(store, k) \in 1..Len(store)
           /\ Without(store, k) \in Seq(E)
           /\ Len(Without(store, k)) = Len(store) - 1
           /\ \A j \in 1..(Len(store) - 1) :
                 Without(store, k)[j] =
                     store[IF j < PositionOf(store, k) THEN j ELSE j + 1]
<1>1. Len(store) \in Nat /\ DOMAIN store = 1..Len(store)
    BY LenProperties
<1>2. PositionOf(store, k) \in 1..Len(store)
    BY PositionOfProperties, <1>1
<1>3. PICK i \in 1..Len(store) : i = PositionOf(store, k)
    BY <1>2
<1>4. \A j \in 1..(Len(store) - 1) : store[IF j < i THEN j ELSE j + 1] \in E
    BY <1>1, ElementOfSeq
<1>5. Without(store, k) = [j \in 1..(Len(store) - 1) |-> store[IF j < i THEN j ELSE j + 1]]
    BY <1>3 DEF Without
<1>6. Without(store, k) \in [1..(Len(store) - 1) -> E]
    BY <1>4, <1>5
<1>7. Len(store) - 1 \in Nat
    BY <1>1
<1>8. Without(store, k) \in Seq(E)
    BY <1>6, <1>7, SeqDef
<1>9. Len(Without(store, k)) = Len(store) - 1
    BY <1>6, <1>7, <1>8, LenProperties
<1> QED BY <1>2, <1>3, <1>5, <1>8, <1>9

\* Removing a key leaves a store without it, and no other entry changes.
LEMMA WithoutStore ==
    ASSUME NEW E, NEW store, IsStore(store, E), NEW k \in KeysOf(store)
    PROVE  /\ IsStore(Without(store, k), E)
           /\ Len(Without(store, k)) < MaxEntries
           /\ Entries(Without(store, k)) = {e \in Entries(store) : e.key # k}
<1> DEFINE w == Without(store, k)
<1>1. store \in Seq(E) /\ Len(store) <= MaxEntries
    BY DEF IsStore
<1>2. \A i, j \in DOMAIN store : store[i].key = store[j].key => i = j
    BY DEF IsStore
<1>3. Len(store) \in Nat /\ DOMAIN store = 1..Len(store)
    BY <1>1, LenProperties
<1>4. PICK p \in 1..Len(store) : p = PositionOf(store, k) /\ store[p].key = k
    BY <1>1, <1>3, PositionOfProperties
<1>5. /\ w \in Seq(E) /\ Len(w) = Len(store) - 1
      /\ \A j \in 1..(Len(store) - 1) : w[j] = store[IF j < p THEN j ELSE j + 1]
    BY <1>1, <1>4, WithoutShape
<1>6. DOMAIN w = 1..(Len(store) - 1)
    BY <1>5, LenProperties
<1> HIDE DEF w
<1>7. Len(w) < MaxEntries /\ Len(w) <= MaxEntries
    BY <1>1, <1>3, <1>5, MaxEntriesAssumption
<1>8. ASSUME NEW i \in DOMAIN w, NEW j \in DOMAIN w, w[i].key = w[j].key
      PROVE  i = j
    <2> DEFINE old(x) == IF x < p THEN x ELSE x + 1
    <2>1. old(i) \in DOMAIN store /\ old(j) \in DOMAIN store
        BY <1>3, <1>6
    <2>2. store[old(i)].key = store[old(j)].key
        BY <1>5, <1>6, <1>8
    <2>3. old(i) = old(j)
        BY <1>2, <2>1, <2>2
    <2> QED BY <1>3, <1>6, <2>3
<1>9. ASSUME NEW e \in Entries(w)
      PROVE  e \in Entries(store) /\ e.key # k
    <2>1. PICK j \in DOMAIN w : e = w[j]
        BY <1>9 DEF Entries
    <2>2. PICK i \in DOMAIN store : e = store[i] /\ i # p
        BY <1>3, <1>5, <1>6, <2>1
    <2> QED BY <1>2, <1>3, <1>4, <2>2 DEF Entries
<1>10. ASSUME NEW e \in Entries(store), e.key # k
       PROVE  e \in Entries(w)
    <2>1. PICK i \in DOMAIN store : e = store[i]
        BY <1>10 DEF Entries
    <2>2. i # p
        BY <1>4, <1>10, <2>1
    <2>3. PICK j \in DOMAIN w : e = w[j]
        <3>1. CASE i < p
            BY <1>3, <1>5, <1>6, <2>1, <3>1
        <3>2. CASE i > p
            <4>1. i - 1 \in DOMAIN w /\ ~(i - 1 < p) /\ (i - 1) + 1 = i
                BY <1>3, <1>6, <3>2
            <4> QED BY <1>5, <1>6, <2>1, <4>1
        <3> QED BY <1>3, <2>2, <3>1, <3>2
    <2> QED BY <2>3 DEF Entries
<1>11. Entries(w) = {e \in Entries(store) : e.key # k}
    BY <1>9, <1>10
<1>12. IsStore(w, E)
    BY <1>5, <1>7, <1>8 DEF IsStore
<1> QED BY <1>7, <1>11, <1>12 DEF w

\* store.pop(k, None) leaves a store with exactly the entries of other keys.
LEMMA DiscardStore ==
    ASSUME NEW E, NEW store, IsStore(store, E), NEW k
    PROVE  /\ IsStore(Discard(store, k), E)
           /\ Entries(Discard(store, k)) = {e \in Entries(store) : e.key # k}
           /\ Len(Discard(store, k)) <= Len(store)
<1>1. CASE k \in KeysOf(store)
    <2>1. Discard(store, k) = Without(store, k)
        BY <1>1 DEF Discard
    <2>2. store \in Seq(E)
        BY DEF IsStore
    <2>3. Len(Without(store, k)) = Len(store) - 1
        BY <1>1, <2>2, WithoutShape
    <2>4. Len(store) \in Nat
        BY <2>2, LenProperties
    <2> QED BY <1>1, <2>1, <2>3, <2>4, WithoutStore
<1>2. CASE k \notin KeysOf(store)
    <2>1. Discard(store, k) = store
        BY <1>2 DEF Discard
    <2>2. Entries(store) = {e \in Entries(store) : e.key # k}
        BY <1>2 DEF KeysOf
    <2>3. Len(store) \in Nat
        BY LenProperties DEF IsStore
    <2> QED BY <2>1, <2>2, <2>3
<1> QED BY <1>1, <1>2

\* After the eviction there is room for the key: it is in the store, or the
\* store is not full.  Nothing but the oldest entry is lost.
LEMMA MakeRoomStore ==
    ASSUME NEW E, NEW store, IsStore(store, E), NEW k
    PROVE  /\ IsStore(MakeRoom(store, k), E)
           /\ Entries(MakeRoom(store, k)) \subseteq Entries(store)
           /\ k \in KeysOf(MakeRoom(store, k)) \/ Len(MakeRoom(store, k)) < MaxEntries
<1>1. store \in Seq(E) /\ Len(store) <= MaxEntries /\ Len(store) \in Nat
    BY LenProperties DEF IsStore
<1>2. \A i, j \in DOMAIN store : store[i].key = store[j].key => i = j
    BY DEF IsStore
<1>3. CASE k \notin KeysOf(store) /\ Len(store) >= MaxEntries
    <2>1. store # <<>>
        BY <1>1, <1>3, MaxEntriesAssumption, EmptySeq
    <2>2. PICK t : t = Tail(store)
        OBVIOUS
    <2>3. /\ t \in Seq(E) /\ Len(t) = Len(store) - 1
          /\ \A i \in 1..(Len(store) - 1) : t[i] = store[i + 1]
        BY <1>1, <2>1, <2>2, HeadTailProperties
    <2>4. DOMAIN t = 1..(Len(store) - 1) /\ DOMAIN store = 1..Len(store)
        BY <1>1, <2>3, LenProperties
    <2>5. ASSUME NEW i \in DOMAIN t, NEW j \in DOMAIN t, t[i].key = t[j].key
          PROVE  i = j
        <3>1. i + 1 \in DOMAIN store /\ j + 1 \in DOMAIN store
            BY <1>1, <2>4
        <3>2. store[i + 1].key = store[j + 1].key
            BY <2>3, <2>4, <2>5
        <3>3. i + 1 = j + 1
            BY <1>2, <3>1, <3>2
        <3> QED BY <1>1, <2>4, <3>3
    <2>6. Len(t) < MaxEntries /\ Len(t) <= MaxEntries
        BY <1>1, <2>3, MaxEntriesAssumption
    <2>7. Entries(t) \subseteq Entries(store)
        <3> SUFFICES ASSUME NEW e \in Entries(t) PROVE e \in Entries(store)
            OBVIOUS
        <3>1. PICK i \in DOMAIN t : e = t[i]
            BY DEF Entries
        <3>2. i + 1 \in DOMAIN store /\ e = store[i + 1]
            BY <1>1, <2>3, <2>4, <3>1
        <3> QED BY <3>2 DEF Entries
    <2>8. MakeRoom(store, k) = t
        BY <1>3, <2>2 DEF MakeRoom
    <2>9. IsStore(t, E)
        BY <2>3, <2>5, <2>6 DEF IsStore
    <2> QED BY <2>6, <2>7, <2>8, <2>9
<1>4. CASE ~(k \notin KeysOf(store) /\ Len(store) >= MaxEntries)
    <2>1. MakeRoom(store, k) = store
        BY <1>4 DEF MakeRoom
    <2> QED BY <1>1, <1>4, <2>1, MaxEntriesAssumption
<1> QED BY <1>3, <1>4

\* Appending an entry with a new key to a store that is not full.
LEMMA AppendStore ==
    ASSUME NEW E, NEW store, IsStore(store, E), Len(store) < MaxEntries,
           NEW e \in E, e.key \notin KeysOf(store)
    PROVE  /\ IsStore(Append(store, e), E)
           /\ Entries(Append(store, e)) = Entries(store) \cup {e}
<1>1. PICK a : a = Append(store, e)
    OBVIOUS
<1>2. store \in Seq(E) /\ Len(store) \in Nat /\ DOMAIN store = 1..Len(store)
    BY LenProperties DEF IsStore
<1>3. /\ a \in Seq(E) /\ Len(a) = Len(store) + 1
      /\ \A i \in 1..Len(store) : a[i] = store[i]
      /\ a[Len(store) + 1] = e
    BY <1>1, <1>2, AppendProperties
<1>4. DOMAIN a = 1..(Len(store) + 1)
    BY <1>3, LenProperties
<1>5. Len(a) <= MaxEntries
    BY <1>2, <1>3, MaxEntriesAssumption
<1>6. \A i \in DOMAIN store : store[i].key # e.key
    BY DEF KeysOf, Entries
<1>7. \A i, j \in DOMAIN store : store[i].key = store[j].key => i = j
    BY DEF IsStore
<1>8. ASSUME NEW i \in DOMAIN a, NEW j \in DOMAIN a, a[i].key = a[j].key
      PROVE  i = j
    BY <1>2, <1>3, <1>4, <1>6, <1>7, <1>8
<1>9. IsStore(a, E)
    BY <1>3, <1>5, <1>8 DEF IsStore
<1>10. Entries(a) = Entries(store) \cup {e}
    <2>1. Entries(a) \subseteq Entries(store) \cup {e}
        BY <1>2, <1>3, <1>4 DEF Entries
    <2>2. \A i \in DOMAIN store : i \in DOMAIN a /\ a[i] = store[i]
        BY <1>2, <1>3, <1>4
    <2>3. Len(store) + 1 \in DOMAIN a /\ a[Len(store) + 1] = e
        BY <1>2, <1>3, <1>4
    <2>4. Entries(store) \cup {e} \subseteq Entries(a)
        BY <2>2, <2>3 DEF Entries
    <2> QED BY <2>1, <2>4
<1> QED BY <1>1, <1>9, <1>10

\* _put keeps a store a store: it stays within MaxEntries, holds the new entry,
\* keeps no older entry with its key, and holds nothing else that is new.
THEOREM PutStore ==
    ASSUME NEW E, NEW store, IsStore(store, E), NEW e \in E
    PROVE  /\ IsStore(Put(store, e), E)
           /\ e \in Entries(Put(store, e))
           /\ Entries(Put(store, e)) \subseteq {f \in Entries(store) : f.key # e.key} \cup {e}
<1>1. PICK r : r = MakeRoom(store, e.key)
    OBVIOUS
<1>2. /\ IsStore(r, E) /\ Entries(r) \subseteq Entries(store)
      /\ e.key \in KeysOf(r) \/ Len(r) < MaxEntries
    BY <1>1, MakeRoomStore
<1>3. PICK d : d = Discard(r, e.key)
    OBVIOUS
<1>4. IsStore(d, E) /\ Entries(d) = {f \in Entries(r) : f.key # e.key} /\ Len(d) <= Len(r)
    BY <1>2, <1>3, DiscardStore
<1>5. Len(d) < MaxEntries
    <2>1. CASE e.key \in KeysOf(r)
        <3>1. d = Without(r, e.key)
            BY <1>3, <2>1 DEF Discard
        <3> QED BY <1>2, <2>1, <3>1, WithoutStore
    <2>2. CASE Len(r) < MaxEntries
        <3>1. Len(r) \in Nat /\ Len(d) \in Nat
            BY <1>2, <1>4, LenProperties DEF IsStore
        <3> QED BY <1>4, <2>2, <3>1, MaxEntriesAssumption
    <2> QED BY <1>2, <2>1, <2>2
<1>6. e.key \notin KeysOf(d)
    BY <1>4 DEF KeysOf
<1>7. IsStore(Append(d, e), E) /\ Entries(Append(d, e)) = Entries(d) \cup {e}
    BY <1>4, <1>5, <1>6, AppendStore
<1>8. Put(store, e) = Append(d, e)
    BY <1>1, <1>3 DEF Put
<1> QED BY <1>2, <1>4, <1>7, <1>8

-----------------------------------------------------------------------------
(***************************************************************************)
(* The order of a store.                                                   *)
(***************************************************************************)

\* f is in the store, and every newer entry has one of the keys.
OnlyNewer(store, f, keys) ==
    \E i \in DOMAIN store :
        store[i] = f /\ \A j \in DOMAIN store : j > i => store[j].key \in keys

\* Removing another key moves nothing past an entry.
LEMMA DiscardOrder ==
    ASSUME NEW E, NEW store, IsStore(store, E), NEW k, NEW f, f.key # k, NEW keys,
           OnlyNewer(store, f, keys)
    PROVE  OnlyNewer(Discard(store, k), f, keys)
<1>1. CASE k \notin KeysOf(store)
    BY <1>1 DEF Discard
<1>2. CASE k \in KeysOf(store)
    <2>1. PICK w, p : w = Without(store, k) /\ p = PositionOf(store, k)
        OBVIOUS
    <2>2. /\ p \in 1..Len(store) /\ w \in Seq(E) /\ Len(w) = Len(store) - 1
          /\ \A j \in 1..(Len(store) - 1) : w[j] = store[IF j < p THEN j ELSE j + 1]
        BY <1>2, <2>1, WithoutShape DEF IsStore
    <2>3. /\ Len(store) \in Nat /\ DOMAIN store = 1..Len(store)
          /\ DOMAIN w = 1..(Len(store) - 1)
        BY <2>2, LenProperties DEF IsStore
    <2>4. PICK i \in 1..Len(store) :
              store[i] = f /\ \A j \in 1..Len(store) : j > i => store[j].key \in keys
        BY <2>3 DEF OnlyNewer
    <2>5. i # p
        BY <1>2, <2>1, <2>4, PositionOfProperties
    <2>6. ASSUME i < p PROVE OnlyNewer(w, f, keys)
        <3>1. i \in 1..(Len(store) - 1) /\ w[i] = f
            BY <2>2, <2>3, <2>4, <2>6
        <3>2. \A j \in 1..(Len(store) - 1) : j > i => w[j].key \in keys
            BY <2>2, <2>3, <2>4, <2>6
        <3> QED BY <2>3, <3>1, <3>2 DEF OnlyNewer
    <2>7. ASSUME i > p PROVE OnlyNewer(w, f, keys)
        <3>1. i - 1 \in 1..(Len(store) - 1) /\ w[i - 1] = f
            BY <2>2, <2>3, <2>4, <2>7
        <3>2. \A j \in 1..(Len(store) - 1) : j > i - 1 => w[j].key \in keys
            BY <2>2, <2>3, <2>4, <2>7
        <3> QED BY <2>3, <3>1, <3>2 DEF OnlyNewer
    <2>8. OnlyNewer(w, f, keys)
        BY <2>2, <2>3, <2>5, <2>6, <2>7
    <2> QED BY <1>2, <2>1, <2>8 DEF Discard
<1> QED BY <1>1, <1>2

\* An entry of a full store is evicted only when the others are all newer.
LEMMA MakeRoomOrder ==
    ASSUME NEW E, NEW store, IsStore(store, E), NEW k, NEW f, NEW keys,
           IsFiniteSet(keys), OnlyNewer(store, f, keys)
    PROVE  \/ OnlyNewer(MakeRoom(store, k), f, keys)
           \/ Cardinality(keys \cup {k}) >= MaxEntries
<1>1. /\ store \in Seq(E) /\ Len(store) \in Nat /\ DOMAIN store = 1..Len(store)
      /\ Len(store) <= MaxEntries
    BY LenProperties DEF IsStore
<1>2. PICK i \in 1..Len(store) :
          store[i] = f /\ \A j \in 1..Len(store) : j > i => store[j].key \in keys
    BY <1>1 DEF OnlyNewer
<1>3. CASE ~(k \notin KeysOf(store) /\ Len(store) >= MaxEntries)
    BY <1>3 DEF MakeRoom
<1>4. CASE k \notin KeysOf(store) /\ Len(store) >= MaxEntries /\ i = 1
    <2>1. Len(store) = MaxEntries
        <3>1. Len(store) >= MaxEntries
            BY <1>4
        <3>2. Len(store) <= MaxEntries /\ Len(store) \in Nat /\ MaxEntries \in Nat
            BY <1>1, MaxEntriesAssumption
        <3> QED BY <3>1, <3>2
    <2>2. \A j \in 1..MaxEntries : store[j].key # k
        BY <1>1, <1>4, <2>1 DEF KeysOf, Entries
    <2>3. \A j, m \in 1..MaxEntries : store[j].key = store[m].key => j = m
        BY <1>1, <2>1 DEF IsStore
    <2>4. \A j \in 1..MaxEntries : j # 1 => store[j].key \in keys
        BY <1>2, <1>4, <2>1, MaxEntriesAssumption
    <2> DEFINE g == [j \in 1..MaxEntries |-> IF j = 1 THEN k ELSE store[j].key]
               T == keys \cup {k}
    <2>5. g \in Injection(1..MaxEntries, T)
        <3>1. g \in [1..MaxEntries -> T]
            BY <2>4
        <3>2. \A j, m \in 1..MaxEntries : g[j] = g[m] => j = m
            BY <2>2, <2>3
        <3> HIDE DEF g
        <3> QED BY <3>1, <3>2 DEF Injection, IsInjective
    <2>6. IsFiniteSet(T)
        BY FS_AddElement
    <2> HIDE DEF g, T
    <2>7. Cardinality(1..MaxEntries) <= Cardinality(T)
        BY <2>5, <2>6, FS_Injection
    <2>8. Cardinality(1..MaxEntries) = MaxEntries
        BY FS_Interval, MaxEntriesAssumption
    <2>9. Cardinality(T) \in Nat
        BY <2>6, FS_CardinalityType
    <2> QED BY <2>7, <2>8, <2>9, MaxEntriesAssumption DEF T
<1>5. CASE k \notin KeysOf(store) /\ Len(store) >= MaxEntries /\ i # 1
    <2>1. PICK t : t = Tail(store)
        OBVIOUS
    <2>2. store # <<>>
        BY <1>1, <1>2
    <2>3. /\ t \in Seq(E) /\ Len(t) = Len(store) - 1
          /\ \A j \in 1..(Len(store) - 1) : t[j] = store[j + 1]
        BY <1>1, <2>1, <2>2, HeadTailProperties
    <2>4. DOMAIN t = 1..(Len(store) - 1)
        BY <1>1, <2>3, LenProperties
    <2>5. i - 1 \in DOMAIN t /\ t[i - 1] = f
        BY <1>1, <1>2, <1>5, <2>3, <2>4
    <2>6. \A j \in DOMAIN t : j > i - 1 => t[j].key \in keys
        BY <1>1, <1>2, <1>5, <2>3, <2>4
    <2>7. MakeRoom(store, k) = t
        BY <1>5, <2>1 DEF MakeRoom
    <2> QED BY <2>5, <2>6, <2>7 DEF OnlyNewer
<1> QED BY <1>3, <1>4, <1>5

\* The new entry is the newest, and behind every other that it leaves.
LEMMA AppendOrder ==
    ASSUME NEW E, NEW store \in Seq(E), NEW e \in E
    PROVE  /\ OnlyNewer(Append(store, e), e, {})
           /\ \A f, keys : OnlyNewer(store, f, keys)
                  => OnlyNewer(Append(store, e), f, keys \cup {e.key})
<1>1. PICK a : a = Append(store, e)
    OBVIOUS
<1>2. /\ Len(store) \in Nat /\ DOMAIN store = 1..Len(store)
      /\ DOMAIN a = 1..(Len(store) + 1)
      /\ \A i \in 1..Len(store) : a[i] = store[i]
      /\ a[Len(store) + 1] = e
    BY <1>1, AppendProperties, LenProperties
<1>3. OnlyNewer(a, e, {})
    BY <1>2 DEF OnlyNewer
<1>4. ASSUME NEW f, NEW keys, OnlyNewer(store, f, keys)
      PROVE  OnlyNewer(a, f, keys \cup {e.key})
    <2>1. PICK i \in 1..Len(store) :
              store[i] = f /\ \A j \in 1..Len(store) : j > i => store[j].key \in keys
        BY <1>2, <1>4 DEF OnlyNewer
    <2>2. i \in DOMAIN a /\ a[i] = f
        BY <1>2, <2>1
    <2>3. \A j \in DOMAIN a : j > i => a[j].key \in keys \cup {e.key}
        <3> SUFFICES ASSUME NEW j \in DOMAIN a, j > i PROVE a[j].key \in keys \cup {e.key}
            OBVIOUS
        <3>1. CASE j = Len(store) + 1
            BY <1>2, <3>1
        <3>2. CASE j # Len(store) + 1
            BY <1>2, <2>1, <3>2
        <3> QED BY <3>1, <3>2
    <2> QED BY <2>2, <2>3 DEF OnlyNewer
<1> QED BY <1>1, <1>3, <1>4

\* _put forgets another entry only once MaxEntries keys are newer, the new one among
\* them: it evicts from the oldest end, and only from a full store.
THEOREM PutOrder ==
    ASSUME NEW E, NEW store, IsStore(store, E), NEW e \in E
    PROVE  /\ OnlyNewer(Put(store, e), e, {})
           /\ \A f, keys :
                  f.key # e.key /\ IsFiniteSet(keys) /\ OnlyNewer(store, f, keys)
                  => \/ OnlyNewer(Put(store, e), f, keys \cup {e.key})
                     \/ Cardinality(keys \cup {e.key}) >= MaxEntries
<1>1. PICK r, d : r = MakeRoom(store, e.key) /\ d = Discard(r, e.key)
    OBVIOUS
<1>2. IsStore(r, E) /\ IsStore(d, E) /\ d \in Seq(E)
    <2>1. IsStore(r, E)
        BY <1>1, MakeRoomStore
    <2> QED BY <1>1, <2>1, DiscardStore DEF IsStore
<1>3. Put(store, e) = Append(d, e)
    BY <1>1 DEF Put
<1>4. OnlyNewer(Append(d, e), e, {})
    BY <1>2, AppendOrder
<1>5. ASSUME NEW f, NEW keys, f.key # e.key, IsFiniteSet(keys), OnlyNewer(store, f, keys),
             ~(Cardinality(keys \cup {e.key}) >= MaxEntries)
      PROVE  OnlyNewer(Append(d, e), f, keys \cup {e.key})
    <2>1. OnlyNewer(r, f, keys)
        BY <1>1, <1>5, MakeRoomOrder
    <2>2. OnlyNewer(d, f, keys)
        BY <1>1, <1>2, <1>5, <2>1, DiscardOrder
    <2> QED BY <1>2, <2>2, AppendOrder
<1> QED BY <1>3, <1>4, <1>5
=============================================================================
