---------------------------- MODULE BoundedStore ----------------------------
(***************************************************************************)
(* The bounded, oldest-first maps of SessionState (session_state.py).      *)
(* Python's OrderedDict is a sequence of entries, oldest first; an entry   *)
(* is a record with a field key, and no two entries share a key.           *)
(***************************************************************************)
EXTENDS Naturals, Sequences

CONSTANT MaxEntries     \* MAX_ENTRIES: the size at which a store evicts

ASSUME MaxEntriesAssumption == MaxEntries \in Nat \ {0}

\* The entries of a store, whatever their order.
Entries(store) == {store[i] : i \in DOMAIN store}

KeysOf(store) == {e.key : e \in Entries(store)}

EntryOf(store, k) == CHOOSE e \in Entries(store) : e.key = k

PositionOf(store, k) == CHOOSE i \in DOMAIN store : store[i].key = k

\* del store[k], for a key of the store.
Without(store, k) ==
    LET i == PositionOf(store, k)
    IN  [j \in 1..(Len(store) - 1) |-> store[IF j < i THEN j ELSE j + 1]]

\* store.pop(k, None): nothing to do when the key is absent.
Discard(store, k) == IF k \in KeysOf(store) THEN Without(store, k) ELSE store

\* popitem(last=False) when a new key meets a full store.
MakeRoom(store, k) ==
    IF k \notin KeysOf(store) /\ Len(store) >= MaxEntries THEN Tail(store) ELSE store

\* _put: evict if needed, set the entry and move it to the newest end.
Put(store, e) == Append(Discard(MakeRoom(store, e.key), e.key), e)

IsStore(store, E) ==
    /\ store \in Seq(E)
    /\ Len(store) <= MaxEntries
    /\ \A i, j \in DOMAIN store : store[i].key = store[j].key => i = j
=============================================================================
