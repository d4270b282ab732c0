----------------------------- MODULE CacheProofs -----------------------------
(***************************************************************************)
(* Proofs about the two caches that are filled from the network: those of  *)
(* CavemanRewriter for every number of callers, prompts, rewrites and      *)
(* workers, and, in the second part, those of OAuthUsage, for every set of *)
(* tokens, interval, cap and Retry-After.                                  *)
(***************************************************************************)
EXTENDS CavemanRewriter, OAuthUsage, FiniteSetTheorems, TLAPS

\* The phases in which a caller with a lock holds it.
Holding == {"memory", "disk", "install", "reject", "compute", "wait", "save", "save_file",
            "release"}

\* What a caller's phase says of its record.
StateOK(s) ==
    /\ s.key = None <=> s.phase = "idle"
    /\ s.lock = None => s.phase \in {"idle", "memory", "disk", "install", "reject", "setdefault"}
    /\ s.lock # None => s.phase \notin {"idle", "setdefault"}
    /\ s.phase = "install" => s.value \in Systems
    /\ s.phase \in {"save", "save_file"} => s.value \in Rewrites \cup {s.key}
    /\ s.fixpoint => s.value \in Rewrites /\ s.phase \in {"save", "save_file", "release", "cleanup"}

\* Types without the bounds of the pool, which follow from SlotsConserved.
VarsInv ==
    /\ guided \subseteq Prompts
    /\ mem \in [Systems -> Systems \cup {None}]
    /\ disk \in [Systems -> Systems \cup {None}]
    /\ rejects \subseteq Prompts
    /\ keyLocks \in [Prompts -> LockIds \cup {None}]
    /\ holder \in [LockIds -> Callers \cup {None}]
    /\ slots \in Nat /\ abandoned \in Nat /\ finishing \in Nat
    /\ failed \subseteq Prompts /\ accepted \subseteq Systems \X Systems
    /\ rewritten \subseteq Prompts \X Systems

CallersInv ==
    /\ callers \in [Callers -> CallerStates]
    /\ \A c \in Callers : StateOK(callers[c])

\* A lock is of one key; it is held by the caller in its critical section; and the
\* lock of a key is in the hands of a caller that will drop it.
LockInv ==
    /\ \A l \in LockIds, c \in Callers :
          holder[l] = c <=> callers[c].lock = l /\ callers[c].phase \in Holding
    /\ \A c, d \in Callers :
          callers[c].lock # None /\ callers[c].lock = callers[d].lock
              => callers[c].key = callers[d].key
    /\ \A p \in Prompts : keyLocks[p] # None =>
          /\ \E c \in Callers : callers[c].lock = keyLocks[p]
          /\ \A c \in Callers : callers[c].lock = keyLocks[p] => callers[c].key = p

\* What a caller is about to put in the cache is accepted.
Puts(s) ==
    /\ s.phase = "install" => <<s.key, s.value>> \in accepted
    /\ s.phase \in {"save", "save_file"} =>
          <<PutKey(s), s.value>> \in accepted /\ <<s.value, s.value>> \in accepted

AcceptedInv ==
    /\ CacheHoldsAccepted
    /\ \A c \in Callers : Puts(callers[c])

\* A caller that found nothing under the lock, until its answer is in the files.
Working(s) ==
    \/ s.lock # None /\ s.phase = "reject"
    \/ s.phase \in {"compute", "wait"}
    \/ s.phase \in {"save", "save_file"} /\ ~s.fixpoint

\* What a caller of a key that never failed knows of the cache.
SameOK(s) ==
    s.phase # "idle" /\ s.key \notin failed =>
        /\ s.lock # None /\ mem[s.key] = None =>
              s.phase \notin {"release", "cleanup"} /\ s.lock = keyLocks[s.key]
        /\ s.phase = "install" => disk[s.key] = s.value
        /\ s.phase = "disk" /\ s.lock # None => mem[s.key] \in {None, disk[s.key]}
        /\ Working(s) => /\ disk[s.key] = None
                         /\ mem[s.key] = IF s.phase = "save_file" THEN s.value ELSE None
        /\ s.fixpoint => mem[s.key] = s.value

SameInv ==
    /\ rejects \subseteq failed
    /\ \A c \in Callers : SameOK(callers[c])
    /\ \A c, d \in Callers :
          Working(callers[c]) /\ Working(callers[d]) /\ callers[c].key = callers[d].key
              /\ callers[c].key \notin failed => c = d
    /\ \A p \in Prompts \ failed : mem[p] = None \/ disk[p] = None \/ mem[p] = disk[p]
    /\ \A r \in rewritten : r[1] \notin failed => r[2] = mem[r[1]] \/ r[2] = disk[r[1]]

\* The inductive invariant.
IInv == VarsInv /\ CallersInv /\ SlotsConserved /\ LockInv /\ AcceptedInv /\ SameInv

-----------------------------------------------------------------------------
(***************************************************************************)
(* Records and frames: what a step that gives one caller a new record must *)
(* show of it, invariant by invariant.                                     *)
(***************************************************************************)

LEMMA Phased ==
    ASSUME NEW s \in CallerStates, NEW where \in Phases, NEW n, n = [s EXCEPT !.phase = where]
    PROVE  /\ n \in CallerStates /\ n.phase = where /\ n.key = s.key /\ n.lock = s.lock
           /\ n.value = s.value /\ n.fixpoint = s.fixpoint
BY DEF CallerStates

LEMMA IdleRecord ==
    /\ Idle \in CallerStates /\ Idle.phase = "idle" /\ Idle.key = None /\ Idle.lock = None
    /\ Idle.fixpoint = FALSE
BY DEF Idle, CallerStates, Phases

LEMMA IdleOK == StateOK(Idle) /\ ~Working(Idle) /\ SameOK(Idle) /\ Puts(Idle)
BY IdleRecord DEF StateOK, Working, SameOK, Puts

LEMMA Become1 ==
    ASSUME CallersInv, NEW c \in Callers, NEW n, Become(c, n)
    PROVE  callers'[c] = n /\ \A d \in Callers : d # c => callers'[d] = callers[d]
BY DEF CallersInv, Become

LEMMA CallersFrame ==
    ASSUME CallersInv, NEW c \in Callers, NEW n \in CallerStates, Become(c, n), StateOK(n)
    PROVE  CallersInv'
<1>1. callers' \in [Callers -> CallerStates]
    BY DEF CallersInv, Become
<1>2. ASSUME NEW d \in Callers PROVE StateOK(callers'[d])
    BY Become1 DEF CallersInv
<1>3. QED BY <1>1, <1>2 DEF CallersInv

LEMMA LockFrame ==
    ASSUME CallersInv, LockInv, NEW c \in Callers, NEW n \in CallerStates, Become(c, n),
           UNCHANGED locks, n.lock = callers[c].lock,
           n.lock # None => n.key = callers[c].key /\ (n.phase \in Holding <=> callers[c].phase \in Holding),
           None \notin LockIds
    PROVE  LockInv'
<1>1. \A d \in Callers : callers'[d].lock = callers[d].lock
    BY Become1
<1>2. \A d \in Callers : callers[d].lock # None =>
         callers'[d].key = callers[d].key /\ (callers'[d].phase \in Holding <=> callers[d].phase \in Holding)
    BY Become1
<1>3. UNCHANGED <<keyLocks, holder>>
    BY DEF locks
<1>4. \A l \in LockIds, d \in Callers :
          holder'[l] = d <=> callers'[d].lock = l /\ callers'[d].phase \in Holding
    BY <1>1, <1>2, <1>3 DEF LockInv
<1>5. \A d, e \in Callers :
          callers'[d].lock # None /\ callers'[d].lock = callers'[e].lock
              => callers'[d].key = callers'[e].key
    BY <1>1, <1>2 DEF LockInv
<1>6. ASSUME NEW p \in Prompts, keyLocks'[p] # None
      PROVE  /\ \E d \in Callers : callers'[d].lock = keyLocks'[p]
             /\ \A d \in Callers : callers'[d].lock = keyLocks'[p] => callers'[d].key = p
    BY <1>1, <1>2, <1>3, <1>6 DEF LockInv
<1>7. QED BY <1>4, <1>5, <1>6 DEF LockInv

LEMMA AcceptFrame ==
    ASSUME CallersInv, AcceptedInv, NEW c \in Callers, NEW n \in CallerStates, Become(c, n),
           UNCHANGED cache, accepted \subseteq accepted', Puts(n)'
    PROVE  AcceptedInv'
<1>1. CacheHoldsAccepted'
    BY DEF AcceptedInv, CacheHoldsAccepted, cache
<1>2. ASSUME NEW d \in Callers PROVE Puts(callers[d])'
    <2>1. CASE d = c
        BY <2>1, Become1
    <2>2. CASE d # c
        BY <2>2, Become1 DEF AcceptedInv, Puts, PutKey
    <2>3. QED BY <2>1, <2>2
<1>3. QED BY <1>1, <1>2 DEF AcceptedInv

\* No other caller works on the key, unless it failed.
Alone(c, n) ==
    Working(n) /\ n.key \notin failed =>
        \A d \in Callers \ {c} : Working(callers[d]) => callers[d].key # n.key

LEMMA AloneKept ==
    ASSUME SameInv, NEW c \in Callers, NEW n,
           Working(n) => Working(callers[c]) /\ n.key = callers[c].key
    PROVE  Alone(c, n)
BY DEF SameInv, Alone

LEMMA SameFrame ==
    ASSUME CallersInv, SameInv, NEW c \in Callers, NEW n \in CallerStates, Become(c, n),
           UNCHANGED <<mem, disk, keyLocks>>, failed \subseteq failed',
           rejects' \subseteq failed',
           SameOK(n)', Alone(c, n),
           \A r \in rewritten' \ rewritten : r[2] = mem[r[1]] \/ r[2] = disk[r[1]]
    PROVE  SameInv'
<1>1. ASSUME NEW d \in Callers PROVE SameOK(callers[d])'
    <2>1. CASE d = c
        BY <2>1, Become1
    <2>2. CASE d # c
        BY <2>2, Become1 DEF SameInv, SameOK, Working
    <2>3. QED BY <2>1, <2>2
<1>2. ASSUME NEW d \in Callers, NEW e \in Callers,
             Working(callers'[d]), Working(callers'[e]), callers'[d].key = callers'[e].key,
             callers'[d].key \notin failed'
      PROVE  d = e
    <2>1. CASE d # c /\ e # c
        BY <1>2, <2>1, Become1 DEF SameInv
    <2>2. CASE d = c /\ e # c
        BY <1>2, <2>2, Become1 DEF Alone
    <2>3. CASE d # c /\ e = c
        BY <1>2, <2>3, Become1 DEF Alone
    <2>4. QED BY <2>1, <2>2, <2>3
<1>3. \A d, e \in Callers :
          Working(callers'[d]) /\ Working(callers'[e]) /\ callers'[d].key = callers'[e].key
              /\ callers'[d].key \notin failed' => d = e
    BY <1>2
<1>4. \A p \in Prompts \ failed' : mem'[p] = None \/ disk'[p] = None \/ mem'[p] = disk'[p]
    BY DEF SameInv
<1>5. \A r \in rewritten' : r[1] \notin failed' => r[2] = mem'[r[1]] \/ r[2] = disk'[r[1]]
    BY DEF SameInv
<1>6. QED BY <1>1, <1>3, <1>4, <1>5 DEF SameInv, Working

-----------------------------------------------------------------------------
(***************************************************************************)
(* The pool.                                                               *)
(***************************************************************************)

Waiting == {c \in Callers : At(c, "wait")}

LEMMA WaitingFinite == IsFiniteSet(Waiting) /\ Cardinality(Waiting) \in Nat
<1>1. Waiting \in SUBSET Callers
    BY DEF Waiting
<1>2. IsFiniteSet(Waiting)
    BY <1>1, CavemanRewriterAssumption, FS_Subset
<1>3. QED BY <1>2, FS_CardinalityType

LEMMA SlotsFrame ==
    ASSUME CallersInv, SlotsConserved, NEW c \in Callers, NEW n, Become(c, n),
           callers[c].phase # "wait", n.phase # "wait", UNCHANGED pool
    PROVE  SlotsConserved'
<1>1. Waiting' = Waiting
    BY Become1 DEF Waiting, At
<1>2. QED BY <1>1 DEF SlotsConserved, Waiting, pool

LEMMA SlotsEnter ==
    ASSUME VarsInv, CallersInv, SlotsConserved, NEW c \in Callers, NEW n, Become(c, n),
           callers[c].phase # "wait", n.phase = "wait",
           slots' = slots - 1, UNCHANGED <<abandoned, finishing>>
    PROVE  SlotsConserved'
<1>1. Waiting' = Waiting \cup {c} /\ c \notin Waiting
    BY Become1 DEF Waiting, At
<1>2. Cardinality(Waiting') = Cardinality(Waiting) + 1
    BY <1>1, WaitingFinite, FS_AddElement
<1>3. QED BY <1>2, WaitingFinite DEF SlotsConserved, Waiting, VarsInv

LEMMA SlotsLeave ==
    ASSUME VarsInv, CallersInv, SlotsConserved, NEW c \in Callers, NEW n, Become(c, n),
           callers[c].phase = "wait", n.phase # "wait", UNCHANGED slots,
           \/ finishing' = finishing + 1 /\ UNCHANGED abandoned
           \/ abandoned' = abandoned + 1 /\ UNCHANGED finishing
    PROVE  SlotsConserved'
<1>1. Waiting' = Waiting \ {c} /\ c \in Waiting
    BY Become1 DEF Waiting, At
<1>2. Cardinality(Waiting') = Cardinality(Waiting) - 1
    BY <1>1, WaitingFinite, FS_RemoveElement
<1>3. QED BY <1>2, WaitingFinite DEF SlotsConserved, Waiting, VarsInv

-----------------------------------------------------------------------------
(***************************************************************************)
(* Steps that leave the cache and the locks alone.                         *)
(***************************************************************************)

LEMMA LockIdsType == LockIds \subseteq Nat /\ None \notin LockIds
<1>1. Cardinality(Callers) \in Nat
    BY CavemanRewriterAssumption, FS_CardinalityType
<1>2. LockIds \subseteq Nat
    BY <1>1 DEF LockIds
<1>3. QED BY <1>2, CavemanRewriterAssumption

\* What a caller at work has.
LEMMA CallerFacts ==
    ASSUME CallersInv, NEW c \in Callers, NEW s, s = callers[c]
    PROVE  /\ s \in CallerStates /\ StateOK(s)
           /\ s.phase # "idle" => s.key \in Prompts /\ s.key \in Systems
           /\ s.phase \notin {"save", "save_file", "release", "cleanup"} => s.fixpoint = FALSE
           /\ s.phase \in {"compute", "wait", "save", "save_file", "release", "cleanup", "acquire"}
                 => s.lock # None /\ s.lock \in LockIds
<1>1. s \in CallerStates /\ StateOK(s)
    BY DEF CallersInv
<1>2. /\ s.key \in Prompts \cup {None} /\ s.lock \in LockIds \cup {None} /\ s.fixpoint \in BOOLEAN
    BY <1>1 DEF CallerStates
<1>3. QED BY <1>1, <1>2 DEF StateOK, Systems

LEMMA GotoRecord ==
    ASSUME CallersInv, NEW c \in Callers, NEW where \in Phases, Goto(c, where)
    PROVE  \E n \in CallerStates :
              /\ Become(c, n) /\ n.phase = where /\ n.key = callers[c].key
              /\ n.lock = callers[c].lock /\ n.value = callers[c].value
              /\ n.fixpoint = callers[c].fixpoint
<1>1. callers[c] \in CallerStates
    BY DEF CallersInv
<1>2. PICK n : n = [callers[c] EXCEPT !.phase = where]
    OBVIOUS
<1>3. Become(c, n)
    BY <1>2 DEF Goto
<1>4. /\ n \in CallerStates /\ n.phase = where /\ n.key = callers[c].key
      /\ n.lock = callers[c].lock /\ n.value = callers[c].value
      /\ n.fixpoint = callers[c].fixpoint
    BY <1>1, <1>2 DEF CallerStates
<1>5. QED BY <1>3, <1>4

LEMMA GotoWithRecord ==
    ASSUME CallersInv, NEW c \in Callers, NEW where \in Phases, NEW value \in Systems,
           GotoWith(c, where, value)
    PROVE  \E n \in CallerStates :
              /\ Become(c, n) /\ n.phase = where /\ n.key = callers[c].key
              /\ n.lock = callers[c].lock /\ n.value = value
              /\ n.fixpoint = callers[c].fixpoint
<1>1. callers[c] \in CallerStates
    BY DEF CallersInv
<1>2. PICK n : n = [callers[c] EXCEPT !.phase = where, !.value = value]
    OBVIOUS
<1>3. Become(c, n)
    BY <1>2 DEF GotoWith
<1>4. /\ n \in CallerStates /\ n.phase = where /\ n.key = callers[c].key
      /\ n.lock = callers[c].lock /\ n.value = value
      /\ n.fixpoint = callers[c].fixpoint
    BY <1>1, <1>2 DEF CallerStates
<1>5. QED BY <1>3, <1>4

LEMMA QuietStep ==
    ASSUME IInv, NEW c \in Callers, NEW n \in CallerStates, Become(c, n), StateOK(n),
           UNCHANGED <<cache, locks>>, VarsInv', SlotsConserved',
           n.lock = callers[c].lock,
           n.lock # None => n.key = callers[c].key /\ (n.phase \in Holding <=> callers[c].phase \in Holding),
           failed \subseteq failed', accepted \subseteq accepted', rejects' \subseteq failed',
           Puts(n)', SameOK(n)', Alone(c, n),
           \A r \in rewritten' \ rewritten : r[2] = mem[r[1]] \/ r[2] = disk[r[1]]
    PROVE  IInv'
<1>1. CallersInv'
    BY CallersFrame DEF IInv
<1>2. LockInv'
    BY LockFrame, LockIdsType DEF IInv
<1>3. AcceptedInv'
    BY AcceptFrame DEF IInv
<1>4. UNCHANGED <<mem, disk, keyLocks>>
    BY DEF cache, locks
<1>5. SameInv'
    BY <1>4, SameFrame DEF IInv
<1>6. QED BY <1>1, <1>2, <1>3, <1>5 DEF IInv

\* And everything else.
LEMMA SilentStep ==
    ASSUME IInv, NEW c \in Callers, NEW n \in CallerStates, Become(c, n), StateOK(n),
           UNCHANGED <<guided, cache, rejects, locks, pool, history>>,
           n.lock = callers[c].lock,
           n.lock # None => n.key = callers[c].key /\ (n.phase \in Holding <=> callers[c].phase \in Holding),
           n.phase # "wait", callers[c].phase # "wait",
           Puts(n), SameOK(n), Alone(c, n)
    PROVE  IInv'
<1>1. VarsInv'
    BY DEF IInv, VarsInv, cache, locks, pool, history
<1>2. SlotsConserved'
    BY SlotsFrame DEF IInv
<1>3. UNCHANGED <<mem, disk, keyLocks, failed, accepted, rewritten, rejects>>
    BY DEF cache, locks, history
<1>4. Puts(n)'
    BY <1>3 DEF Puts, PutKey
<1>5. SameOK(n)'
    BY <1>3 DEF SameOK, Working
<1>6. failed \subseteq failed' /\ accepted \subseteq accepted' /\ rejects' \subseteq failed'
    BY <1>3 DEF IInv, SameInv
<1>7. \A r \in rewritten' \ rewritten : r[2] = mem[r[1]] \/ r[2] = disk[r[1]]
    BY <1>3
<1>8. QED BY <1>1, <1>2, <1>4, <1>5, <1>6, <1>7, QuietStep

LEMMA RequestStep == ASSUME IInv, NEW c \in Callers, Request(c) PROVE IInv'
<1>1. PICK p \in Prompts : Become(c, [Idle EXCEPT !.phase = "memory", !.key = p])
    BY DEF Request
<1>2. PICK n : n = [Idle EXCEPT !.phase = "memory", !.key = p]
    OBVIOUS
<1>3. n \in CallerStates /\ n.phase = "memory" /\ n.key = p /\ n.lock = None /\ n.fixpoint = FALSE
    BY <1>2, IdleRecord DEF CallerStates, Phases
<1>4. callers[c].phase = "idle" /\ callers[c].lock = None
    BY DEF Request, At, IInv, CallersInv, StateOK
<1>5. StateOK(n) /\ Puts(n) /\ ~Working(n)
    BY <1>3, CavemanRewriterAssumption DEF StateOK, Puts, Working
<1>6. SameOK(n) /\ Alone(c, n)
    BY <1>3, <1>5 DEF SameOK, Alone
<1>7. UNCHANGED <<guided, cache, rejects, locks, pool, history>>
    BY DEF Request
<1>8. QED BY <1>1, <1>2, <1>3, <1>4, <1>5, <1>6, <1>7, SilentStep

\* What a caller becomes when its result is returned.
LEMMA LeaveRecord ==
    ASSUME CallersInv, NEW c \in Callers, NEW s, s = callers[c],
           s.phase \in {"memory", "install", "reject"}, Leave(c)
    PROVE  \E n \in CallerStates :
              /\ Become(c, n) /\ StateOK(n) /\ ~Working(n) /\ n.fixpoint = FALSE
              /\ n.lock = s.lock /\ n.phase \in {"idle", "release"}
              /\ n.phase = "release" => n.lock # None /\ n.key = s.key
              /\ n.lock # None => n.phase = "release" /\ n.key = s.key
<1>1. CASE s.lock = None
    BY <1>1, IdleRecord, IdleOK DEF Leave
<1>2. CASE s.lock # None
    <2>1. PICK n : n = [s EXCEPT !.phase = "release"]
        OBVIOUS
    <2>2. Become(c, n)
        BY <1>2, <2>1 DEF Leave, Goto
    <2>3. s \in CallerStates /\ s.fixpoint = FALSE /\ s.key # None
        BY CallerFacts DEF StateOK
    <2>4. /\ n \in CallerStates /\ n.phase = "release" /\ n.key = s.key /\ n.lock = s.lock
          /\ n.value = s.value /\ n.fixpoint = s.fixpoint
        BY <2>1, <2>3, Phased DEF Phases
    <2>5. StateOK(n) /\ ~Working(n)
        BY <1>2, <2>3, <2>4 DEF StateOK, Working
    <2>6. QED BY <1>2, <2>2, <2>3, <2>4, <2>5
<1>3. QED BY <1>1, <1>2

\* A caller that is told a system the cache holds.
LEMMA LookMemoryStep == ASSUME IInv, NEW c \in Callers, LookMemory(c) PROVE IInv'
<1>1. PICK s : s = callers[c]
    OBVIOUS
<1>2. /\ s \in CallerStates /\ StateOK(s) /\ s.phase = "memory" /\ s.key \in Prompts
      /\ s.key \in Systems /\ s.fixpoint = FALSE /\ SameOK(s)
    BY <1>1, CallerFacts DEF IInv, LookMemory, At, SameInv
<1>3. UNCHANGED <<guided, cache, rejects, locks, pool, failed, accepted>>
    BY DEF LookMemory
<1>4. CASE mem[s.key] # None
    <2>1. Leave(c) /\ rewritten' = rewritten \cup {<<s.key, mem[s.key]>>}
        BY <1>1, <1>4 DEF LookMemory, Tell
    <2>2. PICK n \in CallerStates :
              /\ Become(c, n) /\ StateOK(n) /\ ~Working(n) /\ n.fixpoint = FALSE
              /\ n.lock = s.lock /\ n.phase \in {"idle", "release"}
              /\ n.phase = "release" => n.lock # None /\ n.key = s.key
              /\ n.lock # None => n.phase = "release" /\ n.key = s.key
        BY <1>1, <1>2, <2>1, LeaveRecord DEF IInv
    <2>3. mem[s.key] \in Systems
        BY <1>2, <1>4 DEF IInv, VarsInv
    <2>4. VarsInv'
        BY <1>2, <1>3, <2>1, <2>3 DEF IInv, VarsInv, cache, locks, pool
    <2>5. SlotsConserved'
        BY <1>1, <1>2, <1>3, <2>2, SlotsFrame DEF IInv
    <2>6. Puts(n)' /\ Alone(c, n)
        BY <2>2 DEF Puts, Alone
    <2>7. SameOK(n)'
        BY <1>3, <1>4, <2>2 DEF SameOK, Working, cache
    <2>8. \A r \in rewritten' \ rewritten : r[2] = mem[r[1]] \/ r[2] = disk[r[1]]
        BY <2>1
    <2>9. failed \subseteq failed' /\ accepted \subseteq accepted' /\ rejects' \subseteq failed'
        BY <1>3 DEF IInv, SameInv
    <2>10. n.lock # None => n.key = callers[c].key /\ (n.phase \in Holding <=> callers[c].phase \in Holding)
        BY <1>1, <1>2, <2>2 DEF Holding
    <2>11. QED BY <1>1, <1>3, <2>2, <2>4, <2>5, <2>6, <2>7, <2>8, <2>9, <2>10, QuietStep
<1>5. CASE mem[s.key] = None
    <2>1. PICK n : n = [s EXCEPT !.phase = "disk"]
        OBVIOUS
    <2>2. Become(c, n) /\ UNCHANGED rewritten
        BY <1>1, <1>5, <2>1 DEF LookMemory, Goto
    <2>3. /\ n \in CallerStates /\ n.phase = "disk" /\ n.key = s.key /\ n.lock = s.lock
          /\ n.fixpoint = FALSE
        BY <1>2, <2>1, Phased DEF Phases
    <2>4. StateOK(n) /\ Puts(n) /\ ~Working(n)
        BY <1>2, <2>3 DEF StateOK, Puts, Working
    <2>5. SameOK(n) /\ Alone(c, n)
        BY <1>2, <1>5, <2>3, <2>4 DEF SameOK, Alone
    <2>6. (n.phase \in Holding <=> callers[c].phase \in Holding)
        BY <1>1, <1>2, <2>3 DEF Holding
    <2>7. UNCHANGED <<guided, cache, rejects, locks, pool, history>>
        BY <1>3, <2>2 DEF history
    <2>8. QED BY <1>1, <1>2, <2>2, <2>3, <2>4, <2>5, <2>6, <2>7, SilentStep
<1>6. QED BY <1>4, <1>5

LEMMA OneHolder ==
    ASSUME CallersInv, LockInv, NEW c \in Callers, NEW d \in Callers, callers[c].lock # None,
           callers[c].lock = callers[d].lock, callers[c].phase \in Holding, callers[d].phase \in Holding
    PROVE  c = d
<1>1. callers[c].lock \in LockIds
    BY DEF CallersInv, CallerStates
<1>2. holder[callers[c].lock] = c /\ holder[callers[c].lock] = d
    BY <1>1 DEF LockInv
<1>3. QED BY <1>2

\* A caller that found nothing in the files while it holds the lock works alone.
LEMMA MissAlone ==
    ASSUME IInv, NEW c \in Callers, NEW s, s = callers[c], s.phase = "disk", s.lock # None,
           disk[s.key] = None, s.key \notin failed,
           NEW d \in Callers, Working(callers[d]), callers[d].key = s.key
    PROVE  c = d
<1>1. s.key \in Prompts /\ s.key \in Systems
    BY CallerFacts DEF IInv
<1>2. SameOK(s) /\ SameOK(callers[d])
    BY DEF IInv, SameInv
<1>3. mem[s.key] = None /\ s.lock = keyLocks[s.key]
    BY <1>2 DEF SameOK
<1>4. callers[d].lock # None /\ callers[d].phase \in Holding /\ callers[d].phase \notin {"idle", "release", "cleanup"}
    BY CallerFacts DEF Working, IInv, Holding
<1>5. mem[s.key] = IF callers[d].phase = "save_file" THEN callers[d].value ELSE None
    BY <1>2, <1>4 DEF SameOK
<1>6. callers[d].phase = "save_file" => callers[d].value \in Rewrites \cup {s.key}
    BY DEF IInv, CallersInv, StateOK
<1>7. callers[d].lock = keyLocks[s.key]
    BY <1>2, <1>3, <1>4 DEF SameOK
<1>8. s.phase \in Holding
    BY DEF Holding
<1>9. QED BY <1>3, <1>4, <1>7, <1>8, OneHolder DEF IInv

LEMMA LookDiskStep == ASSUME IInv, NEW c \in Callers, LookDisk(c) PROVE IInv'
<1>1. PICK s : s = callers[c]
    OBVIOUS
<1>2. /\ s \in CallerStates /\ StateOK(s) /\ s.phase = "disk" /\ s.key \in Prompts
      /\ s.key \in Systems /\ s.fixpoint = FALSE /\ SameOK(s)
    BY <1>1, CallerFacts DEF IInv, LookDisk, At, SameInv
<1>3. UNCHANGED <<guided, cache, rejects, locks, pool, history>>
    BY DEF LookDisk
<1>4. CASE disk[s.key] # None
    <2>1. PICK value \in Systems : value = disk[s.key]
        BY <1>2, <1>4 DEF IInv, VarsInv
    <2>2. GotoWith(c, "install", value) /\ "install" \in Phases
        BY <1>1, <1>4, <2>1 DEF LookDisk, Phases
    <2>3. PICK n \in CallerStates :
              /\ Become(c, n) /\ n.phase = "install" /\ n.key = callers[c].key
              /\ n.lock = callers[c].lock /\ n.value = value
              /\ n.fixpoint = callers[c].fixpoint
        BY <2>2, GotoWithRecord DEF IInv
    <2>4. <<s.key, value>> \in accepted
        BY <1>2, <2>1 DEF IInv, AcceptedInv, CacheHoldsAccepted
    <2>5. Become(c, n) /\ n.phase = "install" /\ n.key = s.key /\ n.lock = s.lock /\ n.value = value /\ n.fixpoint = FALSE
        BY <1>1, <1>2, <2>3
    <2>6. StateOK(n) /\ Puts(n) /\ ~Working(n)
        BY <1>2, <2>4, <2>5 DEF StateOK, Puts, Working
    <2>7. SameOK(n) /\ Alone(c, n)
        BY <1>2, <2>1, <2>5, <2>6 DEF SameOK, Alone
    <2>8. (n.phase \in Holding <=> callers[c].phase \in Holding)
        BY <1>1, <1>2, <2>5 DEF Holding
    <2>9. QED BY <1>1, <1>2, <1>3, <2>5, <2>6, <2>7, <2>8, SilentStep
<1>5. CASE disk[s.key] = None
    <2>1. PICK n : n = [s EXCEPT !.phase = "reject"]
        OBVIOUS
    <2>2. Become(c, n)
        BY <1>1, <1>5, <2>1 DEF LookDisk, Goto
    <2>3. /\ n \in CallerStates /\ n.phase = "reject" /\ n.key = s.key /\ n.lock = s.lock
          /\ n.fixpoint = FALSE
        BY <1>2, <2>1, Phased DEF Phases
    <2>4. StateOK(n) /\ Puts(n)
        BY <1>2, <2>3 DEF StateOK, Puts
    <2>5. SameOK(n)
        BY <1>2, <1>5, <2>3 DEF SameOK, Working
    <2>6. Alone(c, n)
        BY <1>1, <1>2, <1>5, <2>3, MissAlone DEF Alone, Working
    <2>7. (n.phase \in Holding <=> callers[c].phase \in Holding)
        BY <1>1, <1>2, <2>3 DEF Holding
    <2>8. QED BY <1>1, <1>2, <1>3, <2>2, <2>3, <2>4, <2>5, <2>6, <2>7, SilentStep
<1>6. QED BY <1>4, <1>5

LEMMA CheckRejectStep == ASSUME IInv, NEW c \in Callers, CheckReject(c) PROVE IInv'
<1>1. PICK s : s = callers[c]
    OBVIOUS
<1>2. /\ s \in CallerStates /\ StateOK(s) /\ s.phase = "reject" /\ s.key \in Prompts
      /\ s.key \in Systems /\ s.fixpoint = FALSE /\ SameOK(s)
    BY <1>1, CallerFacts DEF IInv, CheckReject, SameInv
<1>3. UNCHANGED <<guided, cache, rejects, locks, pool, history>>
    BY DEF CheckReject
<1>4. CASE s.key \in rejects
    <2>1. Leave(c) /\ s.key \in failed
        BY <1>1, <1>4 DEF CheckReject, IInv, SameInv
    <2>2. PICK n \in CallerStates :
              /\ Become(c, n) /\ StateOK(n) /\ ~Working(n) /\ n.fixpoint = FALSE
              /\ n.lock = s.lock /\ n.phase \in {"idle", "release"}
              /\ n.phase = "release" => n.lock # None /\ n.key = s.key
              /\ n.lock # None => n.phase = "release" /\ n.key = s.key
        BY <1>1, <1>2, <2>1, LeaveRecord DEF IInv
    <2>3. Puts(n) /\ SameOK(n) /\ Alone(c, n)
        BY <2>1, <2>2 DEF Puts, SameOK, Alone
    <2>4. n.lock # None => n.key = callers[c].key /\ (n.phase \in Holding <=> callers[c].phase \in Holding)
        BY <1>1, <1>2, <2>2 DEF Holding
    <2>5. QED BY <1>1, <1>2, <1>3, <2>2, <2>3, <2>4, SilentStep
<1>5. CASE s.key \notin rejects
    <2>1. PICK where \in {"setdefault", "compute"} :
              where = IF s.lock = None THEN "setdefault" ELSE "compute"
        OBVIOUS
    <2>2. PICK n : n = [s EXCEPT !.phase = where]
        OBVIOUS
    <2>3. Become(c, n)
        BY <1>1, <1>5, <2>1, <2>2 DEF CheckReject, Goto
    <2>4. where \in Phases
        BY DEF Phases
    <2>5. /\ n \in CallerStates /\ n.phase = where /\ n.key = s.key /\ n.lock = s.lock
          /\ n.fixpoint = FALSE
        BY <1>2, <2>2, <2>4, Phased
    <2>6. StateOK(n) /\ Puts(n)
        BY <1>2, <2>1, <2>5 DEF StateOK, Puts
    <2>7. Working(n) <=> Working(s)
        BY <1>2, <2>1, <2>5 DEF Working
    <2>8. SameOK(n)
        BY <1>2, <2>1, <2>5, <2>7 DEF SameOK
    <2>9. Alone(c, n)
        BY <1>1, <2>5, <2>7, AloneKept DEF IInv
    <2>10. n.lock # None => n.key = callers[c].key /\ (n.phase \in Holding <=> callers[c].phase \in Holding)
        BY <1>1, <1>2, <2>1, <2>5 DEF Holding
    <2>11. QED BY <1>1, <1>2, <1>3, <2>1, <2>3, <2>5, <2>6, <2>8, <2>9, <2>10, SilentStep
<1>6. QED BY <1>4, <1>5

LEMMA ForgetRejectStep == ASSUME IInv, NEW p \in Prompts, ForgetReject(p) PROVE IInv'
<1>1. /\ rejects' \subseteq rejects
      /\ UNCHANGED <<guided, mem, disk, keyLocks, holder, slots, abandoned, finishing, callers,
                     failed, accepted, rewritten>>
    BY DEF ForgetReject, cache, locks, pool, history
<1>2. VarsInv' /\ CallersInv'
    BY <1>1 DEF IInv, VarsInv, CallersInv
<1>3. SlotsConserved' /\ LockInv' /\ AcceptedInv'
    BY <1>1 DEF IInv, SlotsConserved, At, LockInv, AcceptedInv, CacheHoldsAccepted, Puts, PutKey
<1>4. SameInv'
    BY <1>1 DEF IInv, SameInv, SameOK, Working
<1>5. QED BY <1>2, <1>3, <1>4 DEF IInv

-----------------------------------------------------------------------------
(***************************************************************************)
(* _compute.                                                               *)
(***************************************************************************)

\* A caller in _compute has the lock and works alone.
LEMMA ComputeFacts ==
    ASSUME IInv, NEW c \in Callers, NEW s, s = callers[c], s.phase \in {"compute", "wait"}
    PROVE  /\ s \in CallerStates /\ s.key \in Prompts /\ s.key \in Systems /\ s.fixpoint = FALSE
           /\ s.lock # None /\ Working(s) /\ SameOK(s) /\ s.phase \in Holding
<1>1. CallersInv /\ SameOK(s)
    BY DEF IInv, SameInv
<1>2. QED BY <1>1, CallerFacts DEF Working, Holding

\* A step of _compute that leaves the caller at work in it, or about to put.
LEMMA ComputeStep ==
    ASSUME IInv, NEW c \in Callers, NEW s, s = callers[c], s.phase \in {"compute", "wait"},
           NEW n \in CallerStates, Become(c, n), n.phase \in {"wait", "save"},
           n.key = s.key, n.lock = s.lock, n.fixpoint = FALSE,
           n.phase = "save" => /\ n.value \in Rewrites \cup {s.key}
                               /\ <<s.key, n.value>> \in accepted'
                               /\ <<n.value, n.value>> \in accepted',
           accepted \subseteq accepted', accepted' \subseteq Systems \X Systems,
           UNCHANGED <<guided, cache, rejects, locks, failed, rewritten>>,
           slots' \in Nat, abandoned' \in Nat, finishing' \in Nat, SlotsConserved'
    PROVE  IInv'
<1>1. /\ s \in CallerStates /\ s.key \in Prompts /\ s.key \in Systems /\ s.fixpoint = FALSE
      /\ s.lock # None /\ Working(s) /\ SameOK(s) /\ s.phase \in Holding
    BY ComputeFacts
<1>2. UNCHANGED <<mem, disk, keyLocks, failed, rejects>>
    BY DEF cache, locks
<1>3. VarsInv'
    BY <1>2 DEF IInv, VarsInv, locks
<1>4. StateOK(n) /\ Working(n) /\ n.phase \in Holding
    BY <1>1, CavemanRewriterAssumption DEF StateOK, Working, Holding
<1>5. Puts(n)'
    BY <1>1 DEF Puts, PutKey
<1>6. SameOK(n)'
    BY <1>1, <1>2, <1>4 DEF SameOK, Working
<1>7. Alone(c, n)
    BY <1>1, AloneKept DEF IInv
<1>8. failed \subseteq failed' /\ rejects' \subseteq failed'
    BY <1>2 DEF IInv, SameInv
<1>9. QED BY <1>1, <1>3, <1>4, <1>5, <1>6, <1>7, <1>8, QuietStep

LEMMA NoGuidanceStep == ASSUME IInv, NEW c \in Callers, NoGuidance(c) PROVE IInv'
<1>1. PICK s : s = callers[c]
    OBVIOUS
<1>2. s.phase = "compute"
    BY <1>1 DEF NoGuidance
<1>3. s \in CallerStates /\ s.key \in Prompts /\ s.key \in Systems /\ s.fixpoint = FALSE
    BY <1>1, <1>2, ComputeFacts
<1>4. PICK value \in Systems : value = s.key
    BY <1>3
<1>5. GotoWith(c, "save", value) /\ "save" \in Phases
    BY <1>1, <1>4 DEF NoGuidance, Phases
<1>6. PICK n \in CallerStates :
          /\ Become(c, n) /\ n.phase = "save" /\ n.key = callers[c].key
          /\ n.lock = callers[c].lock /\ n.value = value
          /\ n.fixpoint = callers[c].fixpoint
    BY <1>5, GotoWithRecord DEF IInv
<1>8. /\ Become(c, n) /\ n.phase = "save" /\ n.key = s.key /\ n.lock = s.lock
      /\ n.value = value /\ n.fixpoint = FALSE
    BY <1>1, <1>3, <1>6
<1>9. accepted' = accepted \cup {<<s.key, s.key>>}
    BY <1>1 DEF NoGuidance, Accept
<1>10. UNCHANGED <<guided, cache, rejects, locks, pool, failed, rewritten>>
    BY DEF NoGuidance
<1>11. SlotsConserved'
    BY <1>1, <1>2, <1>8, <1>10, SlotsFrame DEF IInv
<1>12. slots' \in Nat /\ abandoned' \in Nat /\ finishing' \in Nat
    BY <1>10 DEF pool, IInv, VarsInv
<1>13. accepted' \subseteq Systems \X Systems
    BY <1>3, <1>9 DEF IInv, VarsInv
<1>14. QED BY <1>1, <1>2, <1>3, <1>4, <1>8, <1>9, <1>10, <1>11, <1>12, <1>13, ComputeStep

LEMMA SubmitStep == ASSUME IInv, NEW c \in Callers, Submit(c) PROVE IInv'
<1>1. PICK s : s = callers[c]
    OBVIOUS
<1>2. s.phase = "compute"
    BY <1>1 DEF Submit, At
<1>3. s \in CallerStates /\ s.fixpoint = FALSE
    BY <1>1, <1>2, ComputeFacts
<1>4. PICK n : n = [s EXCEPT !.phase = "wait"]
    OBVIOUS
<1>5. Become(c, n)
    BY <1>1, <1>4 DEF Submit, Goto
<1>6. /\ n \in CallerStates /\ n.phase = "wait" /\ n.key = s.key /\ n.lock = s.lock
      /\ n.fixpoint = FALSE
    BY <1>3, <1>4, Phased DEF Phases
<1>7. /\ slots > 0 /\ slots' = slots - 1
      /\ UNCHANGED <<guided, cache, rejects, locks, abandoned, finishing, failed, accepted, rewritten>>
    BY DEF Submit, history
<1>8. SlotsConserved'
    BY <1>1, <1>2, <1>5, <1>6, <1>7, SlotsEnter DEF IInv
<1>9. slots' \in Nat /\ abandoned' \in Nat /\ finishing' \in Nat /\ accepted' \subseteq Systems \X Systems
    BY <1>7 DEF IInv, VarsInv
<1>10. QED BY <1>1, <1>2, <1>5, <1>6, <1>7, <1>8, <1>9, ComputeStep

LEMMA ValidReplyStep == ASSUME IInv, NEW c \in Callers, ValidReply(c) PROVE IInv'
<1>1. PICK s : s = callers[c]
    OBVIOUS
<1>2. s.phase = "wait"
    BY <1>1 DEF ValidReply, At
<1>3. s \in CallerStates /\ s.key \in Prompts /\ s.key \in Systems /\ s.fixpoint = FALSE
    BY <1>1, <1>2, ComputeFacts
<1>4. PICK value \in Rewrites \cup {s.key} :
          GotoWith(c, "save", value) /\ Accept({s.key, value}, value)
    BY <1>1 DEF ValidReply
<1>5. value \in Systems
    BY <1>3 DEF Systems
<1>6. "save" \in Phases
    BY DEF Phases
<1>7. PICK n \in CallerStates :
          /\ Become(c, n) /\ n.phase = "save" /\ n.key = callers[c].key
          /\ n.lock = callers[c].lock /\ n.value = value
          /\ n.fixpoint = callers[c].fixpoint
    BY <1>4, <1>5, <1>6, GotoWithRecord DEF IInv
<1>8. /\ Become(c, n) /\ n.phase = "save" /\ n.key = s.key /\ n.lock = s.lock
      /\ n.value = value /\ n.fixpoint = FALSE
    BY <1>1, <1>3, <1>7
<1>9. accepted' = accepted \cup {<<s.key, value>>, <<value, value>>}
    BY <1>4 DEF Accept
<1>10. /\ finishing' = finishing + 1 /\ UNCHANGED <<slots, abandoned>>
       /\ UNCHANGED <<guided, cache, rejects, locks, failed, rewritten>>
    BY DEF ValidReply, Returned
<1>11. SlotsConserved'
    BY <1>1, <1>2, <1>8, <1>10, SlotsLeave DEF IInv
<1>12. slots' \in Nat /\ abandoned' \in Nat /\ finishing' \in Nat
    BY <1>10 DEF IInv, VarsInv
<1>13. accepted' \subseteq Systems \X Systems
    BY <1>3, <1>5, <1>9 DEF IInv, VarsInv
<1>14. QED BY <1>1, <1>2, <1>4, <1>8, <1>9, <1>10, <1>11, <1>12, <1>13, ComputeStep

\* The lock is released with nothing cached, and the key is remembered as failed.
LEMMA GiveUpRecord ==
    ASSUME IInv, NEW c \in Callers, callers[c].phase \in {"compute", "wait"}, GiveUp(c)
    PROVE  \E n \in CallerStates :
              /\ Become(c, n) /\ n.phase = "release" /\ n.key = callers[c].key
              /\ n.lock = callers[c].lock /\ n.fixpoint = FALSE
<1>1. Goto(c, "release") /\ "release" \in Phases
    BY DEF GiveUp, Phases
<1>2. callers[c].fixpoint = FALSE
    BY ComputeFacts
<1>3. QED BY <1>1, <1>2, GotoRecord DEF IInv

LEMMA GiveUpStep ==
    ASSUME IInv, NEW c \in Callers, NEW s, s = callers[c], s.phase \in {"compute", "wait"},
           failed' = failed \cup {s.key}, NEW n \in CallerStates, Become(c, n),
           n.phase = "release", n.key = s.key, n.lock = s.lock, n.fixpoint = FALSE,
           rejects' \subseteq rejects \cup {s.key},
           UNCHANGED <<guided, cache, locks, accepted, rewritten>>,
           slots' \in Nat, abandoned' \in Nat, finishing' \in Nat, SlotsConserved'
    PROVE  IInv'
<1>1. /\ s \in CallerStates /\ s.key \in Prompts /\ s.key \in Systems /\ s.fixpoint = FALSE
      /\ s.lock # None /\ Working(s) /\ SameOK(s) /\ s.phase \in Holding
    BY ComputeFacts
<1>2. VarsInv'
    BY <1>1 DEF IInv, VarsInv, cache, locks
<1>3. StateOK(n) /\ ~Working(n) /\ n.phase \in Holding
    BY <1>1, CavemanRewriterAssumption DEF StateOK, Working, Holding
<1>4. Puts(n)' /\ SameOK(n)' /\ Alone(c, n)
    BY <1>3 DEF Puts, SameOK, Alone
<1>5. failed \subseteq failed' /\ rejects' \subseteq failed'
    BY DEF IInv, SameInv
<1>6. QED BY <1>1, <1>2, <1>3, <1>4, <1>5, QuietStep

LEMMA NotSubmittedStep == ASSUME IInv, NEW c \in Callers, NotSubmitted(c) PROVE IInv'
<1>1. PICK s : s = callers[c]
    OBVIOUS
<1>2. /\ s.phase = "compute" /\ GiveUp(c)
      /\ UNCHANGED <<guided, cache, rejects, locks, pool, accepted, rewritten>>
    BY <1>1 DEF NotSubmitted, At
<1>3. failed' = failed \cup {s.key} /\ callers[c].phase \in {"compute", "wait"}
    BY <1>1, <1>2 DEF GiveUp
<1>4. PICK n \in CallerStates :
            /\ Become(c, n) /\ n.phase = "release" /\ n.key = callers[c].key
            /\ n.lock = callers[c].lock /\ n.fixpoint = FALSE
    BY <1>2, <1>3, GiveUpRecord
<1>5. SlotsConserved'
    BY <1>1, <1>2, <1>4, SlotsFrame DEF IInv
<1>6. slots' \in Nat /\ abandoned' \in Nat /\ finishing' \in Nat
    BY <1>2 DEF pool, IInv, VarsInv
<1>7. QED BY <1>1, <1>2, <1>3, <1>4, <1>5, <1>6, GiveUpStep

\* The three ways a caller that waits for the model gives up.
LEMMA WaitOverStep ==
    ASSUME IInv, NEW c \in Callers, At(c, "wait"), GiveUp(c),
           rejects' \subseteq rejects \cup {callers[c].key},
           UNCHANGED <<guided, cache, locks, slots, accepted, rewritten>>,
           \/ finishing' = finishing + 1 /\ UNCHANGED abandoned
           \/ abandoned' = abandoned + 1 /\ UNCHANGED finishing
    PROVE  IInv'
<1>1. PICK s : s = callers[c]
    OBVIOUS
<1>2. s.phase = "wait" /\ s.phase \in {"compute", "wait"} /\ rejects' \subseteq rejects \cup {s.key}
    BY <1>1 DEF At
<1>3. failed' = failed \cup {s.key} /\ callers[c].phase \in {"compute", "wait"}
    BY <1>1, <1>2 DEF GiveUp
<1>4. PICK n \in CallerStates :
            /\ Become(c, n) /\ n.phase = "release" /\ n.key = callers[c].key
            /\ n.lock = callers[c].lock /\ n.fixpoint = FALSE
    BY <1>2, <1>3, GiveUpRecord
<1>5. SlotsConserved'
    BY <1>1, <1>2, <1>4, SlotsLeave DEF IInv
<1>6. slots' \in Nat /\ abandoned' \in Nat /\ finishing' \in Nat
    BY DEF IInv, VarsInv
<1>7. QED BY <1>1, <1>2, <1>3, <1>4, <1>5, <1>6, GiveUpStep

LEMMA GaveUpStep ==
    ASSUME IInv, NEW c \in Callers, InvalidReply(c) \/ CallError(c) \/ CallTimeout(c)
    PROVE  IInv'
<1>1. CASE InvalidReply(c)
    BY <1>1, WaitOverStep DEF InvalidReply, Returned
<1>2. CASE CallError(c)
    BY <1>2, WaitOverStep DEF CallError, Returned
<1>3. CASE CallTimeout(c)
    BY <1>3, WaitOverStep DEF CallTimeout
<1>4. QED BY <1>1, <1>2, <1>3

LEMMA PoolStep == ASSUME IInv, AbandonedReturns \/ SlotRelease PROVE IInv'
<1>1. UNCHANGED <<guided, mem, disk, rejects, keyLocks, holder, callers, failed, accepted, rewritten>>
    BY DEF AbandonedReturns, SlotRelease, cache, locks, history
<1>2. slots \in Nat /\ abandoned \in Nat /\ finishing \in Nat /\ Cardinality(Waiting) \in Nat
    BY WaitingFinite DEF IInv, VarsInv
<1>3. /\ slots' \in Nat /\ abandoned' \in Nat /\ finishing' \in Nat
      /\ slots' + abandoned' + finishing' = slots + abandoned + finishing
    BY <1>2 DEF AbandonedReturns, SlotRelease
<1>4. Waiting' = Waiting
    BY <1>1 DEF Waiting, At
<1>5. SlotsConserved'
    BY <1>3, <1>4 DEF IInv, SlotsConserved, Waiting
<1>6. VarsInv' /\ CallersInv'
    BY <1>1, <1>3 DEF IInv, VarsInv, CallersInv
<1>7. LockInv' /\ AcceptedInv'
    BY <1>1 DEF IInv, LockInv, AcceptedInv, CacheHoldsAccepted, Puts, PutKey
<1>8. SameInv'
    BY <1>1 DEF IInv, SameInv, SameOK, Working
<1>9. QED BY <1>5, <1>6, <1>7, <1>8 DEF IInv

-----------------------------------------------------------------------------
(***************************************************************************)
(* The locks.                                                              *)
(***************************************************************************)

\* There are as many locks as callers, so one without a lock finds a free one; the
\* key of a lock keeps no other alive, since its callers do.
LEMMA NewLockIsNew ==
    ASSUME VarsInv, CallersInv, LockInv, NEW c \in Callers, callers[c].lock = None
    PROVE  /\ NewLock \in LockIds
           /\ \A d \in Callers : callers[d].lock # NewLock
           /\ \A p \in Prompts : keyLocks[p] # NewLock
<1> DEFINE n == Cardinality(Callers)
<1>1. n \in Nat /\ n > 0 /\ IsFiniteSet(Callers)
    BY CavemanRewriterAssumption, FS_CardinalityType, FS_EmptySet
<1>2. IsFiniteSet(Callers \ {c}) /\ Cardinality(Callers \ {c}) = n - 1
    BY <1>1, FS_RemoveElement
<1>3. IsFiniteSet(LockIds) /\ Cardinality(LockIds) = n
    <2>1. IsFiniteSet(1..n) /\ Cardinality(1..n) = IF 1 > n THEN 0 ELSE n - 1 + 1
        BY <1>1, FS_Interval
    <2>2. QED BY <1>1, <2>1 DEF LockIds
<1>4. \E l \in LockIds : \A d \in Callers : callers[d].lock # l
    <2>1. SUFFICES ASSUME \A l \in LockIds : \E d \in Callers : callers[d].lock = l
                   PROVE  FALSE
        OBVIOUS
    <2> DEFINE owner == [l \in LockIds |-> CHOOSE d \in Callers : callers[d].lock = l]
    <2>2. \A l \in LockIds : owner[l] \in Callers /\ callers[owner[l]].lock = l
        BY <2>1
    <2>3. owner \in [LockIds -> Callers \ {c}]
        BY <2>2, LockIdsType
    <2> HIDE DEF owner, n
    <2>4. Cardinality(Callers \ {c}) < Cardinality(LockIds)
        BY <1>1, <1>2, <1>3
    <2>5. \E x, y \in LockIds : x # y /\ owner[x] = owner[y]
        BY <1>2, <1>3, <2>3, <2>4, FS_PigeonHole
    <2>6. QED BY <2>2, <2>5
<1>5. PICK l \in LockIds : \A d \in Callers : callers[d].lock # l
    BY <1>4
<1>6. \A p \in Prompts : keyLocks[p] # l
    BY <1>5, LockIdsType DEF LockInv
<1>7. QED BY <1>5, <1>6 DEF NewLock

\* A step that only deals with locks.
LEMMA LockStep ==
    ASSUME IInv, NEW c \in Callers, NEW n \in CallerStates, Become(c, n), StateOK(n),
           UNCHANGED <<guided, cache, rejects, pool, history>>,
           keyLocks' \in [Prompts -> LockIds \cup {None}], holder' \in [LockIds -> Callers \cup {None}],
           LockInv', callers[c].phase # "wait", n.phase # "wait",
           Puts(n), ~Working(n), SameOK(n)',
           \A d \in Callers \ {c} : SameOK(callers[d])'
    PROVE  IInv'
<1>1. UNCHANGED <<guided, mem, disk, rejects, slots, abandoned, finishing, failed, accepted, rewritten>>
    BY DEF cache, pool, history
<1>2. VarsInv' /\ CallersInv' /\ SlotsConserved'
    BY <1>1, CallersFrame, SlotsFrame DEF IInv, VarsInv
<1>3. Puts(n)'
    BY <1>1 DEF Puts, PutKey
<1>4. AcceptedInv'
    BY <1>1, <1>3, AcceptFrame DEF IInv
<1>5. \A d \in Callers : SameOK(callers[d])'
    BY Become1 DEF IInv
<1>6. \A d \in Callers : Working(callers'[d]) => d # c /\ callers'[d] = callers[d]
    BY Become1 DEF IInv
<1>7. SameInv'
    BY <1>1, <1>5, <1>6 DEF IInv, SameInv, Working
<1>8. QED BY <1>2, <1>4, <1>7 DEF IInv

\* An unchanged caller of a step that leaves keyLocks alone at its key.
LEMMA SameKept ==
    ASSUME IInv, NEW c \in Callers, NEW n, Become(c, n), NEW d \in Callers, d # c,
           UNCHANGED <<mem, disk, failed>>,
           callers[d].phase # "idle" /\ callers[d].lock # None /\ mem[callers[d].key] = None
             /\ callers[d].key \notin failed
                => keyLocks'[callers[d].key] = keyLocks[callers[d].key]
    PROVE  SameOK(callers[d])'
<1>1. callers'[d] = callers[d] /\ SameOK(callers[d])
    BY Become1 DEF IInv, SameInv
<1>2. QED BY <1>1 DEF SameOK, Working

LEMMA AcquireStep == ASSUME IInv, NEW c \in Callers, Acquire(c) PROVE IInv'
<1>1. PICK s : s = callers[c]
    OBVIOUS
<1>2. CallersInv /\ LockInv /\ s.phase = "acquire"
    BY <1>1 DEF IInv, Acquire, At
<1>3. s.key \in Prompts /\ s.fixpoint = FALSE /\ s.lock # None /\ s.lock \in LockIds /\ StateOK(s)
    BY <1>1, <1>2, CallerFacts
<1>4. SameOK(s)
    BY <1>1 DEF IInv, SameInv
<1>5. "memory" \in Phases /\ Goto(c, "memory")
    BY DEF Acquire, Phases
<1>6. PICK n \in CallerStates :
          /\ Become(c, n) /\ n.phase = "memory" /\ n.key = callers[c].key
          /\ n.lock = callers[c].lock /\ n.value = callers[c].value
          /\ n.fixpoint = callers[c].fixpoint
    BY <1>2, <1>5, GotoRecord
<1>7. /\ holder[s.lock] = None /\ holder' = [holder EXCEPT ![s.lock] = c]
      /\ UNCHANGED <<guided, cache, rejects, keyLocks, pool, history>>
    BY <1>1 DEF Acquire
<1>8. holder \in [LockIds -> Callers \cup {None}] /\ holder' \in [LockIds -> Callers \cup {None}]
    BY <1>7 DEF IInv, VarsInv
<1>9. StateOK(n) /\ Puts(n) /\ ~Working(n)
    BY <1>1, <1>3, <1>6, CavemanRewriterAssumption DEF StateOK, Puts, Working
<1>10. \A d \in Callers : d # c => callers'[d] = callers[d]
    BY <1>2, <1>6, Become1
<1>11. callers'[c] = n
    BY <1>2, <1>6, Become1
<1>12. LockInv'
    <2>1. \A d \in Callers : callers'[d].lock = callers[d].lock /\ callers'[d].key = callers[d].key
        BY <1>6, <1>10, <1>11
    <2>2. ASSUME NEW l \in LockIds, NEW d \in Callers
          PROVE  holder'[l] = d <=> callers'[d].lock = l /\ callers'[d].phase \in Holding
        <3>1. CASE l = s.lock /\ d = c
            BY <1>1, <1>6, <1>7, <1>8, <1>11, <3>1 DEF Holding
        <3>2. CASE l = s.lock /\ d # c
            BY <1>2, <1>7, <1>8, <1>10, <3>2, CavemanRewriterAssumption DEF LockInv
        <3>3. CASE l # s.lock /\ d = c
            BY <1>1, <1>2, <1>6, <1>7, <1>8, <1>11, <3>3 DEF LockInv
        <3>4. CASE l # s.lock /\ d # c
            BY <1>2, <1>7, <1>8, <1>10, <3>4 DEF LockInv
        <3>5. QED BY <3>1, <3>2, <3>3, <3>4
    <2>3. keyLocks' = keyLocks
        BY <1>7
    <2>4. QED BY <1>2, <2>1, <2>2, <2>3 DEF LockInv
<1>13. UNCHANGED <<mem, disk, failed, keyLocks>>
    BY <1>7 DEF cache, history
<1>14. SameOK(n)'
    BY <1>1, <1>2, <1>4, <1>6, <1>9, <1>13 DEF SameOK, Working
<1>15. \A d \in Callers \ {c} : SameOK(callers[d])'
    BY <1>6, <1>13, SameKept
<1>16. keyLocks' \in [Prompts -> LockIds \cup {None}]
    BY <1>13 DEF IInv, VarsInv
<1>17. QED BY <1>1, <1>2, <1>6, <1>7, <1>8, <1>9, <1>12, <1>14, <1>15, <1>16, LockStep

\* One caller's time is up: another one holds the lock, and will drop it.
LEMMA AcquireTimeoutStep == ASSUME IInv, NEW c \in Callers, AcquireTimeout(c) PROVE IInv'
<1>1. PICK s : s = callers[c]
    OBVIOUS
<1>2. CallersInv /\ LockInv /\ VarsInv /\ s.phase = "acquire"
    BY <1>1 DEF IInv, AcquireTimeout, At
<1>3. s.lock # None /\ s.lock \in LockIds
    BY <1>1, <1>2, CallerFacts
<1>4. /\ Become(c, Idle) /\ holder[s.lock] # None
      /\ UNCHANGED <<guided, cache, rejects, locks, pool, history>>
    BY <1>1 DEF AcquireTimeout
<1>5. PICK h \in Callers : holder[s.lock] = h
    BY <1>2, <1>3, <1>4 DEF VarsInv
<1>6. h # c /\ callers[h].lock = s.lock
    BY <1>1, <1>2, <1>3, <1>5 DEF LockInv, Holding
<1>7. /\ callers'[c] = Idle /\ \A d \in Callers : d # c => callers'[d] = callers[d]
    BY <1>2, <1>4, Become1
<1>8. UNCHANGED <<keyLocks, holder, mem, disk, failed>>
    BY <1>4 DEF locks, cache, history
<1>9. LockInv'
    <2>1. \A d \in Callers : callers'[d].lock # None =>
             d # c /\ callers'[d] = callers[d]
        BY <1>7, IdleRecord
    <2>2. ASSUME NEW l \in LockIds, NEW d \in Callers
          PROVE  holder'[l] = d <=> callers'[d].lock = l /\ callers'[d].phase \in Holding
        <3>1. CASE d = c
            <4>1. holder[l] # c
                BY <1>1, <1>2 DEF LockInv, Holding
            <4>2. QED BY <1>7, <1>8, <3>1, <4>1, IdleRecord DEF Holding
        <3>2. CASE d # c
            BY <1>2, <1>7, <1>8, <3>2 DEF LockInv
        <3>3. QED BY <3>1, <3>2
    <2>3. \A d, e \in Callers :
              callers'[d].lock # None /\ callers'[d].lock = callers'[e].lock
                  => callers'[d].key = callers'[e].key
        BY <1>2, <2>1 DEF LockInv
    <2>4. ASSUME NEW p \in Prompts, keyLocks'[p] # None
          PROVE  /\ \E d \in Callers : callers'[d].lock = keyLocks'[p]
                 /\ \A d \in Callers : callers'[d].lock = keyLocks'[p] => callers'[d].key = p
        <3>1. keyLocks[p] # None /\ keyLocks'[p] = keyLocks[p]
            BY <1>8, <2>4
        <3>2. PICK d \in Callers : callers[d].lock = keyLocks[p]
            BY <1>2, <3>1 DEF LockInv
        <3>3. \E e \in Callers : e # c /\ callers[e].lock = keyLocks[p]
            BY <1>1, <1>6, <3>2
        <3>4. \A e \in Callers : callers'[e].lock = keyLocks[p] => callers'[e].key = p
            BY <1>2, <2>1, <3>1 DEF LockInv
        <3>5. QED BY <1>7, <3>1, <3>3, <3>4
    <2>5. QED BY <2>2, <2>3, <2>4 DEF LockInv
<1>10. SameOK(Idle)'
    BY IdleRecord DEF SameOK
<1>11. \A d \in Callers \ {c} : SameOK(callers[d])'
    BY <1>4, <1>8, SameKept
<1>12. /\ keyLocks' \in [Prompts -> LockIds \cup {None}]
       /\ holder' \in [LockIds -> Callers \cup {None}]
    BY <1>2, <1>8 DEF VarsInv
<1>13. QED BY <1>1, <1>2, <1>4, <1>9, <1>10, <1>11, <1>12, IdleRecord, IdleOK, LockStep

LEMMA SetDefaultLockStep == ASSUME IInv, NEW c \in Callers, SetDefaultLock(c) PROVE IInv'
<1>1. PICK s : s = callers[c]
    OBVIOUS
<1>2. CallersInv /\ LockInv /\ VarsInv /\ s.phase = "setdefault"
    BY <1>1 DEF IInv, SetDefaultLock
<1>3. s \in CallerStates /\ s.key \in Prompts /\ s.fixpoint = FALSE /\ StateOK(s) /\ s.lock = None
    <2>1. s \in CallerStates /\ s.key \in Prompts /\ s.fixpoint = FALSE /\ StateOK(s)
        BY <1>1, <1>2, CallerFacts
    <2>2. QED BY <1>2, <2>1 DEF StateOK
<1>4. PICK lock : lock = IF keyLocks[s.key] = None THEN NewLock ELSE keyLocks[s.key]
    OBVIOUS
<1>5. /\ keyLocks' = [keyLocks EXCEPT ![s.key] = lock]
      /\ Become(c, [s EXCEPT !.phase = "acquire", !.lock = lock])
      /\ UNCHANGED <<guided, cache, rejects, holder, pool, history>>
    BY <1>1, <1>4 DEF SetDefaultLock
<1>6. lock \in LockIds /\ lock # None
    BY <1>1, <1>2, <1>3, <1>4, NewLockIsNew, LockIdsType DEF VarsInv
<1>7. \* The lock is the key's, or nobody's.
      /\ \A d \in Callers : callers[d].lock = lock => callers[d].key = s.key
      /\ \A p \in Prompts : keyLocks[p] = lock => p = s.key
    <2>1. CASE keyLocks[s.key] = None
        BY <1>1, <1>2, <1>3, <1>4, <2>1, NewLockIsNew
    <2>2. CASE keyLocks[s.key] # None
        BY <1>2, <1>3, <1>4, <2>2 DEF LockInv
    <2>3. QED BY <2>1, <2>2
<1>8. PICK n : n = [s EXCEPT !.phase = "acquire", !.lock = lock]
    OBVIOUS
<1>9. /\ n \in CallerStates /\ n.phase = "acquire" /\ n.key = s.key /\ n.lock = lock
      /\ n.fixpoint = FALSE
    BY <1>3, <1>6, <1>8 DEF CallerStates, Phases
<1>10. Become(c, n)
    BY <1>5, <1>8
<1>11. callers'[c] = n /\ \A d \in Callers : d # c => callers'[d] = callers[d]
    BY <1>2, <1>10, Become1
<1>12. StateOK(n) /\ Puts(n) /\ ~Working(n)
    BY <1>3, <1>6, <1>9, CavemanRewriterAssumption DEF StateOK, Puts, Working
<1>13. /\ keyLocks'[s.key] = lock
       /\ \A p \in Prompts : p # s.key => keyLocks'[p] = keyLocks[p]
       /\ keyLocks' \in [Prompts -> LockIds \cup {None}]
    BY <1>2, <1>3, <1>5, <1>6 DEF VarsInv
<1>14. holder' = holder /\ UNCHANGED <<mem, disk, failed>>
    BY <1>5 DEF cache, history
<1>15. LockInv'
    <2>1. ASSUME NEW l \in LockIds, NEW d \in Callers
          PROVE  holder'[l] = d <=> callers'[d].lock = l /\ callers'[d].phase \in Holding
        <3>1. CASE d = c
            <4>1. holder[l] # c
                BY <1>1, <1>2, <1>3, LockIdsType DEF LockInv
            <4>2. QED BY <1>9, <1>11, <1>14, <3>1, <4>1 DEF Holding
        <3>2. CASE d # c
            BY <1>2, <1>11, <1>14, <3>2 DEF LockInv
        <3>3. QED BY <3>1, <3>2
    <2>2. ASSUME NEW d \in Callers, NEW e \in Callers,
                 callers'[d].lock # None, callers'[d].lock = callers'[e].lock
          PROVE  callers'[d].key = callers'[e].key
        <3>1. CASE d = c \/ e = c
            BY <1>7, <1>9, <1>11, <2>2, <3>1
        <3>2. CASE d # c /\ e # c
            BY <1>2, <1>11, <2>2, <3>2 DEF LockInv
        <3>3. QED BY <3>1, <3>2
    <2>3. ASSUME NEW p \in Prompts, keyLocks'[p] # None
          PROVE  /\ \E d \in Callers : callers'[d].lock = keyLocks'[p]
                 /\ \A d \in Callers : callers'[d].lock = keyLocks'[p] => callers'[d].key = p
        <3>1. CASE p = s.key
            BY <1>7, <1>9, <1>11, <1>13, <3>1
        <3>2. CASE p # s.key
            <4>1. keyLocks'[p] = keyLocks[p] /\ keyLocks[p] # None /\ keyLocks[p] # lock
                BY <1>7, <1>13, <2>3, <3>2
            <4>2. PICK d \in Callers : callers[d].lock = keyLocks[p]
                BY <1>2, <4>1 DEF LockInv
            <4>3. d # c
                BY <1>1, <1>3, <4>1, <4>2
            <4>4. \A e \in Callers : callers'[e].lock = keyLocks[p] => callers'[e].key = p
                BY <1>2, <1>9, <1>11, <4>1 DEF LockInv
            <4>5. QED BY <1>11, <4>1, <4>2, <4>3, <4>4
        <3>3. QED BY <3>1, <3>2
    <2>4. QED BY <2>1, <2>2, <2>3 DEF LockInv
<1>16. SameOK(n)'
    BY <1>9, <1>12, <1>13 DEF SameOK, Working
<1>17. ASSUME NEW d \in Callers \ {c} PROVE SameOK(callers[d])'
    <2>1. SameOK(callers[d])
        BY DEF IInv, SameInv
    <2>2. ASSUME callers[d].phase # "idle", callers[d].lock # None, mem[callers[d].key] = None,
                 callers[d].key \notin failed
          PROVE  keyLocks'[callers[d].key] = keyLocks[callers[d].key]
        <3>1. callers[d].lock = keyLocks[callers[d].key]
            BY <2>1, <2>2 DEF SameOK
        <3>2. callers[d].key \in Prompts
            BY <1>2, <2>2, CallerFacts
        <3>3. CASE callers[d].key = s.key
            BY <1>4, <1>13, <2>2, <3>1, <3>3
        <3>4. CASE callers[d].key # s.key
            BY <1>13, <3>2, <3>4
        <3>5. QED BY <3>3, <3>4
    <2>3. QED BY <1>10, <1>14, <2>2, SameKept
<1>18. holder' \in [LockIds -> Callers \cup {None}]
    BY <1>2, <1>14 DEF VarsInv
<1>19. QED BY <1>1, <1>2, <1>5, <1>9, <1>10, <1>12, <1>13, <1>15, <1>16, <1>17, <1>18, LockStep

LEMMA ReleaseStep == ASSUME IInv, NEW c \in Callers, Release(c) PROVE IInv'
<1>1. PICK s : s = callers[c]
    OBVIOUS
<1>2. CallersInv /\ LockInv /\ VarsInv /\ s.phase = "release"
    BY <1>1 DEF IInv, Release, At
<1>3. s.key \in Prompts /\ s.lock # None /\ s.lock \in LockIds /\ StateOK(s)
    BY <1>1, <1>2, CallerFacts
<1>4. SameOK(s)
    BY <1>1 DEF IInv, SameInv
<1>5. "cleanup" \in Phases /\ Goto(c, "cleanup")
    BY DEF Release, Phases
<1>6. PICK n \in CallerStates :
          /\ Become(c, n) /\ n.phase = "cleanup" /\ n.key = callers[c].key
          /\ n.lock = callers[c].lock /\ n.value = callers[c].value
          /\ n.fixpoint = callers[c].fixpoint
    BY <1>2, <1>5, GotoRecord
<1>7. /\ holder' = [holder EXCEPT ![s.lock] = None]
      /\ UNCHANGED <<guided, cache, rejects, keyLocks, pool, history>>
    BY <1>1 DEF Release
<1>8. holder \in [LockIds -> Callers \cup {None}] /\ holder' \in [LockIds -> Callers \cup {None}]
    BY <1>2, <1>7 DEF VarsInv
<1>9. StateOK(n) /\ Puts(n) /\ ~Working(n)
    BY <1>1, <1>2, <1>3, <1>6, CavemanRewriterAssumption DEF StateOK, Puts, Working
<1>10. callers'[c] = n /\ \A d \in Callers : d # c => callers'[d] = callers[d]
    BY <1>2, <1>6, Become1
<1>11. LockInv'
    <2>1. \A d \in Callers : callers'[d].lock = callers[d].lock /\ callers'[d].key = callers[d].key
        BY <1>6, <1>10
    <2>2. holder[s.lock] = c
        BY <1>1, <1>2, <1>3 DEF LockInv, Holding
    <2>3. ASSUME NEW l \in LockIds, NEW d \in Callers
          PROVE  holder'[l] = d <=> callers'[d].lock = l /\ callers'[d].phase \in Holding
        <3>1. CASE d = c
            <4>1. holder'[l] # c
                BY <1>1, <1>2, <1>7, <1>8, CavemanRewriterAssumption DEF LockInv
            <4>2. QED BY <1>6, <1>10, <3>1, <4>1 DEF Holding
        <3>2. CASE l = s.lock /\ d # c
            BY <1>2, <1>7, <1>8, <1>10, <2>2, <3>2, CavemanRewriterAssumption DEF LockInv
        <3>3. CASE l # s.lock /\ d # c
            BY <1>2, <1>7, <1>8, <1>10, <3>3 DEF LockInv
        <3>4. QED BY <3>1, <3>2, <3>3
    <2>4. keyLocks' = keyLocks
        BY <1>7
    <2>5. QED BY <1>2, <2>1, <2>3, <2>4 DEF LockInv
<1>12. UNCHANGED <<mem, disk, failed, keyLocks>>
    BY <1>7 DEF cache, history
<1>13. SameOK(n)'
    BY <1>1, <1>2, <1>3, <1>4, <1>6, <1>9, <1>12 DEF SameOK, Working
<1>14. \A d \in Callers \ {c} : SameOK(callers[d])'
    BY <1>6, <1>12, SameKept
<1>15. keyLocks' \in [Prompts -> LockIds \cup {None}]
    BY <1>2, <1>12 DEF VarsInv
<1>16. QED BY <1>1, <1>2, <1>6, <1>7, <1>8, <1>9, <1>11, <1>13, <1>14, <1>15, LockStep

\* The key's lock goes when nobody holds it: the caller leaves the map with a lock
\* only if another caller has it.
LEMMA CleanupStep == ASSUME IInv, NEW c \in Callers, Cleanup(c) PROVE IInv'
<1>1. PICK s : s = callers[c]
    OBVIOUS
<1>2. CallersInv /\ LockInv /\ VarsInv /\ s.phase = "cleanup"
    BY <1>1 DEF IInv, Cleanup
<1>3. s.key \in Prompts /\ s.lock # None /\ s.lock \in LockIds /\ StateOK(s)
    BY <1>1, <1>2, CallerFacts
<1>4. SameOK(s)
    BY <1>1 DEF IInv, SameInv
<1>5. PICK unused \in BOOLEAN : unused <=> keyLocks[s.key] = s.lock /\ holder[s.lock] = None
    OBVIOUS
<1>6. /\ Become(c, Idle) /\ UNCHANGED <<guided, cache, rejects, holder, pool, history>>
      /\ unused => keyLocks' = [keyLocks EXCEPT ![s.key] = None]
      /\ ~unused => keyLocks' = keyLocks
    BY <1>1, <1>5 DEF Cleanup
<1>7. callers'[c] = Idle /\ \A d \in Callers : d # c => callers'[d] = callers[d]
    BY <1>2, <1>6, Become1
<1>8. \A d \in Callers : callers'[d].lock # None => d # c /\ callers'[d] = callers[d]
    BY <1>7, IdleRecord
<1>9. /\ keyLocks' \in [Prompts -> LockIds \cup {None}]
      /\ \A p \in Prompts : keyLocks'[p] # None => keyLocks'[p] = keyLocks[p]
      /\ \A p \in Prompts : p # s.key => keyLocks'[p] = keyLocks[p]
      /\ keyLocks'[s.key] # None => ~unused
    BY <1>2, <1>3, <1>6 DEF VarsInv
<1>10. UNCHANGED <<holder, mem, disk, failed>>
    BY <1>6 DEF cache, history
<1>11. LockInv'
    <2>1. ASSUME NEW l \in LockIds, NEW d \in Callers
          PROVE  holder'[l] = d <=> callers'[d].lock = l /\ callers'[d].phase \in Holding
        <3>1. CASE d = c
            <4>1. holder[l] # c
                BY <1>1, <1>2 DEF LockInv, Holding
            <4>2. QED BY <1>7, <1>10, <3>1, <4>1, IdleRecord DEF Holding
        <3>2. CASE d # c
            BY <1>2, <1>7, <1>10, <3>2 DEF LockInv
        <3>3. QED BY <3>1, <3>2
    <2>2. \A d, e \in Callers :
              callers'[d].lock # None /\ callers'[d].lock = callers'[e].lock
                  => callers'[d].key = callers'[e].key
        BY <1>2, <1>8 DEF LockInv
    <2>3. ASSUME NEW p \in Prompts, keyLocks'[p] # None
          PROVE  /\ \E d \in Callers : callers'[d].lock = keyLocks'[p]
                 /\ \A d \in Callers : callers'[d].lock = keyLocks'[p] => callers'[d].key = p
        <3>1. keyLocks[p] # None /\ keyLocks'[p] = keyLocks[p]
            BY <1>9, <2>3
        <3>2. PICK d \in Callers : callers[d].lock = keyLocks[p]
            BY <1>2, <3>1 DEF LockInv
        <3>3. \E e \in Callers : e # c /\ callers[e].lock = keyLocks[p]
            <4>1. CASE s.lock # keyLocks[p]
                BY <1>1, <3>2, <4>1
            <4>2. CASE s.lock = keyLocks[p]
                <5>1. p = s.key
                    BY <1>1, <1>2, <3>1, <4>2 DEF LockInv
                <5>2. holder[s.lock] # None
                    BY <1>5, <1>9, <2>3, <4>2, <5>1
                <5>3. PICK h \in Callers : holder[s.lock] = h
                    BY <1>2, <1>3, <5>2 DEF VarsInv
                <5>4. h # c /\ callers[h].lock = s.lock
                    BY <1>1, <1>2, <1>3, <5>3 DEF LockInv, Holding
                <5>5. QED BY <4>2, <5>4
            <4>3. QED BY <4>1, <4>2
        <3>4. \A e \in Callers : callers'[e].lock = keyLocks[p] => callers'[e].key = p
            BY <1>2, <1>8, <3>1 DEF LockInv
        <3>5. QED BY <1>7, <3>1, <3>3, <3>4
    <2>4. QED BY <2>1, <2>2, <2>3 DEF LockInv
<1>12. SameOK(Idle)'
    BY IdleRecord DEF SameOK
<1>13. ASSUME NEW d \in Callers \ {c} PROVE SameOK(callers[d])'
    <2>1. mem[s.key] = None => s.key \in failed
        BY <1>2, <1>3, <1>4 DEF SameOK
    <2>2. ASSUME callers[d].phase # "idle", mem[callers[d].key] = None,
                 callers[d].key \notin failed
          PROVE  keyLocks'[callers[d].key] = keyLocks[callers[d].key]
        <3>1. callers[d].key \in Prompts
            BY <1>2, <2>2, CallerFacts
        <3>2. QED BY <1>9, <2>1, <2>2, <3>1
    <2>3. QED BY <1>6, <1>10, <2>2, SameKept
<1>14. holder' \in [LockIds -> Callers \cup {None}]
    BY <1>2, <1>10 DEF VarsInv
<1>15. QED BY <1>1, <1>2, <1>6, <1>9, <1>11, <1>12, <1>13, <1>14, IdleRecord, IdleOK, LockStep

-----------------------------------------------------------------------------
(***************************************************************************)
(* The cache.                                                              *)
(***************************************************************************)

\* A step that changes the cache at one key: what it must show there.
LEMMA PutStep ==
    ASSUME IInv, NEW c \in Callers, NEW n \in CallerStates, Become(c, n), StateOK(n),
           UNCHANGED <<guided, rejects, locks, pool, failed, accepted>>,
           n.lock = callers[c].lock,
           n.lock # None => n.key = callers[c].key /\ (n.phase \in Holding <=> callers[c].phase \in Holding),
           n.phase # "wait", callers[c].phase # "wait",
           mem' \in [Systems -> Systems \cup {None}], disk' \in [Systems -> Systems \cup {None}],
           rewritten' \subseteq Prompts \X Systems, CacheHoldsAccepted',
           Puts(n), SameOK(n)', Alone(c, n),
           NEW K, \A p \in Prompts : p # K => mem'[p] = mem[p] /\ disk'[p] = disk[p],
           \A d \in Callers \ {c} : callers[d].phase # "idle" /\ callers[d].key = K
                                       => SameOK(callers[d])',
           K \in Prompts \ failed => mem'[K] = None \/ disk'[K] = None \/ mem'[K] = disk'[K],
           \A r \in rewritten' : (r \notin rewritten \/ r[1] = K) /\ r[1] \notin failed
               => r[2] = mem'[r[1]] \/ r[2] = disk'[r[1]]
    PROVE  IInv'
<1>1. VarsInv'
    BY DEF IInv, VarsInv, locks, pool
<1>2. CallersInv' /\ SlotsConserved'
    BY CallersFrame, SlotsFrame DEF IInv
<1>3. LockInv'
    BY LockFrame, LockIdsType DEF IInv
<1>4. UNCHANGED <<keyLocks, failed, rejects, accepted>>
    BY DEF locks
<1>5. callers'[c] = n /\ \A d \in Callers : d # c => callers'[d] = callers[d]
    BY Become1 DEF IInv
<1>6. ASSUME NEW d \in Callers PROVE Puts(callers[d])'
    <2>1. Puts(callers[d])
        BY DEF IInv, AcceptedInv
    <2>2. QED BY <1>4, <1>5, <2>1 DEF Puts, PutKey
<1>7. AcceptedInv'
    BY <1>6 DEF AcceptedInv
<1>8. ASSUME NEW d \in Callers PROVE SameOK(callers[d])'
    <2>1. CASE d = c
        BY <1>5, <2>1
    <2>2. CASE d # c /\ callers[d].phase # "idle" /\ callers[d].key = K
        BY <2>2
    <2>3. CASE d # c /\ callers[d].phase = "idle"
        BY <1>5, <2>3 DEF SameOK
    <2>4. CASE d # c /\ callers[d].phase # "idle" /\ callers[d].key # K
        <3>1. callers[d].key \in Prompts
            BY <2>4, CallerFacts DEF IInv
        <3>2. SameOK(callers[d]) /\ callers'[d] = callers[d]
            BY <1>5, <2>4 DEF IInv, SameInv
        <3>3. mem'[callers[d].key] = mem[callers[d].key] /\ disk'[callers[d].key] = disk[callers[d].key]
            BY <2>4, <3>1
        <3>4. QED BY <1>4, <3>2, <3>3 DEF SameOK, Working
    <2>5. QED BY <2>1, <2>2, <2>3, <2>4
<1>9. ASSUME NEW d \in Callers, NEW e \in Callers,
             Working(callers'[d]), Working(callers'[e]), callers'[d].key = callers'[e].key,
             callers'[d].key \notin failed
      PROVE  d = e
    <2>1. CASE d # c /\ e # c
        BY <1>5, <1>9, <2>1 DEF IInv, SameInv
    <2>2. CASE d = c /\ e # c
        BY <1>5, <1>9, <2>2 DEF Alone
    <2>3. CASE d # c /\ e = c
        BY <1>5, <1>9, <2>3 DEF Alone
    <2>4. QED BY <2>1, <2>2, <2>3
<1>10. ASSUME NEW p \in Prompts \ failed
       PROVE  mem'[p] = None \/ disk'[p] = None \/ mem'[p] = disk'[p]
    BY <1>10 DEF IInv, SameInv
<1>11. ASSUME NEW r \in rewritten', r[1] \notin failed
       PROVE  r[2] = mem'[r[1]] \/ r[2] = disk'[r[1]]
    <2>1. CASE r \notin rewritten \/ r[1] = K
        BY <1>11, <2>1
    <2>2. CASE r \in rewritten /\ r[1] # K
        <3>1. r[1] \in Prompts
            BY <2>2 DEF IInv, VarsInv
        <3>2. r[2] = mem[r[1]] \/ r[2] = disk[r[1]]
            BY <1>11, <2>2 DEF IInv, SameInv
        <3>3. QED BY <2>2, <3>1, <3>2
    <2>3. QED BY <2>1, <2>2
<1>12. rejects' \subseteq failed'
    BY <1>4 DEF IInv, SameInv
<1>13. \A d, e \in Callers :
          Working(callers'[d]) /\ Working(callers'[e]) /\ callers'[d].key = callers'[e].key
              /\ callers'[d].key \notin failed' => d = e
    BY <1>4, <1>9
<1>14. SameInv'
    BY <1>4, <1>8, <1>10, <1>11, <1>12, <1>13 DEF SameInv, Working
<1>15. QED BY <1>1, <1>2, <1>3, <1>7, <1>14 DEF IInv

\* What others of a key can be doing while the file that a caller installs is there.
LEMMA InstallOthers ==
    ASSUME IInv, NEW c \in Callers, NEW s, s = callers[c], s.phase = "install",
           mem' = [mem EXCEPT ![s.key] = s.value], UNCHANGED <<disk, failed>>,
           NEW d \in Callers, callers'[d] = callers[d],
           callers[d].phase # "idle", callers[d].key = s.key
    PROVE  SameOK(callers[d])'
<1>1. s.key \in Prompts /\ s.key \in Systems /\ StateOK(s)
    BY CallerFacts DEF IInv
<1>2. SUFFICES ASSUME s.key \notin failed PROVE SameOK(callers[d])'
    BY DEF SameOK
<1>3. SameOK(s) /\ SameOK(callers[d])
    BY DEF IInv, SameInv
<1>4. s.value \in Systems /\ s.value # None /\ disk[s.key] = s.value
    BY <1>1, <1>2, <1>3, CavemanRewriterAssumption DEF StateOK, SameOK, Systems
<1>5. mem'[s.key] = s.value
    BY <1>1 DEF IInv, VarsInv
<1>6. mem[s.key] = None \/ mem[s.key] = s.value
    BY <1>1, <1>2, <1>4 DEF IInv, SameInv
<1>7. ~Working(callers[d])
    BY <1>2, <1>3, <1>4 DEF SameOK
<1>8. callers[d].fixpoint => callers[d].value = s.value
    <2>1. SUFFICES ASSUME callers[d].fixpoint PROVE callers[d].value = s.value
        OBVIOUS
    <2>2. callers[d].value \in Rewrites
        BY <2>1 DEF IInv, CallersInv, StateOK
    <2>3. mem[s.key] = callers[d].value
        BY <1>2, <1>3, <2>1 DEF SameOK
    <2>4. QED BY <1>6, <2>2, <2>3, CavemanRewriterAssumption
<1>9. QED BY <1>2, <1>3, <1>4, <1>5, <1>7, <1>8 DEF SameOK, Working

LEMMA InstallStep == ASSUME IInv, NEW c \in Callers, Install(c) PROVE IInv'
<1>1. PICK s : s = callers[c]
    OBVIOUS
<1>2. CallersInv /\ VarsInv /\ s.phase = "install"
    BY <1>1 DEF IInv, Install
<1>3. /\ s \in CallerStates /\ StateOK(s) /\ s.key \in Prompts /\ s.key \in Systems
      /\ s.fixpoint = FALSE
    BY <1>1, <1>2, CallerFacts
<1>4. SameOK(s) /\ <<s.key, s.value>> \in accepted
    BY <1>1, <1>2 DEF IInv, SameInv, AcceptedInv, Puts
<1>5. s.value \in Systems /\ s.value # None
    BY <1>2, <1>3, CavemanRewriterAssumption DEF StateOK, Systems
<1>6. /\ Leave(c) /\ mem' = [mem EXCEPT ![s.key] = s.value]
      /\ rewritten' = rewritten \cup {<<s.key, s.value>>}
      /\ UNCHANGED <<guided, disk, rejects, locks, pool, failed, accepted>>
    BY <1>1 DEF Install, Tell
<1>7. PICK n \in CallerStates :
              /\ Become(c, n) /\ StateOK(n) /\ ~Working(n) /\ n.fixpoint = FALSE
              /\ n.lock = s.lock /\ n.phase \in {"idle", "release"}
              /\ n.phase = "release" => n.lock # None /\ n.key = s.key
              /\ n.lock # None => n.phase = "release" /\ n.key = s.key
    BY <1>1, <1>2, <1>6, LeaveRecord
<1>8. /\ mem' \in [Systems -> Systems \cup {None}] /\ mem'[s.key] = s.value
      /\ \A p \in Systems : p # s.key => mem'[p] = mem[p]
    BY <1>2, <1>3, <1>5, <1>6 DEF VarsInv
<1>9. disk' = disk /\ failed' = failed /\ disk' \in [Systems -> Systems \cup {None}]
    BY <1>2, <1>6 DEF VarsInv
<1>10. CacheHoldsAccepted'
    BY <1>4, <1>6, <1>8, <1>9 DEF IInv, AcceptedInv, CacheHoldsAccepted
<1>11. Puts(n) /\ Alone(c, n)
    BY <1>7 DEF Puts, Alone
<1>12. SameOK(n)'
    BY <1>5, <1>7, <1>8 DEF SameOK, Working
<1>13. ASSUME NEW d \in Callers \ {c}, callers[d].phase # "idle", callers[d].key = s.key
       PROVE  SameOK(callers[d])'
    <2>1. d \in Callers /\ callers'[d] = callers[d]
        BY <1>2, <1>7, Become1
    <2>2. mem' = [mem EXCEPT ![s.key] = s.value] /\ UNCHANGED <<disk, failed>>
        BY <1>6
    <2>3. s.phase = "install"
        BY <1>2
    <2>4. QED BY <1>1, <1>13, <2>1, <2>2, <2>3, InstallOthers
<1>14. s.key \notin failed => disk[s.key] = s.value
    BY <1>2, <1>4 DEF SameOK
<1>15. ASSUME NEW r \in rewritten', r \notin rewritten \/ r[1] = s.key, r[1] \notin failed
       PROVE  r[2] = mem'[r[1]] \/ r[2] = disk'[r[1]]
    <2>1. CASE r \in rewritten /\ r[1] = s.key
        <3>1. r[2] \in Systems /\ (r[2] = mem[s.key] \/ r[2] = disk[s.key])
            BY <1>15, <2>1 DEF IInv, VarsInv, SameInv
        <3>2. mem[s.key] = None \/ disk[s.key] = None \/ mem[s.key] = disk[s.key]
            BY <1>3, <1>15, <2>1 DEF IInv, SameInv
        <3>3. QED BY <1>5, <1>8, <1>14, <1>15, <2>1, <3>1, <3>2, CavemanRewriterAssumption
           DEF Systems
    <2>2. CASE r = <<s.key, s.value>>
        BY <1>8, <2>2
    <2>3. QED BY <1>6, <1>15, <2>1, <2>2
<1>16. s.key \in Prompts \ failed => mem'[s.key] = disk'[s.key]
    BY <1>8, <1>9, <1>14
<1>17. \A p \in Prompts : p # s.key => mem'[p] = mem[p] /\ disk'[p] = disk[p]
    BY <1>8, <1>9 DEF Systems
<1>18. rewritten' \subseteq Prompts \X Systems
    BY <1>2, <1>3, <1>5, <1>6 DEF VarsInv
<1>19. n.lock # None => n.key = callers[c].key /\ (n.phase \in Holding <=> callers[c].phase \in Holding)
    BY <1>1, <1>2, <1>7 DEF Holding
<1>20. n.phase # "wait" /\ callers[c].phase # "wait"
    BY <1>1, <1>2, <1>7
<1>21. QED BY <1>1, <1>6, <1>7, <1>8, <1>9, <1>10, <1>11, <1>12, <1>13, <1>15, <1>16, <1>17,
              <1>18, <1>19, <1>20, PutStep

\* A caller that puts: the lock, what is accepted, and the key of the put.
LEMMA SaveFacts ==
    ASSUME IInv, NEW c \in Callers, NEW s, s = callers[c], s.phase \in {"save", "save_file"}
    PROVE  /\ s \in CallerStates /\ StateOK(s) /\ SameOK(s) /\ s.key \in Prompts /\ s.key \in Systems
           /\ s.lock # None /\ s.phase \in Holding
           /\ s.value \in Systems /\ s.value # None /\ PutKey(s) \in Systems
           /\ <<PutKey(s), s.value>> \in accepted /\ <<s.value, s.value>> \in accepted
           /\ s.fixpoint => PutKey(s) = s.value /\ s.value \in Rewrites /\ PutKey(s) \notin Prompts
           /\ ~s.fixpoint => PutKey(s) = s.key /\ Working(s)
<1>1. CallersInv /\ SameOK(s) /\ Puts(s)
    BY DEF IInv, SameInv, AcceptedInv
<1>2. s \in CallerStates /\ StateOK(s) /\ s.key \in Prompts /\ s.key \in Systems /\ s.lock # None
    BY <1>1, CallerFacts
<1>3. s.value \in Systems
    BY <1>2 DEF StateOK, Systems
<1>4. s.value # None
    BY <1>3, CavemanRewriterAssumption DEF Systems
<1>5. /\ s.fixpoint => PutKey(s) = s.value /\ s.value \in Rewrites /\ PutKey(s) \notin Prompts
      /\ ~s.fixpoint => PutKey(s) = s.key /\ Working(s)
    BY <1>2, CavemanRewriterAssumption DEF StateOK, PutKey, Working
<1>6. PutKey(s) \in Systems
    BY <1>2, <1>3, <1>5
<1>7. <<PutKey(s), s.value>> \in accepted /\ <<s.value, s.value>> \in accepted
    BY <1>1 DEF Puts
<1>8. QED BY <1>1, <1>2, <1>3, <1>4, <1>5, <1>6, <1>7 DEF Holding

\* What others of a key cannot be doing while a caller puts its answer.
LEMMA SaveOthers ==
    ASSUME IInv, NEW c \in Callers, NEW s, s = callers[c], s.phase \in {"save", "save_file"},
           ~s.fixpoint, s.key \notin failed,
           NEW d \in Callers, d # c, callers[d].phase # "idle", callers[d].key = s.key
    PROVE  /\ ~Working(callers[d]) /\ callers[d].phase # "install"
           /\ ~(callers[d].phase = "disk" /\ callers[d].lock # None)
           /\ callers[d].fixpoint => s.phase = "save_file"
<1>1. /\ s.key \in Prompts /\ Working(s) /\ SameOK(s) /\ s.lock # None /\ s.phase \in Holding
      /\ s.value # None
    BY SaveFacts
<1>2. SameOK(callers[d]) /\ StateOK(callers[d])
    BY DEF IInv, SameInv, CallersInv
<1>3. disk[s.key] = None /\ mem[s.key] = IF s.phase = "save_file" THEN s.value ELSE None
    BY <1>1 DEF SameOK
<1>4. ~Working(callers[d])
    BY <1>1 DEF IInv, SameInv
<1>5. callers[d].phase # "install"
    <2>1. SUFFICES ASSUME callers[d].phase = "install" PROVE FALSE
        OBVIOUS
    <2>2. callers[d].value \in Systems /\ disk[s.key] = callers[d].value
        BY <1>2, <2>1 DEF StateOK, SameOK
    <2>3. QED BY <1>3, <2>2, CavemanRewriterAssumption DEF Systems
<1>6. ~(callers[d].phase = "disk" /\ callers[d].lock # None)
    <2>1. SUFFICES ASSUME callers[d].phase = "disk", callers[d].lock # None PROVE FALSE
        OBVIOUS
    <2>2. mem[s.key] = None
        BY <1>2, <1>3, <2>1 DEF SameOK
    <2>3. callers[d].lock = keyLocks[s.key]
        BY <1>2, <2>1, <2>2 DEF SameOK
    <2>4. s.lock = keyLocks[s.key]
        BY <1>1, <2>2 DEF SameOK
    <2>5. callers[d].phase \in Holding
        BY <2>1 DEF Holding
    <2>6. QED BY <1>1, <2>3, <2>4, <2>5, OneHolder DEF IInv
<1>7. callers[d].fixpoint => s.phase = "save_file"
    <2>1. SUFFICES ASSUME callers[d].fixpoint, s.phase # "save_file" PROVE FALSE
        OBVIOUS
    <2>2. callers[d].value \in Rewrites /\ mem[s.key] = callers[d].value
        BY <1>2, <2>1 DEF StateOK, SameOK
    <2>3. QED BY <1>3, <2>1, <2>2, CavemanRewriterAssumption
<1>8. QED BY <1>4, <1>5, <1>6, <1>7

LEMMA SaveMemoryStep == ASSUME IInv, NEW c \in Callers, SaveMemory(c) PROVE IInv'
<1>1. PICK s : s = callers[c]
    OBVIOUS
<1>2. VarsInv /\ CallersInv /\ s.phase = "save"
    BY <1>1 DEF IInv, SaveMemory
<1>3. /\ s \in CallerStates /\ StateOK(s) /\ SameOK(s) /\ s.key \in Prompts /\ s.key \in Systems
      /\ s.lock # None /\ s.phase \in Holding
      /\ s.value \in Systems /\ s.value # None /\ PutKey(s) \in Systems
      /\ <<PutKey(s), s.value>> \in accepted /\ <<s.value, s.value>> \in accepted
      /\ s.fixpoint => PutKey(s) = s.value /\ s.value \in Rewrites /\ PutKey(s) \notin Prompts
      /\ ~s.fixpoint => PutKey(s) = s.key /\ Working(s)
    BY <1>1, <1>2, SaveFacts
<1>4. PICK K \in Systems : K = PutKey(s)
    BY <1>3
<1>5. /\ mem' = [mem EXCEPT ![K] = s.value]
      /\ Goto(c, "save_file") /\ "save_file" \in Phases
      /\ UNCHANGED <<guided, disk, rejects, locks, pool, history>>
    BY <1>1, <1>4 DEF SaveMemory, Phases
<1>6. PICK n \in CallerStates :
          /\ Become(c, n) /\ n.phase = "save_file" /\ n.key = callers[c].key
          /\ n.lock = callers[c].lock /\ n.value = callers[c].value
          /\ n.fixpoint = callers[c].fixpoint
    BY <1>2, <1>5, GotoRecord
<1>7. n.key = s.key /\ n.lock = s.lock /\ n.value = s.value /\ n.fixpoint = s.fixpoint
    BY <1>1, <1>6
<1>8. UNCHANGED <<disk, keyLocks, failed, accepted, rewritten>>
    BY <1>5 DEF locks, history
<1>9. /\ mem' \in [Systems -> Systems \cup {None}] /\ mem'[K] = s.value
      /\ \A p \in Systems : p # K => mem'[p] = mem[p]
      /\ disk' \in [Systems -> Systems \cup {None}] /\ rewritten' \subseteq Prompts \X Systems
    BY <1>2, <1>3, <1>5, <1>8 DEF VarsInv
<1>10. StateOK(n) /\ Puts(n) /\ n.phase \in Holding /\ (Working(n) <=> Working(s))
    BY <1>2, <1>3, <1>6, <1>7 DEF StateOK, Puts, PutKey, Working, Holding
<1>11. CacheHoldsAccepted'
    BY <1>3, <1>4, <1>8, <1>9 DEF IInv, AcceptedInv, CacheHoldsAccepted
<1>12. Alone(c, n)
    BY <1>1, <1>7, <1>10, AloneKept DEF IInv
<1>13. s.fixpoint => mem'[s.key] = mem[s.key]
    BY <1>3, <1>4, <1>9
<1>14. ~s.fixpoint => K = s.key
    BY <1>3, <1>4
<1>15. SameOK(n)'
    <2>1. SUFFICES ASSUME s.key \notin failed PROVE SameOK(n)'
        BY <1>7, <1>8 DEF SameOK
    <2>2. mem'[s.key] = s.value
        <3>1. CASE s.fixpoint
            BY <1>2, <1>3, <1>13, <2>1, <3>1 DEF SameOK
        <3>2. CASE ~s.fixpoint
            BY <1>9, <1>14, <3>2
        <3>3. QED BY <3>1, <3>2
    <2>3. Working(n) => disk[s.key] = None
        BY <1>2, <1>3, <1>10, <2>1 DEF SameOK
    <2>4. QED BY <1>3, <1>6, <1>7, <1>8, <2>2, <2>3 DEF SameOK, Working
<1>16. \A d \in Callers : d # c => callers'[d] = callers[d]
    BY <1>2, <1>6, Become1
<1>17. ASSUME NEW d \in Callers \ {c}, callers[d].phase # "idle", callers[d].key = K
       PROVE  SameOK(callers[d])'
    <2>1. K \in Prompts
        BY <1>2, <1>17, CallerFacts
    <2>2. ~s.fixpoint /\ K = s.key
        BY <1>3, <1>4, <2>1
    <2>3. CASE s.key \in failed
        BY <1>8, <1>16, <1>17, <2>2, <2>3 DEF SameOK
    <2>4. CASE s.key \notin failed
        <3>1. /\ ~Working(callers[d]) /\ callers[d].phase # "install"
              /\ ~(callers[d].phase = "disk" /\ callers[d].lock # None)
              /\ ~callers[d].fixpoint
            BY <1>1, <1>2, <1>17, <2>2, <2>4, SaveOthers
        <3>2. mem'[callers[d].key] # None /\ callers'[d] = callers[d]
            BY <1>3, <1>9, <1>16, <1>17
        <3>3. QED BY <3>1, <3>2 DEF SameOK, Working
    <2>5. QED BY <2>3, <2>4
<1>18. K \in Prompts \ failed => disk[K] = None
    BY <1>2, <1>3, <1>4 DEF SameOK
<1>19. ASSUME NEW r \in rewritten', r \notin rewritten \/ r[1] = K, r[1] \notin failed PROVE FALSE
    <2>1. r \in rewritten /\ r[1] = K /\ K \in Prompts /\ r[2] # None
        BY <1>2, <1>8, <1>19, CavemanRewriterAssumption DEF VarsInv, Systems
    <2>2. K = s.key /\ ~s.fixpoint
        BY <1>3, <1>4, <2>1
    <2>3. mem[K] = None /\ disk[K] = None
        BY <1>2, <1>3, <1>19, <2>1, <2>2 DEF SameOK
    <2>4. QED BY <1>19, <2>1, <2>3 DEF IInv, SameInv
<1>20. UNCHANGED <<guided, rejects, locks, pool, failed, accepted>>
    BY <1>5, <1>8
<1>21. \A p \in Prompts : p # K => mem'[p] = mem[p] /\ disk'[p] = disk[p]
    BY <1>8, <1>9 DEF Systems
<1>22. n.lock # None => n.key = callers[c].key /\ (n.phase \in Holding <=> callers[c].phase \in Holding)
    BY <1>1, <1>3, <1>7, <1>10
<1>23. n.phase # "wait" /\ callers[c].phase # "wait"
    BY <1>1, <1>2, <1>6
<1>24. QED BY <1>1, <1>6, <1>7, <1>8, <1>9, <1>10, <1>11, <1>12, <1>15, <1>17, <1>18, <1>19,
              <1>20, <1>21, <1>22, <1>23, PutStep

\* What a caller becomes after its file: with its own key to put the rewrite under,
\* or with its lock to release.
LEMMA SaveFileRecord ==
    ASSUME IInv, NEW c \in Callers, NEW s, s = callers[c], SaveFile(c)
    PROVE  \E n \in CallerStates :
              /\ Become(c, n) /\ n.key = s.key /\ n.lock = s.lock /\ n.value = s.value
              /\ \/ /\ s.value # PutKey(s) /\ rewritten' = rewritten
                    /\ n.phase = "save" /\ n.fixpoint
                 \/ /\ s.value = PutKey(s) /\ rewritten' = rewritten \cup {<<s.key, s.value>>}
                    /\ n.phase = "release" /\ n.fixpoint = s.fixpoint
<1>1. s \in CallerStates /\ CallersInv
    BY CallerFacts DEF IInv
<1>2. CASE s.value # PutKey(s)
    <2>1. PICK n : n = [s EXCEPT !.phase = "save", !.fixpoint = TRUE]
        OBVIOUS
    <2>2. Become(c, n) /\ rewritten' = rewritten
        BY <1>2, <2>1 DEF SaveFile
    <2>3. /\ n \in CallerStates /\ n.phase = "save" /\ n.fixpoint /\ n.key = s.key
          /\ n.lock = s.lock /\ n.value = s.value
        BY <1>1, <2>1 DEF CallerStates, Phases
    <2>4. QED BY <1>2, <2>2, <2>3
<1>3. CASE s.value = PutKey(s)
    <2>1. /\ Goto(c, "release") /\ "release" \in Phases
          /\ rewritten' = rewritten \cup {<<s.key, s.value>>}
        BY <1>3 DEF SaveFile, Phases, Tell
    <2>2. PICK n \in CallerStates :
              /\ Become(c, n) /\ n.phase = "release" /\ n.key = callers[c].key
              /\ n.lock = callers[c].lock /\ n.value = callers[c].value
              /\ n.fixpoint = callers[c].fixpoint
        BY <1>1, <2>1, GotoRecord
    <2>3. QED BY <1>3, <2>1, <2>2
<1>4. QED BY <1>2, <1>3

LEMMA SaveFileStep == ASSUME IInv, NEW c \in Callers, SaveFile(c) PROVE IInv'
<1>1. PICK s : s = callers[c]
    OBVIOUS
<1>2. VarsInv /\ CallersInv /\ s.phase = "save_file"
    BY <1>1 DEF IInv, SaveFile
<1>3. /\ s \in CallerStates /\ StateOK(s) /\ SameOK(s) /\ s.key \in Prompts /\ s.key \in Systems
      /\ s.lock # None /\ s.phase \in Holding
      /\ s.value \in Systems /\ s.value # None /\ PutKey(s) \in Systems
      /\ <<PutKey(s), s.value>> \in accepted /\ <<s.value, s.value>> \in accepted
      /\ s.fixpoint => PutKey(s) = s.value /\ s.value \in Rewrites /\ PutKey(s) \notin Prompts
      /\ ~s.fixpoint => PutKey(s) = s.key /\ Working(s)
    BY <1>1, <1>2, SaveFacts
<1>4. PICK K \in Systems : K = PutKey(s)
    BY <1>3
<1>5. /\ disk' \in {disk, [disk EXCEPT ![K] = s.value]}
      /\ UNCHANGED <<guided, mem, rejects, locks, pool, failed, accepted>>
    BY <1>1, <1>4 DEF SaveFile
<1>6. PICK n \in CallerStates :
          /\ Become(c, n) /\ n.key = s.key /\ n.lock = s.lock /\ n.value = s.value
          /\ \/ /\ s.value # PutKey(s) /\ rewritten' = rewritten
                /\ n.phase = "save" /\ n.fixpoint
             \/ /\ s.value = PutKey(s) /\ rewritten' = rewritten \cup {<<s.key, s.value>>}
                /\ n.phase = "release" /\ n.fixpoint = s.fixpoint
    BY <1>1, SaveFileRecord
<1>7. keyLocks' = keyLocks /\ mem' = mem /\ mem' \in [Systems -> Systems \cup {None}]
    BY <1>2, <1>5 DEF locks, VarsInv
<1>8. /\ disk' \in [Systems -> Systems \cup {None}]
      /\ \A p \in Systems : p # K => disk'[p] = disk[p]
      /\ disk'[K] = disk[K] \/ disk'[K] = s.value
    BY <1>2, <1>3, <1>5 DEF VarsInv
<1>9. rewritten' \subseteq rewritten \cup {<<s.key, s.value>>} /\ rewritten' \subseteq Prompts \X Systems
    BY <1>2, <1>3, <1>6 DEF VarsInv
<1>10. n.phase \in {"save", "release"} /\ n.phase \in Holding /\ ~Working(n)
    BY <1>3, <1>6 DEF Holding, Working
<1>11. n.fixpoint => s.value \in Rewrites
    <2>1. s.value \in Rewrites \cup {s.key}
        BY <1>2, <1>3 DEF StateOK
    <2>2. QED BY <1>3, <1>6, <2>1
<1>12. StateOK(n)
    <2>1. s.value \in Rewrites \cup {s.key} /\ s.key # None
        BY <1>2, <1>3, CavemanRewriterAssumption DEF StateOK
    <2>2. QED BY <1>3, <1>6, <1>10, <1>11, <2>1 DEF StateOK
<1>13. Puts(n)
    BY <1>3, <1>6, <1>10 DEF Puts, PutKey
<1>14. Alone(c, n)
    BY <1>10 DEF Alone
<1>15. CacheHoldsAccepted'
    BY <1>3, <1>4, <1>5, <1>8 DEF IInv, AcceptedInv, CacheHoldsAccepted
<1>16. s.key \notin failed => mem[s.key] = s.value
    BY <1>2, <1>3 DEF SameOK
<1>17. SameOK(n)'
    BY <1>3, <1>5, <1>6, <1>7, <1>10, <1>16 DEF SameOK, Working
<1>18. \A d \in Callers : d # c => callers'[d] = callers[d]
    BY <1>2, <1>6, Become1
<1>19. ASSUME NEW d \in Callers \ {c}, callers[d].phase # "idle", callers[d].key = K
       PROVE  SameOK(callers[d])'
    <2>1. K \in Prompts
        BY <1>2, <1>19, CallerFacts
    <2>2. ~s.fixpoint /\ K = s.key
        BY <1>3, <1>4, <2>1
    <2>3. CASE s.key \in failed
        BY <1>5, <1>18, <1>19, <2>2, <2>3 DEF SameOK
    <2>4. CASE s.key \notin failed
        <3>1. /\ ~Working(callers[d]) /\ callers[d].phase # "install"
              /\ ~(callers[d].phase = "disk" /\ callers[d].lock # None)
            BY <1>1, <1>2, <1>19, <2>2, <2>4, SaveOthers
        <3>2. SameOK(callers[d]) /\ callers'[d] = callers[d]
            BY <1>18, <1>19 DEF IInv, SameInv
        <3>3. QED BY <1>5, <1>7, <3>1, <3>2 DEF SameOK, Working
    <2>5. QED BY <2>3, <2>4
<1>20. ASSUME K \in Prompts \ failed PROVE disk'[K] = None \/ mem'[K] = disk'[K]
    <2>1. K = s.key /\ Working(s)
        BY <1>3, <1>4, <1>20
    <2>2. disk[K] = None /\ mem[K] = s.value
        BY <1>2, <1>3, <1>16, <1>20, <2>1 DEF SameOK
    <2>3. QED BY <1>7, <1>8, <2>2
<1>21. ASSUME NEW r \in rewritten', r \notin rewritten \/ r[1] = K, r[1] \notin failed
       PROVE  r[2] = mem'[r[1]] \/ r[2] = disk'[r[1]]
    <2>1. CASE r = <<s.key, s.value>>
        BY <1>7, <1>16, <1>21, <2>1
    <2>2. CASE r \in rewritten /\ r[1] = K
        <3>1. K \in Prompts /\ r[2] # None
            BY <1>2, <2>2, CavemanRewriterAssumption DEF VarsInv, Systems
        <3>2. K = s.key /\ Working(s)
            BY <1>3, <1>4, <3>1
        <3>3. disk[K] = None
            BY <1>2, <1>3, <1>21, <2>2, <3>2 DEF SameOK
        <3>4. r[2] = mem[K] \/ r[2] = disk[K]
            BY <1>21, <2>2 DEF IInv, SameInv
        <3>5. QED BY <1>7, <2>2, <3>1, <3>3, <3>4
    <2>3. QED BY <1>9, <1>21, <2>1, <2>2
<1>22. \A p \in Prompts : p # K => mem'[p] = mem[p] /\ disk'[p] = disk[p]
    BY <1>7, <1>8 DEF Systems
<1>23. n.lock # None => n.key = callers[c].key /\ (n.phase \in Holding <=> callers[c].phase \in Holding)
    BY <1>1, <1>3, <1>6, <1>10
<1>24. n.phase # "wait" /\ callers[c].phase # "wait" /\ n.lock = callers[c].lock
    BY <1>1, <1>2, <1>6
<1>25. QED BY <1>5, <1>6, <1>7, <1>8, <1>9, <1>12, <1>13, <1>14, <1>15, <1>17, <1>19, <1>20,
              <1>21, <1>22, <1>23, <1>24, PutStep

\* A restart keeps what the files hold.
LEMMA RestartStep == ASSUME IInv, Restart PROVE IInv'
<1>1. PICK kept \in SUBSET Systems : disk' = [s \in Systems |-> IF s \in kept THEN disk[s] ELSE None]
    BY DEF Restart
<1>2. \A s \in Systems : disk'[s] = None \/ disk'[s] = disk[s]
    BY <1>1
<1>3. \A s \in Systems : mem'[s] = None
    BY DEF Restart
<1>4. \A p \in Prompts : keyLocks'[p] = None
    BY DEF Restart
<1>5. \A l \in LockIds : holder'[l] = None
    BY DEF Restart
<1>6. \A c \in Callers : callers'[c] = Idle
    BY DEF Restart
<1>7. /\ UNCHANGED <<guided, failed, accepted>> /\ rejects' = {}
      /\ slots' = Workers /\ abandoned' = 0 /\ finishing' = 0
      /\ rewritten' = {r \in rewritten : disk'[r[1]] # None}
    BY DEF Restart
<1>8. VarsInv'
    <2>1. /\ mem' \in [Systems -> Systems \cup {None}]
          /\ disk' \in [Systems -> Systems \cup {None}]
          /\ keyLocks' \in [Prompts -> LockIds \cup {None}]
          /\ holder' \in [LockIds -> Callers \cup {None}]
        BY DEF Restart, IInv, VarsInv
    <2>2. QED BY <1>7, <2>1, CavemanRewriterAssumption DEF IInv, VarsInv
<1>9. CallersInv'
    <2>1. callers' \in [Callers -> CallerStates]
        BY IdleRecord DEF Restart
    <2>2. QED BY <1>6, <2>1, IdleOK DEF CallersInv
<1>10. SlotsConserved'
    <2>1. Waiting' = {}
        BY <1>6, IdleRecord DEF Waiting, At
    <2>2. Cardinality(Waiting') = 0
        BY <2>1, FS_EmptySet
    <2>3. QED BY <1>7, <2>2, CavemanRewriterAssumption DEF SlotsConserved, Waiting
<1>11. LockInv'
    BY <1>4, <1>5, <1>6, IdleRecord, CavemanRewriterAssumption DEF LockInv, Holding
<1>12. CacheHoldsAccepted'
    BY <1>2, <1>3, <1>7, CavemanRewriterAssumption
       DEF IInv, AcceptedInv, CacheHoldsAccepted, Systems
<1>13. AcceptedInv'
    BY <1>6, <1>12, IdleRecord DEF AcceptedInv, Puts
<1>14. ASSUME NEW r \in rewritten', r[1] \notin failed PROVE r[2] = disk'[r[1]]
    <2>1. r \in rewritten /\ r[1] \in Prompts /\ r[1] \in Systems /\ r[2] # None /\ disk'[r[1]] # None
        BY <1>7, <1>14, CavemanRewriterAssumption DEF IInv, VarsInv, Systems
    <2>2. disk'[r[1]] = disk[r[1]] /\ disk[r[1]] # None
        BY <1>2, <2>1
    <2>3. r[2] = mem[r[1]] \/ r[2] = disk[r[1]]
        BY <1>14, <2>1 DEF IInv, SameInv
    <2>4. mem[r[1]] = None \/ mem[r[1]] = disk[r[1]]
        BY <1>14, <2>1, <2>2 DEF IInv, SameInv
    <2>5. QED BY <2>1, <2>2, <2>3, <2>4
<1>15. \A c \in Callers : SameOK(callers[c])' /\ ~Working(callers'[c])
    BY <1>6, IdleRecord DEF SameOK, Working
<1>16. SameInv'
    BY <1>3, <1>7, <1>14, <1>15 DEF SameInv, Working, Systems
<1>17. QED BY <1>8, <1>9, <1>10, <1>11, <1>13, <1>16 DEF IInv

-----------------------------------------------------------------------------
(***************************************************************************)
(* The theorems.                                                           *)
(***************************************************************************)

LEMMA InitIInv == Init => IInv
<1> SUFFICES ASSUME Init PROVE IInv
    OBVIOUS
<1>1. VarsInv
    BY CavemanRewriterAssumption DEF Init, VarsInv
<1>2. CallersInv
    BY IdleRecord, IdleOK DEF Init, CallersInv
<1>3. SlotsConserved
    <2>1. Waiting = {}
        BY IdleRecord DEF Init, Waiting, At
    <2>2. Cardinality(Waiting) = 0
        BY <2>1, FS_EmptySet
    <2>3. slots = Workers /\ abandoned = 0 /\ finishing = 0
        BY DEF Init
    <2>4. QED BY <2>2, <2>3, CavemanRewriterAssumption DEF SlotsConserved, Waiting
<1>4. LockInv
    BY IdleRecord, CavemanRewriterAssumption DEF Init, LockInv, Holding
<1>5. CacheHoldsAccepted
    BY CavemanRewriterAssumption DEF Init, CacheHoldsAccepted, Systems
<1>6. AcceptedInv
    BY <1>5, IdleRecord DEF Init, AcceptedInv, Puts
<1>7. SameInv
    BY IdleRecord DEF Init, SameInv, SameOK, Working, Systems
<1>8. QED BY <1>1, <1>2, <1>3, <1>4, <1>6, <1>7 DEF IInv

LEMMA NextIInv == IInv /\ [Next]_vars => IInv'
<1> SUFFICES ASSUME IInv, [Next]_vars PROVE IInv'
    OBVIOUS
<1>1. ASSUME NEW c \in Callers, Request(c) PROVE IInv'
    BY <1>1, RequestStep
<1>2. ASSUME NEW c \in Callers, Step(c) PROVE IInv'
    <2>1. CASE LookMemory(c) \/ LookDisk(c) \/ Install(c) \/ CheckReject(c)
        BY <2>1, LookMemoryStep, LookDiskStep, InstallStep, CheckRejectStep
    <2>2. CASE SetDefaultLock(c) \/ Acquire(c) \/ AcquireTimeout(c)
        BY <2>2, SetDefaultLockStep, AcquireStep, AcquireTimeoutStep
    <2>3. CASE NoGuidance(c) \/ Submit(c) \/ NotSubmitted(c) \/ CallTimeout(c)
        BY <2>3, NoGuidanceStep, SubmitStep, NotSubmittedStep, GaveUpStep
    <2>4. CASE SaveMemory(c) \/ SaveFile(c)
        BY <2>4, SaveMemoryStep, SaveFileStep
    <2>5. CASE Release(c) \/ Cleanup(c)
        BY <2>5, ReleaseStep, CleanupStep
    <2>6. QED BY <1>2, <2>1, <2>2, <2>3, <2>4, <2>5 DEF Step
<1>3. ASSUME NEW c \in Callers, Reply(c) PROVE IInv'
    BY <1>3, ValidReplyStep, GaveUpStep DEF Reply
<1>4. CASE AbandonedReturns \/ SlotRelease
    BY <1>4, PoolStep
<1>5. ASSUME NEW p \in Prompts, ForgetReject(p) PROVE IInv'
    BY <1>5, ForgetRejectStep
<1>6. CASE Restart
    BY <1>6, RestartStep
<1>7. CASE UNCHANGED vars
    <2>1. UNCHANGED <<guided, mem, disk, rejects, keyLocks, holder, slots, abandoned, finishing,
                      callers, failed, accepted, rewritten>>
        BY <1>7 DEF vars, cache, locks, pool, history
    <2>2. VarsInv' /\ CallersInv' /\ SlotsConserved'
        BY <2>1 DEF IInv, VarsInv, CallersInv, SlotsConserved, At
    <2>3. LockInv' /\ AcceptedInv'
        BY <2>1 DEF IInv, LockInv, AcceptedInv, CacheHoldsAccepted, Puts, PutKey
    <2>4. SameInv'
        BY <2>1 DEF IInv, SameInv, SameOK, Working
    <2>5. QED BY <2>2, <2>3, <2>4 DEF IInv
<1>8. QED BY <1>1, <1>2, <1>3, <1>4, <1>5, <1>6, <1>7 DEF Next

\* IInv holds at every step of every caller of rewrite, of the pool's calls, and of a restart.
THEOREM InductiveInvariant == Spec => []IInv
BY InitIInv, NextIInv, PTL DEF Spec

\* The bounds of the pool are those of its sum.
LEMMA IInvTypeOK == IInv => TypeOK
<1> SUFFICES ASSUME IInv PROVE TypeOK
    OBVIOUS
<1>1. VarsInv /\ callers \in [Callers -> CallerStates]
    BY DEF IInv, CallersInv
<1>2. slots \in 0..Workers /\ abandoned \in 0..Workers /\ finishing \in 0..Workers
    <2>1. slots + abandoned + finishing + Cardinality(Waiting) = Workers
        BY DEF IInv, SlotsConserved, Waiting
    <2>2. QED BY <1>1, <2>1, WaitingFinite, CavemanRewriterAssumption DEF VarsInv
<1>3. QED BY <1>1, <1>2 DEF TypeOK, VarsInv

\* Every variable keeps its type, the pool within its workers.
THEOREM TypeCorrect == Spec => []TypeOK
BY InductiveInvariant, IInvTypeOK, PTL

\* Each slot is free or held by one call, in every state.
THEOREM SlotsConservedTheorem == Spec => []SlotsConserved
<1>1. IInv => SlotsConserved
    BY DEF IInv
<1>2. QED BY <1>1, InductiveInvariant, PTL

\* The cache only holds what a valid reply made of the prompt.
THEOREM CacheHoldsAcceptedTheorem == Spec => []CacheHoldsAccepted
<1>1. IInv => CacheHoldsAccepted
    BY DEF IInv, AcceptedInv
<1>2. QED BY <1>1, InductiveInvariant, PTL

\* No lock of a key outlives the callers of rewrite().
THEOREM LocksNotLeakedTheorem == Spec => []LocksNotLeaked
<1>1. IInv => LocksNotLeaked
    <2>1. SUFFICES ASSUME IInv, \A c \in Callers : At(c, "idle"), NEW p \in Prompts
                   PROVE  keyLocks[p] = None
        BY DEF LocksNotLeaked
    <2>2. \A c \in Callers : callers[c].lock = None
        BY <2>1 DEF IInv, CallersInv, StateOK, At
    <2>3. QED BY <2>1, <2>2 DEF IInv, LockInv
<1>2. QED BY <1>1, InductiveInvariant, PTL

\* Callers of a prompt that did not fail are told the same system.
THEOREM SamePromptTheorem == Spec => []SamePromptUnlessFailed
<1>1. IInv => SamePromptUnlessFailed
    <2>1. SUFFICES ASSUME IInv, NEW r \in rewritten, NEW q \in rewritten, r[1] = q[1],
                          r[1] \notin failed
                   PROVE  r[2] = q[2]
        BY DEF SamePromptUnlessFailed
    <2>2. r[1] \in Prompts /\ r[2] # None /\ q[2] # None
        BY <2>1, CavemanRewriterAssumption DEF IInv, VarsInv, Systems
    <2>3. (r[2] = mem[r[1]] \/ r[2] = disk[r[1]]) /\ (q[2] = mem[r[1]] \/ q[2] = disk[r[1]])
        BY <2>1 DEF IInv, SameInv
    <2>4. mem[r[1]] = None \/ disk[r[1]] = None \/ mem[r[1]] = disk[r[1]]
        BY <2>1, <2>2 DEF IInv, SameInv
    <2>5. QED BY <2>2, <2>3, <2>4
<1>2. QED BY <1>1, InductiveInvariant, PTL

-----------------------------------------------------------------------------
(***************************************************************************)
(* The OAuth usage cache.                                                  *)
(***************************************************************************)
\* The wait that is owed, up to the cap, is behind or still ahead.
UsagePaced ==
    /\ phase = "sleep" => gap + remaining >= Smaller(owed, MaxBackoff)
    /\ phase = "poll" => gap >= Smaller(owed, MaxBackoff)
    /\ phase = "none" => owed = 0

\* The backoff never falls below its start, so one failure lifts it over Base.
UsageBackoffKept == backoff >= Smaller(Base, MaxBackoff)

\* The thread polls for a token some request named.
UsageStarted == phase # "none" => polled \in Tokens /\ token \in Tokens

\* The inductive invariant.
UsageInv == UsageTypeOK /\ UsageStarted /\ UsagePaced /\ UsageBackoffKept /\ FailureIsVisible

\* What is behind and what is ahead add up to no negative wait.
LEMMA UsageNatSum == \A m, n \in Nat : m + n >= 0
OBVIOUS

\* The cooldown after a success or at the start is a length of sleep.
LEMMA CooldownRange ==
    ASSUME NEW b \in 1..MaxSleep, NEW r \in RetryAfters \cup {Nothing}
    PROVE  Cooldown(b, r) \in 0..MaxSleep
BY OAuthUsageAssumption DEF Cooldown, MaxSleep, Larger, Smaller

\* After a failed poll the loop sleeps for what is owed: the doubled backoff is
\* over Base, or Base is no shorter than the cap.
LEMMA CooldownAfterFailure ==
    ASSUME NEW b \in 1..MaxSleep, b >= Smaller(Base, MaxBackoff),
           NEW r \in RetryAfters \cup {Nothing},
           NEW wait \in Nat,
           wait = IF r = Nothing THEN MinCooldown ELSE Larger(r, MinCooldown)
    PROVE  Cooldown(Smaller(2 * b, MaxBackoff), r) >= Smaller(wait, MaxBackoff)
<1> DEFINE d == Smaller(2 * b, MaxBackoff)
<1>1. d \in Nat /\ d >= Smaller(Base, MaxBackoff) /\ (d <= Base => Base >= MaxBackoff)
    BY OAuthUsageAssumption DEF Smaller, MaxSleep, Larger
<1> HIDE DEF d
<1>2. CASE d <= Base
    BY <1>1, <1>2, OAuthUsageAssumption DEF Cooldown, Smaller, Larger
<1>3. CASE d > Base
    <2>1. CASE r = Nothing
        BY <1>1, <1>3, <2>1, OAuthUsageAssumption DEF Cooldown, Smaller, Larger
    <2>2. CASE r # Nothing
        BY <1>1, <1>3, <2>2, OAuthUsageAssumption DEF Cooldown, Smaller, Larger
    <2>3. QED BY <2>1, <2>2
<1>4. QED BY <1>1, <1>2, <1>3, OAuthUsageAssumption DEF d

LEMMA UsageInitInv ==
    UsageInit => UsageInv
BY OAuthUsageAssumption
   DEF UsageInit, UsageInv, UsageTypeOK, UsageStarted, UsagePaced, UsageBackoffKept,
       FailureIsVisible, MaxSleep, Smaller, Larger

\* A request, time, the start of a poll and a restart.
LEMMA UsageQuietStep ==
    ASSUME UsageInv, (\E t \in Tokens : Get(t)) \/ Tick \/ StartPoll \/ ProcessRestart
    PROVE  UsageInv'
<1> USE DEF UsageInv
<1>1. CASE \E t \in Tokens : Get(t)
    <2>1. CASE phase = "none"
        <3>1. Cooldown(backoff, retryAfter) \in 0..MaxSleep
            BY CooldownRange DEF UsageTypeOK
        <3>2. /\ phase' = "sleep" /\ remaining' = Cooldown(backoff, retryAfter)
              /\ token' \in Tokens /\ polled' = token'
              /\ UNCHANGED <<usage, backoff, retryAfter, owed, gap>>
            BY <1>1, <2>1 DEF Get, LoopTop
        <3>3. owed = 0
            BY <2>1 DEF UsagePaced
        <3>4. QED BY <3>1, <3>2, <3>3, OAuthUsageAssumption
           DEF UsageTypeOK, UsageStarted, UsagePaced, UsageBackoffKept, FailureIsVisible,
               Smaller
    <2>2. CASE phase # "none"
        BY <1>1, <2>2
           DEF Get, UsageTypeOK, UsageStarted, UsagePaced, UsageBackoffKept,
               FailureIsVisible
    <2>3. QED BY <2>1, <2>2
<1>2. CASE Tick
    BY <1>2, OAuthUsageAssumption
       DEF Tick, UsageTypeOK, UsageStarted, UsagePaced, UsageBackoffKept, FailureIsVisible,
           MaxSleep, Larger, Smaller
<1>3. CASE StartPoll
    BY <1>3
       DEF StartPoll, UsageTypeOK, UsageStarted, UsagePaced, UsageBackoffKept,
           FailureIsVisible
<1>4. CASE ProcessRestart
    BY <1>4, OAuthUsageAssumption
       DEF ProcessRestart, UsageTypeOK, UsageStarted, UsagePaced, UsageBackoffKept,
           FailureIsVisible, MaxSleep, Larger, Smaller
<1>5. QED BY <1>1, <1>2, <1>3, <1>4

\* A successful poll owes no wait.
LEMMA UsageOkStep ==
    ASSUME UsageInv, PollOk
    PROVE  UsageInv'
<1> USE DEF UsageInv
<1>1. /\ usage' \in Usages \cup {Nothing}
      /\ backoff' \in 1..MaxSleep /\ retryAfter' \in RetryAfters \cup {Nothing}
      /\ UsageBackoffKept' /\ FailureIsVisible'
    <2>1. phase = "poll"
        BY DEF PollOk, Answered
    <2>2. CASE polled # token
        BY <2>2
           DEF PollOk, RecordSuccess, UsageTypeOK, UsageBackoffKept,
               FailureIsVisible
    <2>3. CASE polled = token
        <3>1. usage' = [token |-> polled, stale |-> FALSE] /\ backoff' = Base /\ retryAfter' = Nothing
            BY <2>3 DEF PollOk, RecordSuccess
        <3>2. polled \in Tokens
            BY <2>1, <2>3 DEF UsageTypeOK, UsageStarted
        <3>3. QED BY <3>1, <3>2, OAuthUsageAssumption
           DEF Usages, UsageBackoffKept, FailureIsVisible, MaxSleep, Larger, Smaller
    <2>4. QED BY <2>2, <2>3
<1>2. remaining' \in 0..MaxSleep
    BY <1>1, CooldownRange DEF PollOk, LoopTop
<1>3. /\ owed' = 0 /\ gap' = 0 /\ phase' = "sleep"
      /\ token' = token /\ polled' = token /\ token \in Tokens
    BY DEF PollOk, Answered, LoopTop, UsageStarted
<1>4. UsageTypeOK'
    BY <1>1, <1>2, <1>3, OAuthUsageAssumption DEF UsageTypeOK, MaxSleep, Larger
<1>5. UsagePaced'
    <2>1. Smaller(owed', MaxBackoff) = 0
        BY <1>3, OAuthUsageAssumption DEF Smaller
    <2>2. gap' + remaining' >= 0
        <3>1. MaxSleep \in Nat
            BY OAuthUsageAssumption DEF MaxSleep, Larger
        <3>2. remaining' \in Nat /\ gap' \in Nat
            BY <1>2, <1>3, <3>1
        <3>3. QED BY <3>2, UsageNatSum
    <2>3. phase' = "sleep" /\ phase' # "poll" /\ phase' # "none"
        BY <1>3
    <2>4. QED BY <2>1, <2>2, <2>3 DEF UsagePaced, Smaller
<1>6. UsageStarted'
    BY <1>3 DEF UsageStarted
<1>7. QED BY <1>1, <1>4, <1>5, <1>6

\* A failed poll owes the wait its answer calls for, and sleeps for it.
LEMMA UsageFailStep ==
    ASSUME UsageInv, PollFails
    PROVE  UsageInv'
<1> USE DEF UsageInv
<1>1. PICK r \in RetryAfters \cup {Nothing} :
          /\ owed' = (IF r = Nothing THEN MinCooldown ELSE Larger(r, MinCooldown))
          /\ gap' = 0 /\ token' = token /\ token \in Tokens
          /\ retryAfter' = r
    BY DEF PollFails, Answered, UsageStarted
<1>2. backoff' = Smaller(2 * backoff, MaxBackoff)
      /\ usage' = IF usage = Nothing THEN Nothing ELSE [usage EXCEPT !.stale = TRUE]
    BY DEF PollFails, RecordFailure
<1>3. phase' = "sleep" /\ polled' = token' /\ remaining' = Cooldown(backoff', r)
    BY <1>1 DEF PollFails, LoopTop
<1>4. backoff' \in 1..MaxSleep /\ UsageBackoffKept'
    BY <1>2, OAuthUsageAssumption DEF UsageTypeOK, UsageBackoffKept, MaxSleep, Larger, Smaller
<1>5. usage' \in Usages \cup {Nothing} /\ FailureIsVisible'
    BY <1>2 DEF UsageTypeOK, Usages, FailureIsVisible
<1>6. owed' \in Nat
    BY <1>1, OAuthUsageAssumption DEF Larger
<1>7. remaining' \in 0..MaxSleep
    BY <1>3, <1>4, CooldownRange
<1>8. remaining' >= Smaller(owed', MaxBackoff)
    BY <1>1, <1>2, <1>3, <1>6, CooldownAfterFailure DEF UsageTypeOK, UsageBackoffKept
<1>9. UsageTypeOK'
    BY <1>1, <1>3, <1>4, <1>5, <1>6, <1>7, OAuthUsageAssumption
       DEF UsageTypeOK, MaxSleep, Larger
<1>10. UsagePaced'
    BY <1>1, <1>3, <1>7, <1>8, OAuthUsageAssumption DEF UsagePaced, MaxSleep, Larger
<1>11. UsageStarted'
    BY <1>1, <1>3 DEF UsageStarted
<1>12. QED BY <1>4, <1>5, <1>9, <1>10, <1>11

LEMMA UsageNextInv ==
    UsageInv /\ [UsageNext]_usageVars => UsageInv'
<1>1. SUFFICES ASSUME UsageInv, [UsageNext]_usageVars PROVE UsageInv'
    OBVIOUS
<1>2. CASE (\E t \in Tokens : Get(t)) \/ Tick \/ StartPoll \/ ProcessRestart
    BY <1>1, <1>2, UsageQuietStep
<1>3. CASE PollOk
    BY <1>1, <1>3, UsageOkStep
<1>4. CASE PollFails
    BY <1>1, <1>4, UsageFailStep
<1>5. CASE UNCHANGED usageVars
    BY <1>1, <1>5
       DEF usageVars, UsageInv, UsageTypeOK, UsageStarted, UsagePaced, UsageBackoffKept,
           FailureIsVisible
<1>6. QED BY <1>1, <1>2, <1>3, <1>4, <1>5 DEF UsageNext, Loop

\* The inductive invariant holds in every reachable state.
THEOREM UsageInvariantTheorem == UsageSpec => []UsageInv
<1>1. UsageInit => UsageInv
    BY UsageInitInv
<1>2. UsageInv /\ [UsageNext]_usageVars => UsageInv'
    BY UsageNextInv
<1>3. QED BY <1>1, <1>2, PTL DEF UsageSpec

\* The token, usage, backoff and loop of OAuthUsageCache stay well formed, and no
\* sleep exceeds the cap or the base interval.
THEOREM UsageTypeTheorem == UsageSpec => []UsageTypeOK
<1>1. UsageInv => UsageTypeOK
    BY DEF UsageInv
<1>2. QED BY <1>1, UsageInvariantTheorem, PTL

\* _background_fetch_loop never asks the usage endpoint again before the wait its
\* last answer calls for, whatever the intervals, tokens and Retry-After values.
THEOREM RetryAfterKeptTheorem == UsageSpec => []RetryAfterKept
<1>1. UsageInv => RetryAfterKept
    BY DEF UsageInv, UsagePaced, RetryAfterKept
<1>2. QED BY <1>1, UsageInvariantTheorem, PTL

\* While _record_failure's backoff stands, the usage a reader gets is marked stale.
THEOREM FailureIsVisibleTheorem == UsageSpec => []FailureIsVisible
<1>1. UsageInv => FailureIsVisible
    BY DEF UsageInv
<1>2. QED BY <1>1, UsageInvariantTheorem, PTL

\* The answers: a success of another token's poll changes nothing, and a failure
\* marks the usage stale and lowers no backoff but to the cap.
LEMMA UsageSuccessStep ==
    ASSUME UsageInv, PollOk \/ PollFails
    PROVE  /\ usage' # usage /\ usage' # Nothing /\ ~usage'.stale => usage'.token = token
           /\ backoff' < Smaller(backoff, MaxBackoff) => polled = token
<1>1. CASE PollOk
    <2>1. CASE polled # token
        <3>1. usage' = usage /\ backoff' = backoff
            BY <1>1, <2>1 DEF PollOk, RecordSuccess
        <3>2. QED BY <3>1, OAuthUsageAssumption
           DEF UsageInv, UsageTypeOK, MaxSleep, Larger, Smaller
    <2>2. CASE polled = token
        BY <1>1, <2>2 DEF PollOk, RecordSuccess
    <2>3. QED BY <2>1, <2>2
<1>2. CASE PollFails
    <2>1. ~(usage' # usage /\ usage' # Nothing /\ ~usage'.stale)
        BY <1>2 DEF PollFails, RecordFailure, UsageInv, UsageTypeOK, Usages
    <2>2. backoff' = Smaller(2 * backoff, MaxBackoff)
        BY <1>2 DEF PollFails, RecordFailure
    <2>3. ~(backoff' < Smaller(backoff, MaxBackoff))
        BY <2>2, OAuthUsageAssumption DEF UsageInv, UsageTypeOK, MaxSleep, Larger, Smaller
    <2>4. QED BY <2>1, <2>3
<1>3. QED BY <1>1, <1>2

\* The steps that carry no answer.
LEMMA UsageNoAnswerStep ==
    ASSUME (\E t \in Tokens : Get(t)) \/ Tick \/ StartPoll \/ ProcessRestart
    PROVE  \/ usage' = usage /\ backoff' = backoff
           \/ usage' = Nothing /\ phase' = "none"
BY DEF Get, Tick, StartPoll, ProcessRestart

\* An answer for a token no longer current neither replaces the cached usage nor
\* ends the backoff, whatever switches of token raced the poll (_record_success).
THEOREM OnlyOwnSuccessTheorem == UsageSpec => OnlyOwnSuccess
<1>1. ASSUME UsageInv, UsageNext
      PROVE  /\ usage' # usage /\ usage' # Nothing /\ ~usage'.stale => usage'.token = token
             /\ backoff' < Smaller(backoff, MaxBackoff) /\ phase' # "none" => polled = token
    <2>1. CASE PollOk \/ PollFails
        BY <1>1, <2>1, UsageSuccessStep
    <2>2. CASE (\E t \in Tokens : Get(t)) \/ Tick \/ StartPoll \/ ProcessRestart
        <3>1. ~(backoff < Smaller(backoff, MaxBackoff))
            BY <1>1, OAuthUsageAssumption DEF UsageInv, UsageTypeOK, MaxSleep, Larger, Smaller
        <3>2. QED BY <2>2, <3>1, UsageNoAnswerStep
    <2>3. QED BY <1>1, <2>1, <2>2 DEF UsageNext, Loop
<1>2. QED BY <1>1, UsageInvariantTheorem, PTL DEF UsageSpec, OnlyOwnSuccess
=============================================================================
