--------------------------- MODULE CavemanRewriter ---------------------------
(***************************************************************************)
(* The system-prompt rewriter of caveman_rewrite.py (ADR-0022): handler    *)
(* threads share a RewriteCache (memory over one file per key), one lock   *)
(* per key in flight, the rejects, and a pool whose slots bound the model  *)
(* calls.                                                                  *)
(*                                                                         *)
(* One action is one critical section, one file operation or one event of  *)
(* a model call.  A key stands for its prompt: the mode and the editor     *)
(* version are the same in all of them.                                    *)
(***************************************************************************)
EXTENDS Naturals, FiniteSets

CONSTANTS
    Callers,    \* handler threads
    Prompts,    \* system prompts clients send
    Rewrites,   \* edited prompts that valid replies produce
    Workers,    \* _MAX_WORKERS
    None

ASSUME CavemanRewriterAssumption ==
    /\ Prompts \cap Rewrites = {}
    /\ None \notin Prompts \cup Rewrites \cup Callers \cup Nat
    /\ IsFiniteSet(Callers)
    /\ Workers \in Nat \ {0}

VARIABLES
    guided,     \* the prompts with a communication section to edit
    mem,        \* RewriteCache._mem
    disk,       \* the files of RewriteCache
    rejects,    \* keys of _rejects whose time is not up
    keyLocks,   \* _key_locks
    holder,     \* the caller that holds each lock
    slots,      \* the value of _slots
    abandoned,  \* calls whose caller timed out
    finishing,  \* calls whose result is visible and whose callback has not run
    callers,    \* what each caller is doing
    failed,     \* history: keys whose lock was released with nothing cached
    accepted,   \* history: what valid replies make of each key
    rewritten   \* history: what callers were told to dispatch for each key

cache == <<mem, disk>>
pool == <<slots, abandoned, finishing>>
locks == <<keyLocks, holder>>
history == <<failed, accepted, rewritten>>
vars == <<guided, cache, rejects, locks, pool, callers, history>>

Systems == Prompts \cup Rewrites

\* A caller refers to at most one lock, so these are enough.
LockIds == 1..Cardinality(Callers)

Phases == {"idle", "memory", "disk", "install", "reject", "setdefault", "acquire",
           "compute", "wait", "save", "save_file", "release", "cleanup"}

\* value is the system read from a file or to be put in the cache; fixpoint says
\* it is being put under its own key.
CallerStates ==
    [phase : Phases, key : Prompts \cup {None}, lock : LockIds \cup {None},
     value : Systems \cup {None}, fixpoint : BOOLEAN]

Idle == [phase |-> "idle", key |-> None, lock |-> None, value |-> None, fixpoint |-> FALSE]

Init ==
    /\ guided \in SUBSET Prompts
    /\ mem = [s \in Systems |-> None] /\ disk = [s \in Systems |-> None]
    /\ rejects = {}
    /\ keyLocks = [p \in Prompts |-> None] /\ holder = [l \in LockIds |-> None]
    /\ slots = Workers /\ abandoned = 0 /\ finishing = 0
    /\ callers = [c \in Callers |-> Idle]
    /\ failed = {} /\ accepted = {} /\ rewritten = {}

At(c, phase) == callers[c].phase = phase
Become(c, s) == callers' = [callers EXCEPT ![c] = s]
Goto(c, phase) == Become(c, [callers[c] EXCEPT !.phase = phase])
GotoWith(c, phase, value) == Become(c, [callers[c] EXCEPT !.phase = phase, !.value = value])

\* A result without the lock is returned at once; with it, after its release.
Leave(c) == IF callers[c].lock = None THEN Become(c, Idle) ELSE Goto(c, "release")

\* The caller is told to dispatch a cached or fresh system; one that leaves
\* without being told dispatches the prompt as it is.
Tell(c, value) == rewritten' = rewritten \cup {<<callers[c].key, value>>}

-----------------------------------------------------------------------------
Request(c) ==
    /\ At(c, "idle")
    /\ \E p \in Prompts : Become(c, [Idle EXCEPT !.phase = "memory", !.key = p])
    /\ UNCHANGED <<guided, cache, rejects, locks, pool, history>>

\* RewriteCache.get, first half.
LookMemory(c) ==
    LET value == mem[callers[c].key] IN
    /\ At(c, "memory")
    /\ IF value # None THEN Leave(c) /\ Tell(c, value)
                       ELSE Goto(c, "disk") /\ UNCHANGED rewritten
    /\ UNCHANGED <<guided, cache, rejects, locks, pool, failed, accepted>>

LookDisk(c) ==
    LET value == disk[callers[c].key] IN
    /\ At(c, "disk")
    /\ IF value # None THEN GotoWith(c, "install", value) ELSE Goto(c, "reject")
    /\ UNCHANGED <<guided, cache, rejects, locks, pool, history>>

\* RewriteCache.get, second half: what the file held, whatever memory holds now.
Install(c) ==
    LET s == callers[c] IN
    /\ s.phase = "install"
    /\ mem' = [mem EXCEPT ![s.key] = s.value]
    /\ Tell(c, s.value) /\ Leave(c)
    /\ UNCHANGED <<guided, disk, rejects, locks, pool, failed, accepted>>

CheckReject(c) ==
    LET s == callers[c] IN
    /\ s.phase = "reject"
    /\ IF s.key \in rejects THEN Leave(c)
       ELSE Goto(c, IF s.lock = None THEN "setdefault" ELSE "compute")
    /\ UNCHANGED <<guided, cache, rejects, locks, pool, history>>

\* The time of a reject is up, or _MAX_REJECTS newer ones displaced it.
ForgetReject(p) ==
    /\ p \in rejects
    /\ rejects' = rejects \ {p}
    /\ UNCHANGED <<guided, cache, locks, pool, callers, history>>

-----------------------------------------------------------------------------
\* A lock no caller and no key refers to: the one threading.Lock() returns.
NewLock == CHOOSE l \in LockIds :
    /\ \A c \in Callers : callers[c].lock # l
    /\ \A p \in Prompts : keyLocks[p] # l

SetDefaultLock(c) ==
    LET s == callers[c]
        lock == IF keyLocks[s.key] = None THEN NewLock ELSE keyLocks[s.key]
    IN
    /\ s.phase = "setdefault"
    /\ keyLocks' = [keyLocks EXCEPT ![s.key] = lock]
    /\ Become(c, [s EXCEPT !.phase = "acquire", !.lock = lock])
    /\ UNCHANGED <<guided, cache, rejects, holder, pool, history>>

\* Mutant: the cache is not looked at again under the lock.
AcquireUnchecked(c) ==
    /\ At(c, "acquire") /\ holder[callers[c].lock] = None
    /\ holder' = [holder EXCEPT ![callers[c].lock] = c]
    /\ Goto(c, "reject")
    /\ UNCHANGED <<guided, cache, rejects, keyLocks, pool, history>>

\* Under the lock the cache and the rejects are looked at again.
Acquire(c) ==
    /\ At(c, "acquire") /\ holder[callers[c].lock] = None
    /\ holder' = [holder EXCEPT ![callers[c].lock] = c]
    /\ Goto(c, "memory")
    /\ UNCHANGED <<guided, cache, rejects, keyLocks, pool, history>>

\* 'busy': another caller held the lock for the whole timeout.
AcquireTimeout(c) ==
    /\ At(c, "acquire") /\ holder[callers[c].lock] # None
    /\ Become(c, Idle)
    /\ UNCHANGED <<guided, cache, rejects, locks, pool, history>>

-----------------------------------------------------------------------------
(***************************************************************************)
(* _compute.                                                               *)
(***************************************************************************)

\* Mutant: a failed call is remembered by caching the prompt as itself.
GiveUpCached(c) ==
    /\ GotoWith(c, "save", callers[c].key)
    /\ UNCHANGED failed

\* The prompt goes out as it is and nothing is cached.
GiveUp(c) ==
    /\ Goto(c, "release")
    /\ failed' = failed \cup {callers[c].key}

\* The system is what a valid answer makes of these keys.
Accept(keys, value) == accepted' = accepted \cup {<<k, value>> : k \in keys}

\* 'no_guidance': a prompt with no communication section is cached as itself.
NoGuidance(c) ==
    LET s == callers[c] IN
    /\ s.phase = "compute" /\ s.key \notin guided
    /\ GotoWith(c, "save", s.key) /\ Accept({s.key}, s.key)
    /\ UNCHANGED <<guided, cache, rejects, locks, pool, failed, rewritten>>

\* Mutant: a call is queued when every worker is taken.
SubmitQueued(c) ==
    /\ At(c, "compute") /\ callers[c].key \in guided
    /\ slots' = slots - 1
    /\ Goto(c, "wait")
    /\ UNCHANGED <<guided, cache, rejects, locks, abandoned, finishing, history>>

Submit(c) ==
    /\ At(c, "compute") /\ callers[c].key \in guided
    /\ slots > 0
    /\ slots' = slots - 1
    /\ Goto(c, "wait")
    /\ UNCHANGED <<guided, cache, rejects, locks, abandoned, finishing, history>>

\* 'busy': refused, not queued.
NotSubmitted(c) ==
    /\ At(c, "compute") /\ callers[c].key \in guided
    /\ slots = 0
    /\ GiveUp(c)
    /\ UNCHANGED <<guided, cache, rejects, locks, pool, accepted, rewritten>>

\* The call returns; its result is visible before its callback runs.
Returned == finishing' = finishing + 1 /\ UNCHANGED <<slots, abandoned>>

\* A valid reply: the edited prompt, or the prompt itself when no edit is left.
ValidReply(c) ==
    /\ At(c, "wait")
    /\ \E value \in Rewrites \cup {callers[c].key} :
          GotoWith(c, "save", value) /\ Accept({callers[c].key, value}, value)
    /\ Returned
    /\ UNCHANGED <<guided, cache, rejects, locks, failed, rewritten>>

\* 'rejected', remembered before the lock is released.
InvalidReply(c) ==
    /\ At(c, "wait")
    /\ rejects' = rejects \cup {callers[c].key}
    /\ GiveUp(c)
    /\ Returned
    /\ UNCHANGED <<guided, cache, locks, accepted, rewritten>>

\* The call raises, or pool.submit did and its slot was given back.
CallError(c) ==
    /\ At(c, "wait")
    /\ GiveUp(c)
    /\ Returned
    /\ UNCHANGED <<guided, cache, rejects, locks, accepted, rewritten>>

\* Mutant: the slot of an abandoned call is given back at once.
CallTimeoutFreeing(c) ==
    /\ At(c, "wait")
    /\ GiveUp(c)
    /\ abandoned' = abandoned + 1 /\ slots' = slots + 1
    /\ UNCHANGED <<guided, cache, rejects, locks, finishing, accepted, rewritten>>

\* Mutant: the reply is awaited without a timeout.
CallTimeoutNever(c) == At(c, "wait") /\ FALSE /\ UNCHANGED vars

\* The call goes on without its caller and keeps its worker.
CallTimeout(c) ==
    /\ At(c, "wait")
    /\ GiveUp(c)
    /\ abandoned' = abandoned + 1
    /\ UNCHANGED <<guided, cache, rejects, locks, slots, finishing, accepted, rewritten>>

AbandonedReturns ==
    /\ abandoned > 0
    /\ abandoned' = abandoned - 1 /\ finishing' = finishing + 1
    /\ UNCHANGED <<guided, cache, rejects, locks, slots, callers, history>>

\* The done-callback releases the slot.
SlotRelease ==
    /\ finishing > 0
    /\ finishing' = finishing - 1 /\ slots' = slots + 1
    /\ UNCHANGED <<guided, cache, rejects, locks, abandoned, callers, history>>

-----------------------------------------------------------------------------
\* The key a put is for: the prompt, then the rewrite itself.
PutKey(s) == IF s.fixpoint THEN s.value ELSE s.key

\* RewriteCache.put, first half.
SaveMemory(c) ==
    LET s == callers[c] IN
    /\ s.phase = "save"
    /\ mem' = [mem EXCEPT ![PutKey(s)] = s.value]
    /\ Goto(c, "save_file")
    /\ UNCHANGED <<guided, disk, rejects, locks, pool, history>>

\* RewriteCache.put, second half: the file is replaced, or an OSError is
\* logged.  A rewrite is then put once more under its own key.
SaveFile(c) ==
    LET s == callers[c] IN
    /\ s.phase = "save_file"
    /\ disk' \in {disk, [disk EXCEPT ![PutKey(s)] = s.value]}
    /\ IF s.value # PutKey(s)
       THEN Become(c, [s EXCEPT !.phase = "save", !.fixpoint = TRUE]) /\ UNCHANGED rewritten
       ELSE Goto(c, "release") /\ Tell(c, s.value)
    /\ UNCHANGED <<guided, mem, rejects, locks, pool, failed, accepted>>

Release(c) ==
    /\ At(c, "release")
    /\ holder' = [holder EXCEPT ![callers[c].lock] = None]
    /\ Goto(c, "cleanup")
    /\ UNCHANGED <<guided, cache, rejects, keyLocks, pool, history>>

\* Mutant: the lock is only dropped when somebody holds it.
CleanupHeld(c) ==
    LET s == callers[c]
        unused == keyLocks[s.key] = s.lock /\ holder[s.lock] # None
    IN
    /\ s.phase = "cleanup"
    /\ keyLocks' = IF unused THEN [keyLocks EXCEPT ![s.key] = None] ELSE keyLocks
    /\ Become(c, Idle)
    /\ UNCHANGED <<guided, cache, rejects, holder, pool, history>>

\* The key's lock is dropped unless it is another one or somebody holds it; a
\* caller that waits for it is not seen.
Cleanup(c) ==
    LET s == callers[c]
        unused == keyLocks[s.key] = s.lock /\ holder[s.lock] = None
    IN
    /\ s.phase = "cleanup"
    /\ keyLocks' = IF unused THEN [keyLocks EXCEPT ![s.key] = None] ELSE keyLocks
    /\ Become(c, Idle)
    /\ UNCHANGED <<guided, cache, rejects, holder, pool, history>>

-----------------------------------------------------------------------------
\* anthrouter restarts with the files in use in the last CACHE_MAX_AGE_SECS.
\* Only what they hold is promised to outlive the process.
Restart ==
    /\ \E kept \in SUBSET Systems :
          disk' = [s \in Systems |-> IF s \in kept THEN disk[s] ELSE None]
    /\ mem' = [s \in Systems |-> None]
    /\ rejects' = {}
    /\ keyLocks' = [p \in Prompts |-> None] /\ holder' = [l \in LockIds |-> None]
    /\ slots' = Workers /\ abandoned' = 0 /\ finishing' = 0
    /\ callers' = [c \in Callers |-> Idle]
    /\ rewritten' = {r \in rewritten : disk'[r[1]] # None}
    /\ UNCHANGED <<guided, failed, accepted>>

\* The steps a caller takes by itself: none waits for the model or for a lock
\* longer than its timeout.
Step(c) ==
    \/ LookMemory(c) \/ LookDisk(c) \/ Install(c) \/ CheckReject(c)
    \/ SetDefaultLock(c) \/ Acquire(c) \/ AcquireTimeout(c)
    \/ NoGuidance(c) \/ Submit(c) \/ NotSubmitted(c) \/ CallTimeout(c)
    \/ SaveMemory(c) \/ SaveFile(c) \/ Release(c) \/ Cleanup(c)

Reply(c) == ValidReply(c) \/ InvalidReply(c) \/ CallError(c)

Next ==
    \/ \E c \in Callers : Request(c) \/ Step(c) \/ Reply(c)
    \/ AbandonedReturns \/ SlotRelease
    \/ \E p \in Prompts : ForgetReject(p)
    \/ Restart

\* The threads run and their timeouts fire; nothing is assumed of the model.
Spec == Init /\ [][Next]_vars /\ \A c \in Callers : WF_vars(Step(c))

-----------------------------------------------------------------------------
(***************************************************************************)
(* Properties.                                                             *)
(***************************************************************************)

TypeOK ==
    /\ guided \subseteq Prompts
    /\ mem \in [Systems -> Systems \cup {None}]
    /\ disk \in [Systems -> Systems \cup {None}]
    /\ rejects \subseteq Prompts
    /\ keyLocks \in [Prompts -> LockIds \cup {None}]
    /\ holder \in [LockIds -> Callers \cup {None}]
    /\ slots \in 0..Workers /\ abandoned \in 0..Workers /\ finishing \in 0..Workers
    /\ callers \in [Callers -> CallerStates]
    /\ failed \subseteq Prompts /\ accepted \subseteq Systems \X Systems
    /\ rewritten \subseteq Prompts \X Systems

\* Each slot is free or held by one call: hung calls cannot exceed the pool,
\* and none of the ways a call ends loses a slot or frees it twice.
SlotsConserved ==
    slots + abandoned + finishing + Cardinality({c \in Callers : At(c, "wait")}) = Workers

\* The cache holds only what a valid reply made of the prompt: a timeout, an
\* error, a reject or a late reply is never remembered as an answer, in memory
\* or on disk, in this process or the next.
CacheHoldsAccepted ==
    \A s, v \in Systems : mem[s] = v \/ disk[s] = v => <<s, v>> \in accepted

\* _key_locks does not grow: once no caller is in rewrite() it is empty.
LocksNotLeaked ==
    (\A c \in Callers : At(c, "idle")) => \A p \in Prompts : keyLocks[p] = None

\* Callers of a prompt are all told to dispatch the same system, in one process
\* and across restarts, unless a model call for it failed or its file is gone.
SamePromptUnlessFailed ==
    \A r, q \in rewritten : r[1] = q[1] /\ r[1] \notin failed => r[2] = q[2]

\* rewrite() returns, whatever the model, the other callers and the disk do.
EveryRequestReturns == \A c \in Callers : ~At(c, "idle") ~> At(c, "idle")

\* "Single flight per key: concurrent first sightings of one prompt make one
\* model call" (CavemanRewriter.rewrite).
SingleFlight ==
    \A c, d \in Callers :
        At(c, "wait") /\ At(d, "wait") /\ callers[c].key = callers[d].key => c = d
=============================================================================
