----------------------------- MODULE RateLimiter -----------------------------
(***************************************************************************)
(* The concurrency limiter of ratelimit.go: a per-name and a global count  *)
(* of slots in use, guarded by one mutex, and FIFO lists of channels on    *)
(* which blocked callers of Acquire sleep.  Every critical section of      *)
(* r.mu is one action.  The channel a caller makes is identified with the  *)
(* caller, since it has at most one at a time; `token' says whether the    *)
(* channel's one-place buffer is full.                                     *)
(***************************************************************************)
EXTENDS Naturals, Sequences, FiniteSets

CONSTANTS Caller,       \* goroutines that call Acquire or TryAcquire
          Name,         \* command names
          Global,       \* the key "" of the waiters map
          Limits,       \* values SetLimit / SetGlobalLimit may give (0: no limit)
          InitLimits,   \* initial per-name limits
          InitGlobal,   \* initial global limit
          Cancellable,  \* callers whose context may be cancelled while they wait
          Reconfigure   \* may limits be changed at run time?

ASSUME ConstantsAssumption ==
    /\ IsFiniteSet(Caller)
    /\ Name # {} /\ Global \notin Name
    /\ Limits \subseteq Nat
    /\ InitLimits \in [Name -> Nat]
    /\ InitGlobal \in Nat
    /\ Cancellable \subseteq Caller
    /\ Reconfigure \in BOOLEAN

VARIABLES limits,    \* limits[n], 0 when the map has no entry for n
          global,    \* global limit, 0 for unlimited
          current,   \* slots in use by name
          globalCt,  \* slots in use in total
          waiters,   \* waiters[q]: callers sleeping on list q, oldest first
          pc,        \* where each caller is
          name,      \* the name each caller acquires for
          list,      \* the list a sleeping caller put its channel on
          token      \* token[c]: c's channel holds a wake-up

vars == <<limits, global, current, globalCt, waiters, pc, name, list, token>>

Key == Name \cup {Global}

TypeOK ==
    /\ limits \in [Name -> Nat]
    /\ global \in Nat
    /\ current \in [Name -> Nat]
    /\ globalCt \in Nat
    /\ waiters \in [Key -> Seq(Caller)]
    /\ pc \in [Caller -> {"idle", "acquire", "wait", "cancelled", "held"}]
    /\ name \in [Caller -> Name]
    /\ list \in [Caller -> Key]
    /\ token \in [Caller -> BOOLEAN]

Init ==
    /\ limits = InitLimits
    /\ global = InitGlobal
    /\ current = [n \in Name |-> 0]
    /\ globalCt = 0
    /\ waiters = [q \in Key |-> <<>>]
    /\ pc = [c \in Caller |-> "idle"]
    /\ name = [c \in Caller |-> CHOOSE n \in Name : TRUE]
    /\ list = [c \in Caller |-> Global]
    /\ token = [c \in Caller |-> FALSE]
-----------------------------------------------------------------------------
GlobalFull == global > 0 /\ globalCt >= global
NameFullOffByOne(n) == limits[n] > 0 /\ current[n] > limits[n]  \* mutant: > for >=
NameFull(n) == limits[n] > 0 /\ current[n] >= limits[n]

\* The slot itself: both counts go up under the same lock.
TakeSlot(c) ==
    /\ current' = [current EXCEPT ![name[c]] = @ + 1]
    /\ globalCt' = globalCt + 1
    /\ pc' = [pc EXCEPT ![c] = "held"]

\* A caller enters Acquire for a name.
Call(c, n) ==
    /\ pc[c] = "idle"
    /\ name' = [name EXCEPT ![c] = n]
    /\ pc' = [pc EXCEPT ![c] = "acquire"]
    /\ UNCHANGED <<limits, global, current, globalCt, waiters, list, token>>

\* A fresh channel goes to the end of list q and the caller sleeps on it.
Sleep(c, q) ==
    /\ waiters' = [waiters EXCEPT ![q] = Append(@, c)]
    /\ list' = [list EXCEPT ![c] = q]
    /\ token' = [token EXCEPT ![c] = FALSE]
    /\ pc' = [pc EXCEPT ![c] = "wait"]
    /\ UNCHANGED <<current, globalCt>>

\* One round of Acquire's loop: the global limit is checked before the name's.
Acquire(c) ==
    /\ pc[c] = "acquire"
    /\ \/ GlobalFull /\ Sleep(c, Global)
       \/ ~GlobalFull /\ NameFull(name[c]) /\ Sleep(c, name[c])
       \/ /\ ~GlobalFull /\ ~NameFull(name[c])
          /\ TakeSlot(c)
          /\ UNCHANGED <<waiters, list, token>>
    /\ UNCHANGED <<limits, global, name>>

\* TryAcquire: one critical section, no sleeping.
TryAcquire(c, n) ==
    /\ pc[c] = "idle"
    /\ IF GlobalFull \/ NameFull(n)
       THEN UNCHANGED <<current, globalCt, pc, name>>
       ELSE /\ name' = [name EXCEPT ![c] = n]
            /\ current' = [current EXCEPT ![n] = @ + 1]
            /\ globalCt' = globalCt + 1
            /\ pc' = [pc EXCEPT ![c] = "held"]
    /\ UNCHANGED <<limits, global, waiters, list, token>>

\* The sleeping caller receives from its channel and loops.
Wake(c) ==
    /\ pc[c] = "wait" /\ token[c]
    /\ token' = [token EXCEPT ![c] = FALSE]
    /\ pc' = [pc EXCEPT ![c] = "acquire"]
    /\ UNCHANGED <<limits, global, current, globalCt, waiters, name, list>>

\* The select takes the ctx.Done branch; it may do so with a wake-up waiting
\* in the channel.
CtxDone(c) ==
    /\ pc[c] = "wait" /\ c \in Cancellable
    /\ pc' = [pc EXCEPT ![c] = "cancelled"]
    /\ UNCHANGED <<limits, global, current, globalCt, waiters, name, list, token>>

\* Mutant: removes the oldest waiter of the list instead of the caller's own.
RemoveOldestWaiter(c) ==
    /\ pc[c] = "cancelled"
    /\ waiters' = [waiters EXCEPT ![list[c]] = IF @ = <<>> THEN @ ELSE Tail(@)]
    /\ pc' = [pc EXCEPT ![c] = "idle"]
    /\ token' = [token EXCEPT ![c] = FALSE]
    /\ UNCHANGED <<limits, global, current, globalCt, name, list>>

\* Mutant: a cancelled wait gives back a slot it never had.
RemoveWaiterReleasing(c) ==
    /\ pc[c] = "cancelled"
    /\ globalCt' = globalCt - 1
    /\ pc' = [pc EXCEPT ![c] = "idle"]
    /\ token' = [token EXCEPT ![c] = FALSE]
    /\ UNCHANGED <<limits, global, current, waiters, name, list>>

\* waiters[:i] followed by waiters[i+1:], for the i at which c's channel is found.
Without(s, c) ==
    IF \E i \in 1..Len(s) : s[i] = c
    THEN LET i == CHOOSE i \in 1..Len(s) : s[i] = c
         IN  SubSeq(s, 1, i - 1) \o SubSeq(s, i + 1, Len(s))
    ELSE s

\* removeWaiter, and Acquire returns ctx.Err().  The channel may already have
\* been popped by release, in which case there is nothing to remove.
RemoveWaiter(c) ==
    /\ pc[c] = "cancelled"
    /\ waiters' = [waiters EXCEPT ![list[c]] = Without(@, c)]
    /\ pc' = [pc EXCEPT ![c] = "idle"]
    /\ token' = [token EXCEPT ![c] = FALSE]
    /\ UNCHANGED <<limits, global, current, globalCt, name, list>>

\* release: give the slot back, wake the oldest waiter of the name and the
\* oldest global waiter.
Notified(q) == IF waiters[q] = <<>> THEN {} ELSE {Head(waiters[q])}

\* Mutant: the wake-up of the global waiters is forgotten.
ReleaseWakesNameOnly(c) ==
    /\ pc[c] = "held"
    /\ current' = [current EXCEPT ![name[c]] = @ - 1]
    /\ globalCt' = globalCt - 1
    /\ waiters' = [waiters EXCEPT ![name[c]] = IF @ = <<>> THEN @ ELSE Tail(@)]
    /\ token' = [w \in Caller |-> token[w] \/ w \in Notified(name[c])]
    /\ pc' = [pc EXCEPT ![c] = "idle"]
    /\ UNCHANGED <<limits, global, name, list>>

\* Mutant: the global count is not given back when the name still has waiters.
ReleaseKeepsGlobal(c) ==
    /\ pc[c] = "held"
    /\ current' = [current EXCEPT ![name[c]] = @ - 1]
    /\ globalCt' = IF waiters[name[c]] = <<>> THEN globalCt - 1 ELSE globalCt
    /\ waiters' = [waiters EXCEPT ![name[c]] = IF @ = <<>> THEN @ ELSE Tail(@)]
    /\ token' = [w \in Caller |-> token[w] \/ w \in Notified(name[c])]
    /\ pc' = [pc EXCEPT ![c] = "idle"]
    /\ UNCHANGED <<limits, global, name, list>>

Release(c) ==
    /\ pc[c] = "held"
    /\ LET n == name[c] IN
       /\ current' = [current EXCEPT ![n] = IF @ > 0 THEN @ - 1 ELSE @]
       /\ globalCt' = IF globalCt > 0 THEN globalCt - 1 ELSE globalCt
       /\ waiters' = [q \in Key |->
                        IF q \in {n, Global} /\ waiters[q] # <<>>
                        THEN Tail(waiters[q]) ELSE waiters[q]]
       /\ token' = [w \in Caller |->
                        token[w] \/ w \in Notified(n) \cup Notified(Global)]
    /\ pc' = [pc EXCEPT ![c] = "idle"]
    /\ UNCHANGED <<limits, global, name, list>>

\* Limits may be changed while commands run; nobody is woken.
SetLimit(n, l) ==
    /\ Reconfigure
    /\ limits' = [limits EXCEPT ![n] = l]
    /\ UNCHANGED <<global, current, globalCt, waiters, pc, name, list, token>>

SetGlobalLimit(l) ==
    /\ Reconfigure
    /\ global' = l
    /\ UNCHANGED <<limits, current, globalCt, waiters, pc, name, list, token>>

Step(c) ==
    \/ \E n \in Name : Call(c, n) \/ TryAcquire(c, n)
    \/ Acquire(c)
    \/ Wake(c)
    \/ CtxDone(c)
    \/ RemoveWaiter(c)
    \/ Release(c)

Next ==
    \/ \E c \in Caller : Step(c)
    \/ \E n \in Name, l \in Limits : SetLimit(n, l)
    \/ \E l \in Limits : SetGlobalLimit(l)

Spec == Init /\ [][Next]_vars

\* A goroutine inside Acquire that can run, runs; a handler that holds a slot
\* returns.  Nobody is obliged to call again, and no context has to be cancelled.
Fairness ==
    \A c \in Caller :
        WF_vars(Acquire(c)) /\ WF_vars(Wake(c)) /\ WF_vars(RemoveWaiter(c)) /\ WF_vars(Release(c))

FairSpec == Spec /\ Fairness
-----------------------------------------------------------------------------
Holders(n) == {c \in Caller : pc[c] = "held" /\ name[c] = n}
AllHolders == {c \in Caller : pc[c] = "held"}

\* The counters of ratelimit.go are exact: each is the number of callers that
\* hold a slot and have not released it, through every mixture of Acquire,
\* TryAcquire, cancelled waits and changed limits.  The `if > 0' guards of
\* release therefore never hide a miscount.
SlotsCounted ==
    /\ \A n \in Name : current[n] = Cardinality(Holders(n))
    /\ globalCt = Cardinality(AllHolders)

\* The waiter lists and the sleeping callers agree: a caller that sleeps with an
\* empty channel is on the list it chose, so that some release can find it, and
\* a list holds only such callers, each once.
SleepersListed ==
    /\ \A c \in Caller : pc[c] = "wait" /\ ~token[c] =>
            \E i \in DOMAIN waiters[list[c]] : waiters[list[c]][i] = c
    /\ \A q \in Key : \A i \in DOMAIN waiters[q] :
            LET c == waiters[q][i] IN
            /\ pc[c] \in {"wait", "cancelled"} /\ list[c] = q /\ ~token[c]
            /\ \A j \in DOMAIN waiters[q] : waiters[q][j] = c => i = j

\* A step that takes a slot never takes it beyond the limits in force: the
\* check and the increment of Acquire and TryAcquire are one critical section.
\* (A limit lowered below the current count is exceeded until slots come back,
\* but no step makes it worse.)
NeverOverLimit ==
    [][/\ \A n \in Name : current'[n] > current[n] =>
            limits[n] = 0 \/ current'[n] <= limits[n]
       /\ globalCt' > globalCt => global = 0 \/ globalCt' <= global]_vars

Disturbed ==
    \/ \E c \in Caller : pc[c] = "cancelled"
    \/ limits # InitLimits \/ global # InitGlobal

\* c sleeps with an empty channel although both limits leave room for it.
IdleSlot(c) == pc[c] = "wait" /\ ~token[c] /\ ~GlobalFull /\ ~NameFull(name[c])

\* No wake-up is lost for good: unless some wait is cancelled or some limit is
\* changed, no caller sleeps in Acquire for ever beside a slot that stays free,
\* whatever the mix of name and global waiters and however often the callers
\* come back.  (A woken waiter may find its slot taken again by a later call,
\* any number of times: Acquire is not fair, and nothing stronger holds.)
SlotsNotWasted ==
    <>Disturbed \/ \A c \in Caller : []<>~IdleSlot(c)

\* What the comment of Acquire says without exception: it blocks until a slot is
\* available or the context is cancelled, so nobody sleeps for ever beside a slot
\* that stays free.
BlocksUntilSlot == \A c \in Caller : []<>~IdleSlot(c)
=============================================================================
