-------------------------- MODULE RateLimiterProofs --------------------------
(***************************************************************************)
(* Proofs about RateLimiter for any finite set of callers, any names and   *)
(* any limits: type correctness, exact slot counts, that no step takes a   *)
(* slot beyond the limits in force, and that every sleeper can be found.   *)
(***************************************************************************)
EXTENDS RateLimiter, FiniteSetTheorems, SequenceTheorems, TLAPS

\* Removing a caller from a waiter list leaves a list of callers.
LEMMA WithoutType ==
    ASSUME NEW S, NEW s \in Seq(S), NEW c
    PROVE  Without(s, c) \in Seq(S)
<1>1. CASE \E i \in 1..Len(s) : s[i] = c
  <2> DEFINE i == CHOOSE i \in 1..Len(s) : s[i] = c
  <2>1. i \in 1..Len(s)
    BY <1>1
  <2> HIDE DEF i
  <2>2. SubSeq(s, 1, i - 1) \in Seq(S)
    BY <2>1, \A j \in 1..(i-1) : s[j] \in S, SubSeqProperties, LenProperties
  <2>3. SubSeq(s, i + 1, Len(s)) \in Seq(S)
    BY <2>1, \A j \in (i+1)..Len(s) : s[j] \in S, SubSeqProperties, LenProperties
  <2>4. Without(s, c) = SubSeq(s, 1, i - 1) \o SubSeq(s, i + 1, Len(s))
    BY <1>1 DEF Without, i
  <2> QED
    BY <2>2, <2>3, <2>4, ConcatProperties
<1>2. CASE ~ \E i \in 1..Len(s) : s[i] = c
  BY <1>2 DEF Without
<1> QED
  BY <1>1, <1>2

-----------------------------------------------------------------------------
\* Every action of the limiter keeps the variables within their types.
LEMMA TypeInductive == TypeOK /\ [Next]_vars => TypeOK'
<1> SUFFICES ASSUME TypeOK, [Next]_vars PROVE TypeOK'
  OBVIOUS
<1> USE ConstantsAssumption DEF TypeOK, Key
<1>1. ASSUME NEW c \in Caller, NEW n \in Name, Call(c, n) PROVE TypeOK'
  <2>2. name' \in [Caller -> Name] /\ pc' \in [Caller -> {"idle", "acquire", "wait", "cancelled", "held"}]
    BY <1>1 DEF Call
  <2> QED
    BY <1>1, <2>2 DEF Call
<1>2. ASSUME NEW c \in Caller, NEW n \in Name, TryAcquire(c, n) PROVE TypeOK'
  <2>2. UNCHANGED <<limits, global, waiters, list, token>>
    BY <1>2, Zenon DEF TryAcquire
  <2>3. CASE GlobalFull \/ NameFull(n)
    <3>1. UNCHANGED <<current, globalCt, pc, name>>
      BY <1>2, <2>3 DEF TryAcquire
    <3> QED
      BY <2>2, <3>1
  <2>4. CASE ~(GlobalFull \/ NameFull(n))
    <3>1. /\ name' = [name EXCEPT ![c] = n]
          /\ current' = [current EXCEPT ![n] = current[n] + 1]
          /\ globalCt' = globalCt + 1
          /\ pc' = [pc EXCEPT ![c] = "held"]
      BY <1>2, <2>4 DEF TryAcquire
    <3>2. current' \in [Name -> Nat] /\ globalCt' \in Nat
      BY <3>1
    <3>3. name' \in [Caller -> Name] /\ pc' \in [Caller -> {"idle", "acquire", "wait", "cancelled", "held"}]
      BY <3>1
    <3> QED
      BY <2>2, <3>2, <3>3
  <2> QED
    BY <2>3, <2>4
<1>3. ASSUME NEW c \in Caller, Acquire(c) PROVE TypeOK'
  <2>1. ASSUME NEW q \in Key, Sleep(c, q) PROVE TypeOK'
    BY <1>3, <2>1, SMTT(30) DEF Acquire, Sleep
  <2>2. CASE TakeSlot(c) /\ UNCHANGED <<waiters, list, token>>
    <3>1. current' \in [Name -> Nat] /\ globalCt' \in Nat
      BY <2>2 DEF TakeSlot
    <3>2. pc' \in [Caller -> {"idle", "acquire", "wait", "cancelled", "held"}]
      BY <2>2 DEF TakeSlot
    <3> QED
      BY <1>3, <2>2, <3>1, <3>2 DEF Acquire
  <2> QED
    BY <1>3, <2>1, <2>2 DEF Acquire
<1>4. ASSUME NEW c \in Caller, Wake(c) PROVE TypeOK'
  BY <1>4 DEF Wake
<1>5. ASSUME NEW c \in Caller, CtxDone(c) PROVE TypeOK'
  BY <1>5 DEF CtxDone
<1>6. ASSUME NEW c \in Caller, RemoveWaiter(c) PROVE TypeOK'
  <2>1. Without(waiters[list[c]], c) \in Seq(Caller)
    BY WithoutType
  <2> QED
    BY <1>6, <2>1 DEF RemoveWaiter
<1>7. ASSUME NEW c \in Caller, Release(c) PROVE TypeOK'
  <2>1. \A q \in Key : waiters[q] # <<>> => Tail(waiters[q]) \in Seq(Caller)
    BY HeadTailProperties
  <2>2. waiters' \in [Key -> Seq(Caller)]
    BY <1>7, <2>1 DEF Release
  <2>3. token' \in [Caller -> BOOLEAN]
    BY <1>7, Zenon DEF Release
  <2>4. current' \in [Name -> Nat] /\ globalCt' \in Nat
    BY <1>7 DEF Release
  <2> QED
    BY <1>7, <2>2, <2>3, <2>4 DEF Release
<1>8. ASSUME NEW n \in Name, NEW l \in Limits, SetLimit(n, l) PROVE TypeOK'
  BY <1>8 DEF SetLimit
<1>9. ASSUME NEW l \in Limits, SetGlobalLimit(l) PROVE TypeOK'
  BY <1>9 DEF SetGlobalLimit
<1>10. CASE UNCHANGED vars
  BY <1>10 DEF vars
<1> QED
  BY <1>1, <1>2, <1>3, <1>4, <1>5, <1>6, <1>7, <1>8, <1>9, <1>10 DEF Next, Step

\* The variables of the limiter always have their types; in particular the
\* counters never go below zero and every waiter list holds callers only.
THEOREM TypeCorrect == Spec => []TypeOK
<1>1. Init => TypeOK
  BY ConstantsAssumption DEF Init, TypeOK, Key
<1> QED
  BY <1>1, TypeInductive, PTL DEF Spec
-----------------------------------------------------------------------------
\* The sets of holders are finite.
LEMMA HoldersFinite ==
    /\ IsFiniteSet(AllHolders)
    /\ \A n \in Name : IsFiniteSet(Holders(n))
BY FS_Subset, ConstantsAssumption DEF AllHolders, Holders

\* Taking a slot adds one holder, and both counters move with it.
LEMMA TakePreservesCount ==
    ASSUME TypeOK, SlotsCounted, NEW c \in Caller, NEW n \in Name,
           pc[c] # "held",
           pc' = [pc EXCEPT ![c] = "held"],
           name' = [name EXCEPT ![c] = n],
           current' = [current EXCEPT ![n] = @ + 1],
           globalCt' = globalCt + 1
    PROVE  SlotsCounted'
<1>1. AllHolders' = AllHolders \cup {c} /\ c \notin AllHolders
  BY DEF AllHolders, TypeOK
<1>2. \A m \in Name : Holders(m)' = IF m = n THEN Holders(m) \cup {c} ELSE Holders(m)
  BY DEF Holders, TypeOK
<1>3. \A m \in Name : c \notin Holders(m)
  BY DEF Holders
<1>4. globalCt' = Cardinality(AllHolders')
  BY <1>1, FS_AddElement, HoldersFinite DEF SlotsCounted
<1>5. ASSUME NEW m \in Name PROVE current'[m] = Cardinality(Holders(m)')
  <2>1. Cardinality(Holders(m) \cup {c}) = Cardinality(Holders(m)) + 1
    BY <1>3, FS_AddElement, HoldersFinite
  <2>2. current[m] = Cardinality(Holders(m))
    BY DEF SlotsCounted
  <2>3. current'[m] = IF m = n THEN current[m] + 1 ELSE current[m]
    BY DEF TypeOK
  <2> QED
    BY <1>2, <2>1, <2>2, <2>3
<1> QED
  BY <1>4, <1>5 DEF SlotsCounted

\* Steps that leave the counters, the names and the set of holders alone.
LEMMA OtherPreservesCount ==
    ASSUME TypeOK, SlotsCounted, UNCHANGED <<current, globalCt>>,
           \A c \in Caller : (pc'[c] = "held") <=> (pc[c] = "held"),
           \A c \in Caller : pc[c] = "held" => name'[c] = name[c]
    PROVE  SlotsCounted'
<1>1. AllHolders' = AllHolders
  BY DEF AllHolders
<1>2. \A n \in Name : Holders(n)' = Holders(n)
  BY DEF Holders
<1> QED
  BY <1>1, <1>2 DEF SlotsCounted

\* Exact counting: in every reachable state the per-name and the global count
\* equal the number of callers that hold a slot, for any number of callers, any
\* limits, and any order of acquiring, cancelling, reconfiguring and releasing.
THEOREM CountsExact == Spec => []SlotsCounted
<1>1. Init => SlotsCounted
  BY FS_EmptySet DEF Init, SlotsCounted, Holders, AllHolders
<1>2. TypeOK /\ SlotsCounted /\ [Next]_vars => SlotsCounted'
  <2> SUFFICES ASSUME TypeOK, SlotsCounted, [Next]_vars PROVE SlotsCounted'
    OBVIOUS
  <2>1. ASSUME NEW c \in Caller, NEW n \in Name, Call(c, n) PROVE SlotsCounted'
    BY <2>1, OtherPreservesCount DEF Call, TypeOK
  <2>2. ASSUME NEW c \in Caller, NEW n \in Name, TryAcquire(c, n) PROVE SlotsCounted'
    <3>1. CASE GlobalFull \/ NameFull(n)
      BY <2>2, <3>1, OtherPreservesCount DEF TryAcquire, TypeOK
    <3>2. CASE ~(GlobalFull \/ NameFull(n))
      BY <2>2, <3>2, TakePreservesCount DEF TryAcquire
    <3> QED
      BY <3>1, <3>2
  <2>3. ASSUME NEW c \in Caller, Acquire(c) PROVE SlotsCounted'
    <3>1. ASSUME NEW q \in Key, Sleep(c, q) PROVE SlotsCounted'
      BY <2>3, <3>1, OtherPreservesCount DEF Acquire, Sleep, TypeOK
    <3>2. CASE TakeSlot(c)
      <4>1. name' = [name EXCEPT ![c] = name[c]] /\ name[c] \in Name /\ pc[c] # "held"
        BY <2>3 DEF Acquire, TypeOK
      <4> QED
        BY <3>2, <4>1, TakePreservesCount DEF TakeSlot
    <3> QED
      BY <2>3, <3>1, <3>2 DEF Acquire, Key, TypeOK
  <2>4. ASSUME NEW c \in Caller, Wake(c) \/ CtxDone(c) \/ RemoveWaiter(c) PROVE SlotsCounted'
    BY <2>4, OtherPreservesCount DEF Wake, CtxDone, RemoveWaiter, TypeOK
  <2>5. ASSUME NEW c \in Caller, Release(c) PROVE SlotsCounted'
    <3>1. AllHolders' = AllHolders \ {c} /\ c \in AllHolders
      BY <2>5 DEF Release, AllHolders, TypeOK
    <3>2. \A m \in Name : Holders(m)' = IF m = name[c] THEN Holders(m) \ {c} ELSE Holders(m)
      BY <2>5 DEF Release, Holders, TypeOK
    <3>3. c \in Holders(name[c]) /\ name[c] \in Name
      BY <2>5 DEF Release, Holders, TypeOK
    <3>4. globalCt > 0 /\ current[name[c]] > 0
      BY <3>1, <3>3, HoldersFinite, FS_EmptySet, FS_CardinalityType DEF SlotsCounted, TypeOK
    <3>5. globalCt' = globalCt - 1
      BY <2>5, <3>4 DEF Release
    <3>6. current' = [current EXCEPT ![name[c]] = current[name[c]] - 1]
      BY <2>5, <3>4 DEF Release, TypeOK
    <3>7. globalCt' = Cardinality(AllHolders')
      BY <3>1, <3>5, FS_RemoveElement, HoldersFinite DEF SlotsCounted
    <3>8. ASSUME NEW m \in Name PROVE current'[m] = Cardinality(Holders(m)')
      <4>1. m = name[c] => Cardinality(Holders(m) \ {c}) = Cardinality(Holders(m)) - 1
        BY <3>3, FS_RemoveElement, HoldersFinite
      <4>2. current[m] = Cardinality(Holders(m))
        BY DEF SlotsCounted
      <4>3. current'[m] = IF m = name[c] THEN current[m] - 1 ELSE current[m]
        BY <3>6 DEF TypeOK
      <4> QED
        BY <3>2, <4>1, <4>2, <4>3
    <3> QED
      BY <3>7, <3>8 DEF SlotsCounted
  <2>6. ASSUME NEW n \in Name, NEW l \in Limits, SetLimit(n, l) PROVE SlotsCounted'
    BY <2>6, OtherPreservesCount DEF SetLimit
  <2>7. ASSUME NEW l \in Limits, SetGlobalLimit(l) PROVE SlotsCounted'
    BY <2>7, OtherPreservesCount DEF SetGlobalLimit
  <2>8. CASE UNCHANGED vars
    BY <2>8, OtherPreservesCount DEF vars
  <2> QED
    BY <2>1, <2>2, <2>3, <2>4, <2>5, <2>6, <2>7, <2>8 DEF Next, Step
<1> QED
  BY <1>1, <1>2, TypeCorrect, PTL DEF Spec
-----------------------------------------------------------------------------
\* No step takes a slot beyond the limits in force, for every value of the
\* constants: whoever increments a counter has just seen room in both.
THEOREM LimitsRespected == Spec => NeverOverLimit
<1> DEFINE Within ==
      /\ \A n \in Name : current'[n] > current[n] => limits[n] = 0 \/ current'[n] <= limits[n]
      /\ globalCt' > globalCt => global = 0 \/ globalCt' <= global
<1>1. TypeOK /\ [Next]_vars => [Within]_vars
  <2> SUFFICES ASSUME TypeOK, Next PROVE Within
    OBVIOUS
  <2>1. CASE UNCHANGED <<current, globalCt>>
    BY <2>1 DEF TypeOK
  <2>2. ASSUME NEW c \in Caller, NEW n \in Name, TryAcquire(c, n) PROVE Within
    <3>1. CASE GlobalFull \/ NameFull(n)
      BY <2>1, <2>2, <3>1 DEF TryAcquire
    <3>2. CASE ~(GlobalFull \/ NameFull(n))
      <4>1. /\ current' = [current EXCEPT ![n] = current[n] + 1]
            /\ globalCt' = globalCt + 1
        BY <2>2, <3>2 DEF TryAcquire
      <4> QED
        BY <3>2, <4>1 DEF GlobalFull, NameFull, TypeOK
    <3> QED
      BY <3>1, <3>2
  <2>3. ASSUME NEW c \in Caller, Acquire(c) PROVE Within
    <3>1. CASE ~GlobalFull /\ ~NameFull(name[c]) /\ TakeSlot(c)
      BY <3>1 DEF TakeSlot, GlobalFull, NameFull, TypeOK
    <3> QED
      BY <2>1, <2>3, <3>1 DEF Acquire, Sleep
  <2>4. ASSUME NEW c \in Caller, Release(c) PROVE Within
    BY <2>4 DEF Release, TypeOK
  <2> QED
    BY <2>1, <2>2, <2>3, <2>4
       DEF Next, Step, Call, Wake, CtxDone, RemoveWaiter, SetLimit, SetGlobalLimit
<1>2. NeverOverLimit <=> [][Within]_vars
  BY PTL DEF NeverOverLimit
<1> QED
  BY <1>1, <1>2, TypeCorrect, PTL DEF Spec
-----------------------------------------------------------------------------
\* What is left of a list of different callers when c is removed: the others,
\* in their order, each once.
LEMMA WithoutElements ==
    ASSUME NEW S, NEW s \in Seq(S), NEW c,
           \A i, j \in 1..Len(s) : s[i] = s[j] => i = j
    PROVE  /\ \A j \in 1..Len(Without(s, c)) :
                 Without(s, c)[j] # c /\ \E i \in 1..Len(s) : s[i] = Without(s, c)[j]
           /\ \A i \in 1..Len(s) : s[i] # c =>
                 \E j \in 1..Len(Without(s, c)) : Without(s, c)[j] = s[i]
           /\ \A i, j \in 1..Len(Without(s, c)) : Without(s, c)[i] = Without(s, c)[j] => i = j
<1> DEFINE t == Without(s, c)
<1>1. CASE \E i \in 1..Len(s) : s[i] = c
  <2> DEFINE m == CHOOSE i \in 1..Len(s) : s[i] = c
             a == SubSeq(s, 1, m - 1)
             b == SubSeq(s, m + 1, Len(s))
  <2>1. m \in 1..Len(s) /\ s[m] = c
    BY <1>1
  <2>2. t = a \o b
    BY <1>1 DEF Without
  <2> HIDE DEF m, t
  <2>3. a \in Seq(S) /\ Len(a) = m - 1 /\ \A j \in 1..(m - 1) : a[j] = s[j]
    BY <2>1, \A j \in 1..(m-1) : s[j] \in S, SubSeqProperties, LenProperties
  <2>4. b \in Seq(S) /\ Len(b) = Len(s) - m /\ \A j \in 1..(Len(s) - m) : b[j] = s[m + j]
    BY <2>1, \A j \in (m+1)..Len(s) : s[j] \in S, SubSeqProperties, LenProperties
  <2> HIDE DEF a, b
  <2>5. Len(t) = Len(s) - 1
    BY <2>1, <2>2, <2>3, <2>4, ConcatProperties
  <2>6. \A j \in 1..Len(t) : t[j] = IF j < m THEN s[j] ELSE s[j + 1]
    <3> SUFFICES ASSUME NEW j \in 1..Len(t) PROVE t[j] = IF j < m THEN s[j] ELSE s[j + 1]
      OBVIOUS
    <3>1. CASE j < m
      BY <2>1, <2>2, <2>3, <2>4, <2>5, <3>1, ConcatProperties
    <3>2. CASE ~(j < m)
      <4>1. t[j] = b[j - Len(a)]
        BY <2>1, <2>2, <2>3, <2>4, <2>5, <3>2, ConcatProperties, SMTT(30)
      <4>2. j - Len(a) \in 1..(Len(s) - m) /\ m + (j - Len(a)) = j + 1
        BY <2>1, <2>3, <2>5, <3>2
      <4> QED BY <2>4, <3>2, <4>1, <4>2
    <3> QED BY <3>1, <3>2
  <2>7. \A j \in 1..Len(t) : \E i \in 1..Len(s) : i # m /\ s[i] = t[j]
    BY <2>1, <2>5, <2>6
  <2>8. \A i \in 1..Len(s) : i # m => \E j \in 1..Len(t) : t[j] = s[i]
    <3> SUFFICES ASSUME NEW i \in 1..Len(s), i # m PROVE \E j \in 1..Len(t) : t[j] = s[i]
      OBVIOUS
    <3>1. CASE i < m
      BY <2>1, <2>5, <2>6, <3>1
    <3>2. CASE i > m
      <4>1. i - 1 \in 1..Len(t) /\ ~(i - 1 < m) /\ (i - 1) + 1 = i
        BY <2>1, <2>5, <3>2
      <4> QED BY <2>6, <4>1
    <3> QED BY <2>1, <3>1, <3>2
  <2>9. \A i, j \in 1..Len(t) : t[i] = t[j] => i = j
    BY <2>1, <2>5, <2>6
  <2>10. \A i \in 1..Len(s) : (s[i] = c) <=> (i = m)
    BY <2>1
  <2> HIDE DEF t
  <2>11. \A j \in 1..Len(t) : t[j] # c /\ \E i \in 1..Len(s) : s[i] = t[j]
    BY <2>7, <2>10
  <2>12. \A i \in 1..Len(s) : s[i] # c => \E j \in 1..Len(t) : t[j] = s[i]
    BY <2>8, <2>10
  <2> QED BY <2>9, <2>11, <2>12, Zenon DEF t
<1>2. CASE ~ \E i \in 1..Len(s) : s[i] = c
  BY <1>2 DEF Without
<1> QED
  BY <1>1, <1>2

\* c sleeps with an empty channel; q's list holds c.
Asleep(c) == pc[c] = "wait" /\ ~token[c]
OnList(q, c) == \E i \in 1..Len(waiters[q]) : waiters[q][i] = c


\* SleepersListed in these terms.
AsleepListed == \A c \in Caller : Asleep(c) => OnList(list[c], c)
ListedWait ==
    \A q \in Key, c \in Caller : OnList(q, c) =>
        pc[c] \in {"wait", "cancelled"} /\ list[c] = q /\ ~token[c]
ListedOnce ==
    \A q \in Key : \A i, j \in 1..Len(waiters[q]) : waiters[q][i] = waiters[q][j] => i = j

LEMMA ListedParts ==
    ASSUME TypeOK
    PROVE  SleepersListed <=> AsleepListed /\ ListedWait /\ ListedOnce
<1>1. \A q \in Key : waiters[q] \in Seq(Caller) /\ DOMAIN waiters[q] = 1..Len(waiters[q])
  BY DEF TypeOK
<1>2. \A q \in Key : \A i \in 1..Len(waiters[q]) : waiters[q][i] \in Caller
  BY <1>1
<1>3. \A c \in Caller : list[c] \in Key
  BY DEF TypeOK
<1> QED
  BY <1>1, <1>2, <1>3 DEF SleepersListed, Asleep, OnList, AsleepListed, ListedWait, ListedOnce

\* A step that leaves the lists alone and neither puts a caller to sleep nor
\* changes one that is listed.
LEMMA OtherKeepsListed ==
    ASSUME TypeOK, AsleepListed, ListedWait, ListedOnce, UNCHANGED <<waiters, list>>,
           \A c \in Caller : Asleep(c)' => Asleep(c),
           \A c \in Caller, q \in Key : OnList(q, c) => pc'[c] \in {"wait", "cancelled"} /\ ~token'[c]
    PROVE  AsleepListed' /\ ListedWait' /\ ListedOnce'
<1>1. \A q, c : OnList(q, c)' <=> OnList(q, c)
  BY DEF OnList
<1>2. ListedOnce'
  BY DEF ListedOnce
<1> QED
  BY <1>1, <1>2 DEF AsleepListed, ListedWait

\* The caller goes to sleep at the end of a list.
LEMMA SleepKeepsListed ==
    ASSUME TypeOK, AsleepListed, ListedWait, ListedOnce, NEW c \in Caller, NEW q \in Key,
           pc[c] = "acquire", Sleep(c, q)
    PROVE  AsleepListed' /\ ListedWait' /\ ListedOnce'
<1>0. /\ waiters' = [waiters EXCEPT ![q] = Append(waiters[q], c)]
      /\ list' = [list EXCEPT ![c] = q] /\ token' = [token EXCEPT ![c] = FALSE]
      /\ pc' = [pc EXCEPT ![c] = "wait"]
  BY DEF Sleep, TypeOK
<1>1. \A p \in Key : ~OnList(p, c)
  BY DEF ListedWait
<1>2. /\ \A p \in Key : waiters[p] \in Seq(Caller)
      /\ \A p \in Key : waiters'[p] = IF p = q THEN Append(waiters[q], c) ELSE waiters[p]
  BY <1>0 DEF TypeOK
<1>3. /\ Len(waiters'[q]) = Len(waiters[q]) + 1 /\ waiters'[q][Len(waiters[q]) + 1] = c
      /\ \A i \in 1..Len(waiters[q]) : waiters'[q][i] = waiters[q][i]
      /\ Len(waiters[q]) \in Nat
  <2>1. \A s \in Seq(Caller) : /\ Len(Append(s, c)) = Len(s) + 1 /\ Append(s, c)[Len(s) + 1] = c
                               /\ \A i \in 1..Len(s) : Append(s, c)[i] = s[i]
                               /\ Len(s) \in Nat
    OBVIOUS
  <2> QED BY <1>2, <2>1
<1>4. \A d, p : p # q /\ p \in Key => (OnList(p, d)' <=> OnList(p, d))
  BY <1>2 DEF OnList
<1>5. \A d : OnList(q, d)' <=> OnList(q, d) \/ d = c
  BY <1>3 DEF OnList
<1>6. ListedOnce'
  <2>1. \A i \in 1..Len(waiters[q]) : waiters[q][i] # c
    BY <1>1 DEF OnList
  <2>2. \A i, j \in 1..Len(waiters[q]) : waiters[q][i] = waiters[q][j] => i = j
    BY DEF ListedOnce
  <2> DEFINE n == Len(waiters[q])
             s == waiters[q]
             t == waiters'[q]
  <2>3. n \in Nat /\ t[n + 1] = c /\ \A i \in 1..n : t[i] = s[i] /\ s[i] # c
    BY <1>3, <2>1
  <2>4. \A i, j \in 1..n : s[i] = s[j] => i = j
    BY <2>2
  <2> HIDE DEF n, s, t
  <2>5. \A i, j \in 1..(n + 1) : t[i] = t[j] => i = j
    BY <2>3, <2>4
  <2>6. \A i, j \in 1..Len(waiters'[q]) : waiters'[q][i] = waiters'[q][j] => i = j
    BY <1>3, <2>5 DEF n, t
  <2> QED BY <1>2, <2>6 DEF ListedOnce
<1>7. ListedWait'
  BY <1>0, <1>1, <1>4, <1>5 DEF ListedWait, TypeOK
<1>8. ASSUME NEW d \in Caller, Asleep(d)' PROVE OnList(list[d], d)'
  <2>1. CASE d = c
    BY <1>0, <1>5, <2>1 DEF TypeOK
  <2>2. CASE d # c
    <3>1. Asleep(d) /\ list'[d] = list[d] /\ list[d] \in Key
      BY <1>0, <1>8, <2>2 DEF Asleep, TypeOK
    <3>2. OnList(list[d], d)
      BY <3>1 DEF AsleepListed
    <3> QED BY <1>4, <1>5, <3>1, <3>2
  <2> QED BY <2>1, <2>2
<1> QED
  BY <1>6, <1>7, <1>8 DEF AsleepListed

\* A cancelled caller takes itself off its list.
LEMMA RemoveKeepsListed ==
    ASSUME TypeOK, AsleepListed, ListedWait, ListedOnce, NEW c \in Caller, RemoveWaiter(c)
    PROVE  AsleepListed' /\ ListedWait' /\ ListedOnce'
<1> SUFFICES ASSUME NEW q \in Key, q = list[c]
             PROVE  AsleepListed' /\ ListedWait' /\ ListedOnce'
  BY DEF TypeOK
<1>0. /\ waiters' = [waiters EXCEPT ![q] = Without(waiters[q], c)]
      /\ list' = list /\ token' = [token EXCEPT ![c] = FALSE]
      /\ pc' = [pc EXCEPT ![c] = "idle"]
  BY DEF RemoveWaiter, TypeOK
<1>1. /\ \A p \in Key : waiters[p] \in Seq(Caller)
      /\ \A p \in Key : waiters'[p] = IF p = q THEN Without(waiters[q], c) ELSE waiters[p]
  BY <1>0 DEF TypeOK
<1>2. /\ \A d : OnList(q, d)' <=> OnList(q, d) /\ d # c
      /\ \A i, j \in 1..Len(waiters'[q]) : waiters'[q][i] = waiters'[q][j] => i = j
  <2>1. waiters[q] \in Seq(Caller) /\ waiters'[q] = Without(waiters[q], c)
    BY <1>0, <1>1
  <2>2. \A i, j \in 1..Len(waiters[q]) : waiters[q][i] = waiters[q][j] => i = j
    BY <1>0 DEF ListedOnce
  <2> DEFINE s == waiters[q]
             t == Without(s, c)
  <2>3. /\ \A j \in 1..Len(t) : t[j] # c /\ \E i \in 1..Len(s) : s[i] = t[j]
        /\ \A i \in 1..Len(s) : s[i] # c => \E j \in 1..Len(t) : t[j] = s[i]
        /\ \A i, j \in 1..Len(t) : t[i] = t[j] => i = j
    BY <2>1, <2>2, WithoutElements, Zenon
  <2>4. waiters'[q] = t
    BY <2>1
  <2>5. \A d : OnList(q, d) <=> \E i \in 1..Len(s) : s[i] = d
    BY DEF OnList
  <2>6. \A d : OnList(q, d)' <=> \E i \in 1..Len(t) : t[i] = d
    BY <2>4 DEF OnList
  <2> HIDE DEF s, t
  <2>7. \A d : (\E i \in 1..Len(t) : t[i] = d) <=> (\E i \in 1..Len(s) : s[i] = d) /\ d # c
    BY <2>3
  <2>8. \A i, j \in 1..Len(waiters'[q]) : waiters'[q][i] = waiters'[q][j] => i = j
    BY <2>3, <2>4
  <2> QED BY <2>5, <2>6, <2>7, <2>8
<1>3. \A d, p : p # q /\ p \in Key => (OnList(p, d)' <=> OnList(p, d))
  BY <1>1 DEF OnList
<1>4. ListedOnce'
  BY <1>1, <1>2 DEF ListedOnce
<1>5. \A p \in Key : OnList(p, c) => p = q
  BY DEF ListedWait
<1>6. ListedWait'
  BY <1>0, <1>2, <1>3, <1>5 DEF ListedWait, TypeOK
<1>7. ASSUME NEW d \in Caller, Asleep(d)' PROVE OnList(list[d], d)'
  <2>1. d # c /\ Asleep(d) /\ list'[d] = list[d] /\ list[d] \in Key
    BY <1>0, <1>7 DEF Asleep, TypeOK
  <2>2. OnList(list[d], d)
    BY <2>1 DEF AsleepListed
  <2> QED BY <1>2, <1>3, <2>1, <2>2
<1> QED
  BY <1>4, <1>6, <1>7 DEF AsleepListed

\* A release wakes the oldest waiter of each of two lists, and takes it off.
LEMMA ReleaseKeepsListed ==
    ASSUME TypeOK, AsleepListed, ListedWait, ListedOnce, NEW c \in Caller, Release(c)
    PROVE  AsleepListed' /\ ListedWait' /\ ListedOnce'
<1> DEFINE Q == {name[c], Global}
<1>0. /\ waiters' = [q \in Key |-> IF q \in Q /\ waiters[q] # <<>> THEN Tail(waiters[q]) ELSE waiters[q]]
      /\ token' = [w \in Caller |-> token[w] \/ w \in Notified(name[c]) \cup Notified(Global)]
      /\ list' = list /\ pc' = [pc EXCEPT ![c] = "idle"] /\ Q \subseteq Key /\ pc[c] = "held"
  <2>1. name[c] \in Name
    BY DEF TypeOK
  <2> QED BY <2>1 DEF Release, TypeOK, Key
<1> DEFINE Woken(d) == \E q \in Q : waiters[q] # <<>> /\ d = Head(waiters[q])
<1>1. \A d \in Caller : token'[d] = (token[d] \/ Woken(d))
  <2>1. \A d : Woken(d) <=> d \in Notified(name[c]) \cup Notified(Global)
    BY DEF Notified
  <2> QED BY <1>0, <2>1
<1>2. \A q \in Key : waiters[q] \in Seq(Caller)
  BY DEF TypeOK
<1>3. ASSUME NEW q \in Key
      PROVE  /\ \A d : OnList(q, d)' <=> OnList(q, d) /\ ~(q \in Q /\ waiters[q] # <<>> /\ d = Head(waiters[q]))
             /\ \A i, j \in 1..Len(waiters'[q]) : waiters'[q][i] = waiters'[q][j] => i = j
  <2>1. CASE q \in Q /\ waiters[q] # <<>>
    <3> DEFINE s == waiters[q]
               t == Tail(s)
    <3>1. waiters'[q] = t /\ s \in Seq(Caller) /\ s # <<>>
      BY <1>0, <1>2, <2>1
    <3>2. /\ Len(s) \in Nat \ {0} /\ Len(t) = Len(s) - 1 /\ Head(s) = s[1]
          /\ \A i \in 1..Len(t) : t[i] = s[i + 1]
      BY <3>1
    <3>3. \A i, j \in 1..Len(s) : s[i] = s[j] => i = j
      BY DEF ListedOnce
    <3> HIDE DEF s, t
    <3>4. \A d : (\E i \in 1..Len(t) : t[i] = d) <=> (\E i \in 1..Len(s) : s[i] = d) /\ d # Head(s)
      <4>1. ASSUME NEW i \in 1..Len(t) PROVE i + 1 \in 1..Len(s) /\ t[i] = s[i + 1] /\ s[i + 1] # s[1]
        BY <3>2, <3>3
      <4>2. ASSUME NEW i \in 1..Len(s), s[i] # s[1] PROVE i - 1 \in 1..Len(t) /\ t[i - 1] = s[i]
        BY <3>2, <4>2
      <4> QED BY <3>2, <4>1, <4>2
    <3>5. \A i, j \in 1..Len(t) : t[i] = t[j] => i = j
      BY <3>2, <3>3
    <3>6. \A d : OnList(q, d) <=> \E i \in 1..Len(s) : s[i] = d
      BY DEF OnList, s
    <3>7. \A d : OnList(q, d)' <=> \E i \in 1..Len(t) : t[i] = d
      BY <3>1 DEF OnList
    <3> QED BY <2>1, <3>1, <3>4, <3>5, <3>6, <3>7 DEF s
  <2>2. CASE ~(q \in Q /\ waiters[q] # <<>>)
    <3>1. waiters'[q] = waiters[q]
      BY <1>0, <2>2
    <3> QED BY <2>2, <3>1 DEF OnList, ListedOnce
  <2> QED BY <2>1, <2>2
<1>4. \A q \in Q : waiters[q] # <<>> => OnList(q, Head(waiters[q])) /\ Head(waiters[q]) \in Caller
  <2> SUFFICES ASSUME NEW q \in Q, waiters[q] # <<>>
               PROVE  OnList(q, Head(waiters[q])) /\ Head(waiters[q]) \in Caller
    OBVIOUS
  <2>1. waiters[q] \in Seq(Caller)
    BY <1>0, <1>2
  <2> QED BY <2>1 DEF OnList
<1> HIDE DEF Q, Woken
<1>5. ListedOnce'
  BY <1>3 DEF ListedOnce
<1>6. ASSUME NEW q \in Key, NEW d \in Caller, OnList(q, d)'
      PROVE  pc'[d] \in {"wait", "cancelled"} /\ list'[d] = q /\ ~token'[d]
  <2>1. OnList(q, d) /\ ~(q \in Q /\ waiters[q] # <<>> /\ d = Head(waiters[q]))
    BY <1>3, <1>6
  <2>2. pc[d] \in {"wait", "cancelled"} /\ list[d] = q /\ ~token[d]
    BY <2>1 DEF ListedWait
  <2>3. ~Woken(d)
    <3>1. ASSUME NEW p \in Q, waiters[p] # <<>>, d = Head(waiters[p]) PROVE FALSE
      <4>1. p \in Key /\ OnList(p, d)
        BY <1>0, <1>4, <3>1
      <4>2. p = q
        BY <2>2, <4>1 DEF ListedWait
      <4> QED BY <2>1, <3>1, <4>2
    <3> QED BY <3>1 DEF Woken
  <2>4. pc'[d] = pc[d]
    BY <1>0, <2>2 DEF TypeOK
  <2> QED BY <1>0, <1>1, <2>2, <2>3, <2>4
<1>7. ASSUME NEW d \in Caller, Asleep(d)' PROVE OnList(list[d], d)'
  <2>1. pc[d] = "wait" /\ ~token[d] /\ ~Woken(d) /\ list[d] \in Key
    BY <1>0, <1>1, <1>7 DEF Asleep, TypeOK
  <2>2. OnList(list[d], d)
    BY <2>1 DEF AsleepListed, Asleep
  <2>3. OnList(list[d], d) => \/ list'[d] = list[d] /\ OnList(list[d], d)'
                              \/ Woken(d)
    BY <1>0, <1>3, <2>1 DEF Woken
  <2> QED BY <2>1, <2>2, <2>3
<1> QED
  BY <1>5, <1>6, <1>7 DEF AsleepListed, ListedWait

\* No sleeper is lost: whoever blocks in Acquire with an empty channel is on the
\* list it chose, and lists hold nobody else, for any number of callers and any
\* order of releases, cancelled waits and changed limits.
THEOREM EverySleeperListed == Spec => []SleepersListed
<1>1. Init => SleepersListed
  <2> SUFFICES ASSUME Init PROVE SleepersListed
    OBVIOUS
  <2>1. \A q \in Key : waiters[q] = <<>> /\ DOMAIN waiters[q] = {}
    BY DEF Init
  <2> QED BY <2>1 DEF Init, SleepersListed
<1>2. TypeOK /\ SleepersListed /\ [Next]_vars /\ TypeOK' => SleepersListed'
  <2>0. TypeOK' => (SleepersListed' <=> AsleepListed' /\ ListedWait' /\ ListedOnce')
    <3>1. TypeOK => (SleepersListed <=> AsleepListed /\ ListedWait /\ ListedOnce)
      BY ListedParts
    <3> QED BY <3>1, PTL
  <2> SUFFICES ASSUME TypeOK, AsleepListed, ListedWait, ListedOnce, [Next]_vars
               PROVE  AsleepListed' /\ ListedWait' /\ ListedOnce'
    BY <2>0, ListedParts
  <2>1. ASSUME NEW c \in Caller, NEW n \in Name, Call(c, n) \/ TryAcquire(c, n)
        PROVE  AsleepListed' /\ ListedWait' /\ ListedOnce'
    <3>1. /\ pc[c] = "idle" /\ UNCHANGED <<waiters, list, token>>
          /\ pc' = pc \/ pc' = [pc EXCEPT ![c] = "acquire"] \/ pc' = [pc EXCEPT ![c] = "held"]
      BY <2>1 DEF Call, TryAcquire
    <3> QED BY <3>1, OtherKeepsListed DEF Asleep, TypeOK, ListedWait
  <2>2. ASSUME NEW c \in Caller, Acquire(c)
        PROVE  AsleepListed' /\ ListedWait' /\ ListedOnce'
    <3>1. CASE TakeSlot(c) /\ UNCHANGED <<waiters, list, token>>
      BY <2>2, <3>1, OtherKeepsListed DEF Acquire, TakeSlot, Asleep, TypeOK, ListedWait
    <3>2. pc[c] = "acquire" /\ name[c] \in Key /\ Global \in Key
      BY <2>2 DEF Acquire, TypeOK, Key
    <3> QED BY <2>2, <3>1, <3>2, SleepKeepsListed DEF Acquire
  <2>3. ASSUME NEW c \in Caller, Wake(c)
        PROVE  AsleepListed' /\ ListedWait' /\ ListedOnce'
    <3>1. \A q \in Key : ~OnList(q, c)
      BY <2>3 DEF Wake, ListedWait
    <3>2. /\ UNCHANGED <<waiters, list>>
          /\ \A d \in Caller : d # c => pc'[d] = pc[d] /\ token'[d] = token[d]
          /\ pc'[c] = "acquire"
      BY <2>3 DEF Wake, TypeOK
    <3>3. \A d \in Caller : Asleep(d)' => Asleep(d)
      BY <3>2 DEF Asleep
    <3>4. \A d \in Caller, q \in Key : OnList(q, d) => pc'[d] \in {"wait", "cancelled"} /\ ~token'[d]
      BY <3>1, <3>2 DEF ListedWait
    <3> QED BY <3>2, <3>3, <3>4, OtherKeepsListed
  <2>4. ASSUME NEW c \in Caller, CtxDone(c)
        PROVE  AsleepListed' /\ ListedWait' /\ ListedOnce'
    BY <2>4, OtherKeepsListed DEF CtxDone, Asleep, TypeOK, ListedWait
  <2>5. CASE UNCHANGED <<waiters, list, pc, token>>
    BY <2>5, OtherKeepsListed DEF Asleep, ListedWait
  <2> QED
    BY <2>1, <2>2, <2>3, <2>4, <2>5, RemoveKeepsListed, ReleaseKeepsListed
       DEF Next, Step, SetLimit, SetGlobalLimit, vars
<1> QED
  BY <1>1, <1>2, TypeCorrect, PTL DEF Spec
=============================================================================
