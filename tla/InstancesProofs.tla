--------------------------- MODULE InstancesProofs ---------------------------
(* What the transitions of an instance preserve, for the proofs of the executors. *)
EXTENDS Instances, TLAPS

\* Every transition yields an instance with the same id.
LEMMA TransitionTypes ==
    ASSUME NEW i \in Instance, NEW t \in Nat, NEW d \in BOOLEAN
    PROVE  /\ Started(i) \in Instance /\ Started(i).id = i.id
           /\ Unresolved(i) \in Instance /\ Unresolved(i).id = i.id
           /\ Repeating(i, t) \in Instance /\ Repeating(i, t).id = i.id
           /\ Completed(i) \in Instance /\ Completed(i).id = i.id
           /\ Failed(i, d) \in Instance /\ Failed(i, d).id = i.id
           /\ Panicked(i) \in Instance /\ Panicked(i).id = i.id
           /\ Expired(i) \in Instance /\ Expired(i).id = i.id
           /\ Cancelled(i) \in Instance /\ Cancelled(i).id = i.id
           /\ Replayed(i, t) \in Instance /\ Replayed(i, t).id = i.id
           /\ Recovered(i) \in Instance /\ Recovered(i).id = i.id
<1> USE DEF Instance, Status
<1>1. Started(i) \in Instance /\ Started(i).id = i.id
  <2>1. i.attempt + 1 \in Nat
    OBVIOUS
  <2> QED BY <2>1 DEF Started
<1>2. Unresolved(i) \in Instance /\ Unresolved(i).id = i.id
  BY DEF Unresolved
<1>3. Repeating(i, t) \in Instance /\ Repeating(i, t).id = i.id
  BY DEF Repeating
<1>4. Completed(i) \in Instance /\ Completed(i).id = i.id
  BY DEF Completed
<1>5. Failed(i, d) \in Instance /\ Failed(i, d).id = i.id
  BY DEF Failed
<1>6. Panicked(i) \in Instance /\ Panicked(i).id = i.id
  BY DEF Panicked
<1>7. Expired(i) \in Instance /\ Expired(i).id = i.id
  BY DEF Expired
<1>8. Cancelled(i) \in Instance /\ Cancelled(i).id = i.id
  BY DEF Cancelled
<1>9. Replayed(i, t) \in Instance /\ Replayed(i, t).id = i.id
  BY DEF Replayed
<1>10. Recovered(i) \in Instance /\ Recovered(i).id = i.id
  BY DEF Recovered
<1> QED BY <1>1, <1>2, <1>3, <1>4, <1>5, <1>6, <1>7, <1>8, <1>9, <1>10

\* A retry keeps the budget a natural number as long as it is not spent.
LEMMA ChargedTypes ==
    ASSUME NEW i \in Instance, i.retries > 0, NEW t \in Nat
    PROVE  /\ Retrying(i) \in Instance /\ Retrying(i).id = i.id
           /\ BackedOff(i, t) \in Instance /\ BackedOff(i, t).id = i.id
<1>0. i.retries - 1 \in Nat
  BY DEF Instance
<1>1. Retrying(i) \in Instance /\ Retrying(i).id = i.id
  BY <1>0 DEF Retrying, Instance, Status
<1>2. BackedOff(i, t) \in Instance /\ BackedOff(i, t).id = i.id
  BY <1>0 DEF BackedOff, Instance, Status
<1> QED BY <1>1, <1>2

\* createInstance makes an instance with the given id.
LEMMA NewInstanceType ==
    ASSUME NEW c \in Cmd, NEW r \in Nat, NEW t \in Nat, NEW d \in Nat
    PROVE  NewInstance(c, r, t, d) \in Instance /\ NewInstance(c, r, t, d).id = c
BY DEF NewInstance, Instance, Status

\* A row that is present is an instance; an absent one is blank.
LEMMA RowTypes ==
    /\ Instance \subseteq Row
    /\ NoInst \notin Instance
    /\ \A r \in Row : Present(r) => r \in Instance
    /\ \A c \in Cmd : /\ Blank(c, "NONE") \in Row /\ Blank(c, "NONE").id = c
                      /\ Blank(c, "GONE") \in Row /\ Blank(c, "GONE").id = c
<1>1. Instance \subseteq Row
  BY DEF Instance, Row
<1>2. NoInst \notin Instance
  BY <1>1, NoInstAssumption
<1>3. \A r \in Row : Present(r) => r \in Instance
  BY DEF Row, Instance, Present
<1>4. \A c \in Cmd : /\ Blank(c, "NONE") \in Row /\ Blank(c, "NONE").id = c
                     /\ Blank(c, "GONE") \in Row /\ Blank(c, "GONE").id = c
  BY DEF Blank, Row
<1> QED BY <1>1, <1>2, <1>3, <1>4
=============================================================================
