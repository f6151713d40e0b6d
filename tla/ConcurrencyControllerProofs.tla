-------------------- MODULE ConcurrencyControllerProofs --------------------
(***************************************************************************)
(* Proofs about ConcurrencyController, for any requests, models and        *)
(* limits.  The invariant says that each queue lists exactly the waiting   *)
(* requests of its model, that the controller's count is its holders and   *)
(* the lost slots, and that a request waits only while no slot is free.    *)
(***************************************************************************)
EXTENDS ConcurrencyController, FiniteSetTheorems, TLAPS

Placed == \A r \in Requests : phase[r] # "idle" => model[r] \in Models

IInv ==
  /\ TypeOK
  /\ Placed
  /\ QueueIsWaiting
  /\ SlotsAccounted
  /\ NoIdleSlots

Queues == Seq(Requests)

NoRepeats(q) == \A i, j \in 1 .. Len(q) : q[i] = q[j] => i = j

Members(q) == FirstOnes(q, Len(q))

----------------------------------------------------------------------------
(* The queue's operators.                                                  *)

\* How many a drain lets in: no more than wait, no more than the limit
\* allows, and all of them unless it is reached.
LEMMA DrainedFacts ==
  ASSUME NEW n \in Nat, NEW a \in Nat, NEW k \in Nat
  PROVE  /\ Drained(n, a, k) \in 0 .. n
         /\ Drained(n, a, k) > 0 => a + Drained(n, a, k) <= k
         /\ Drained(n, a, k) < n => ~Free(a + Drained(n, a, k), k)
  BY DEF Drained, Free

LEMMA RestFacts ==
  ASSUME NEW q \in Queues, NEW n \in 0 .. Len(q)
  PROVE  /\ RestOf(q, n) \in Queues
         /\ Len(RestOf(q, n)) = Len(q) - n
         /\ \A i \in 1 .. Len(q) - n : RestOf(q, n)[i] = q[n + i]
  BY DEF RestOf, Queues

\* The drained queue keeps the others, in their order and once each.
LEMMA RestMembers ==
  ASSUME NEW q \in Queues, NEW n \in 0 .. Len(q), NoRepeats(q)
  PROVE  /\ NoRepeats(RestOf(q, n))
         /\ Members(RestOf(q, n)) = Members(q) \ FirstOnes(q, n)
  <1> DEFINE rest == RestOf(q, n)
  <1>1. rest \in Queues /\ Len(rest) = Len(q) - n
        /\ \A i \in 1 .. Len(q) - n : rest[i] = q[n + i]
    BY RestFacts
  <1>2. Len(q) \in Nat
    BY DEF Queues
  <1> HIDE DEF rest
  <1>3. NoRepeats(rest)
    <2> SUFFICES ASSUME NEW i \in 1 .. Len(rest), NEW j \in 1 .. Len(rest), rest[i] = rest[j]
                 PROVE  i = j
      BY DEF NoRepeats
    <2>1. n + i \in 1 .. Len(q) /\ n + j \in 1 .. Len(q) /\ q[n + i] = q[n + j]
      BY <1>1, <1>2
    <2> QED
      BY <2>1, <1>1, <1>2 DEF NoRepeats
  <1>4. ASSUME NEW x \in Members(rest)
        PROVE  x \in Members(q) \ FirstOnes(q, n)
    <2>1. PICK i \in 1 .. Len(rest) : x = rest[i]
      BY DEF Members, FirstOnes
    <2>2. n + i \in 1 .. Len(q) /\ x = q[n + i]
      BY <2>1, <1>1, <1>2
    <2>3. \A j \in 1 .. n : q[j] # x
      BY <2>2, <1>2 DEF NoRepeats
    <2> QED
      BY <2>2, <2>3 DEF Members, FirstOnes
  <1>5. ASSUME NEW x \in Members(q) \ FirstOnes(q, n)
        PROVE  x \in Members(rest)
    <2>1. PICK i \in 1 .. Len(q) : x = q[i]
      BY DEF Members, FirstOnes
    <2>2. i > n
      BY <2>1, <1>2 DEF FirstOnes
    <2>3. i - n \in 1 .. Len(rest) /\ rest[i - n] = q[n + (i - n)]
      BY <2>2, <1>1, <1>2
    <2>4. n + (i - n) = i
      BY <1>2
    <2> QED
      BY <2>1, <2>3, <2>4 DEF Members, FirstOnes
  <1> QED
    BY <1>3, <1>4, <1>5 DEF rest

\* The first n of a queue without repetitions are n requests.
LEMMA FirstCount ==
  ASSUME NEW q \in Queues, NEW n \in 0 .. Len(q), NoRepeats(q)
  PROVE  /\ FirstOnes(q, n) \subseteq Requests
         /\ IsFiniteSet(FirstOnes(q, n))
         /\ Cardinality(FirstOnes(q, n)) = n
  <1> DEFINE f == [i \in 1 .. n |-> q[i]]
             S == FirstOnes(q, n)
  <1>1. Len(q) \in Nat /\ n \in Nat /\ \A i \in 1 .. n : i \in 1 .. Len(q) /\ q[i] \in Requests
    BY DEF Queues
  <1>2. S \subseteq Requests
    BY <1>1 DEF FirstOnes
  <1>3. IsFiniteSet(1 .. n) /\ Cardinality(1 .. n) = n
    BY <1>1, FS_Interval
  <1>4. f \in Bijection(1 .. n, S)
    <2>1. f \in [1 .. n -> S]
      BY DEF FirstOnes
    <2>2. \A i, j \in 1 .. n : f[i] = f[j] => i = j
      BY <1>1 DEF NoRepeats
    <2>3. \A x \in S : \E i \in 1 .. n : f[i] = x
      BY DEF FirstOnes
    <2> QED
      BY <2>1, <2>2, <2>3 DEF Bijection, Injection, Surjection, IsInjective
  <1>5. ExistsBijection(1 .. n, S)
    BY <1>4 DEF ExistsBijection
  <1> HIDE DEF S
  <1>6. IsFiniteSet(S) /\ Cardinality(S) = Cardinality(1 .. n)
    BY <1>3, <1>5, FS_Bijection
  <1> QED
    BY <1>2, <1>3, <1>6 DEF S

\* A newcomer at the end of the queue.
LEMMA AppendFacts ==
  ASSUME NEW q \in Queues, NEW r \in Requests, NoRepeats(q), r \notin Members(q)
  PROVE  /\ Append(q, r) \in Queues
         /\ NoRepeats(Append(q, r))
         /\ Members(Append(q, r)) = Members(q) \cup {r}
  <1>1. /\ Append(q, r) \in Queues /\ Len(q) \in Nat
        /\ Len(Append(q, r)) = Len(q) + 1
        /\ \A i \in 1 .. Len(q) : Append(q, r)[i] = q[i]
        /\ Append(q, r)[Len(q) + 1] = r
    BY DEF Queues
  <1>2. \A i \in 1 .. Len(q) : q[i] # r
    BY DEF Members, FirstOnes
  <1>3. NoRepeats(Append(q, r))
    BY <1>1, <1>2 DEF NoRepeats
  <1>4. Members(Append(q, r)) = Members(q) \cup {r}
    <2>1. Members(Append(q, r)) \subseteq Members(q) \cup {r}
      BY <1>1 DEF Members, FirstOnes
    <2>2. r \in Members(Append(q, r))
      BY <1>1 DEF Members, FirstOnes
    <2>3. Members(q) \subseteq Members(Append(q, r))
      BY <1>1 DEF Members, FirstOnes
    <2> QED
      BY <2>1, <2>2, <2>3
  <1> QED
    BY <1>1, <1>3, <1>4

\* A waiter that left.
LEMMA WithoutFacts ==
  ASSUME NEW q \in Queues, NEW r \in Members(q), NoRepeats(q)
  PROVE  /\ Without(q, r) \in Queues
         /\ Len(Without(q, r)) < Len(q)
         /\ NoRepeats(Without(q, r))
         /\ Members(Without(q, r)) = Members(q) \ {r}
  <1> DEFINE at == CHOOSE i \in 1 .. Len(q) : q[i] = r
             w == Without(q, r)
  <1>1. Len(q) \in Nat
    BY DEF Queues
  <1>2. at \in 1 .. Len(q) /\ q[at] = r
    <2>1. \E i \in 1 .. Len(q) : q[i] = r
      BY DEF Members, FirstOnes
    <2> QED
      BY <2>1
  <1>3. w = SubSeq(q, 1, at - 1) \o SubSeq(q, at + 1, Len(q))
    BY DEF Without
  <1> HIDE DEF at
  <1>4. /\ w \in Queues /\ Len(w) = Len(q) - 1
        /\ \A i \in 1 .. at - 1 : w[i] = q[i]
        /\ \A i \in at .. Len(q) - 1 : w[i] = q[i + 1]
    <2> DEFINE l == SubSeq(q, 1, at - 1)
               t == SubSeq(q, at + 1, Len(q))
    <2>1. l \in Queues /\ Len(l) = at - 1 /\ \A i \in 1 .. at - 1 : l[i] = q[i]
      BY <1>1, <1>2 DEF Queues
    <2>2. t \in Queues /\ Len(t) = Len(q) - at /\ \A i \in 1 .. Len(q) - at : t[i] = q[at + i]
      BY <1>1, <1>2 DEF Queues
    <2>3. w = l \o t
      BY <1>3
    <2> HIDE DEF l, t, w
    <2>4. w \in Queues /\ Len(w) = Len(l) + Len(t)
      <3>1. l \o t \in Queues
        BY <2>1, <2>2 DEF Queues
      <3>2. Len(l \o t) = Len(l) + Len(t)
        BY <2>1, <2>2 DEF Queues
      <3> QED
        BY <3>1, <3>2, <2>3
    <2>5. \A i \in 1 .. at - 1 : w[i] = l[i]
      BY <2>1, <2>2, <2>3, <1>1, <1>2 DEF Queues
    <2>6. \A i \in at .. Len(q) - 1 : w[i] = t[i - (at - 1)]
      BY <2>1, <2>2, <2>3, <1>1, <1>2 DEF Queues
    <2>7. \A i \in at .. Len(q) - 1 :
             i - (at - 1) \in 1 .. Len(q) - at /\ at + (i - (at - 1)) = i + 1
      BY <1>1, <1>2
    <2> QED
      BY <2>1, <2>2, <2>4, <2>5, <2>6, <2>7, <1>1, <1>2
  <1> HIDE DEF w
  <1>5. ASSUME NEW i \in 1 .. Len(w)
        PROVE  \E j \in 1 .. Len(q) :
                 w[i] = q[j] /\ j # at /\ j = IF i < at THEN i ELSE i + 1
    BY <1>1, <1>2, <1>4
  <1>6. NoRepeats(w)
    BY <1>1, <1>2, <1>4, <1>5 DEF NoRepeats
  <1>7. Members(w) \subseteq Members(q) \ {r}
    BY <1>2, <1>5 DEF Members, FirstOnes, NoRepeats
  <1>8. ASSUME NEW x \in Members(q) \ {r}
        PROVE  x \in Members(w)
    <2>1. PICK j \in 1 .. Len(q) : x = q[j] /\ j # at
      BY <1>2 DEF Members, FirstOnes
    <2>2. CASE j < at
      BY <2>1, <2>2, <1>1, <1>2, <1>4 DEF Members, FirstOnes
    <2>3. CASE j > at
      <3>1. j - 1 \in at .. Len(q) - 1 /\ (j - 1) + 1 = j
        BY <2>3, <1>1, <1>2
      <3>2. w[j - 1] = x /\ j - 1 \in 1 .. Len(w)
        BY <3>1, <2>1, <1>1, <1>2, <1>4
      <3> QED
        BY <3>2 DEF Members, FirstOnes
    <2> QED
      BY <2>1, <2>2, <2>3, <1>1, <1>2
  <1> QED
    BY <1>1, <1>4, <1>6, <1>7, <1>8 DEF w

----------------------------------------------------------------------------
(* The requests of a model.                                                *)

LEMMA HoldersFinite ==
  ASSUME NEW m
  PROVE  IsFiniteSet(Holders(m)) /\ Cardinality(Holders(m)) \in Nat
  <1>1. IsFiniteSet(Requests)
    BY RequestsAssumption
  <1>2. Holders(m) \in SUBSET Requests
    BY DEF Holders
  <1>3. IsFiniteSet(Holders(m))
    BY <1>1, <1>2, FS_Subset
  <1> QED
    BY <1>3, FS_CardinalityType

\* Requests that begin to hold a slot are counted once each.
LEMMA Joined ==
  ASSUME NEW S, IsFiniteSet(S), NEW T, IsFiniteSet(T), S \cap T = {}
  PROVE  /\ IsFiniteSet(S \cup T)
         /\ Cardinality(S \cup T) = Cardinality(S) + Cardinality(T)
  <1>1. Cardinality(S \cup T) = Cardinality(S) + Cardinality(T) - Cardinality(S \cap T)
        /\ IsFiniteSet(S \cup T)
    BY FS_Union
  <1>2. Cardinality(S \cap T) = 0
    BY FS_EmptySet
  <1>3. Cardinality(S) \in Nat /\ Cardinality(T) \in Nat
    BY FS_CardinalityType
  <1> QED
    BY <1>1, <1>2, <1>3

\* What the invariant says of one model.
ModelInv(m) ==
  /\ Members(queue[m]) = Waiting(m)
  /\ NoRepeats(queue[m])
  /\ active[m] = Cardinality(Holders(m)) + lost[m]
  /\ queue[m] # <<>> => ~Free(active[m], max[m])

LEMMA ByModel ==
  /\ IInv => TypeOK /\ Placed /\ \A m \in Models : ModelInv(m)
  /\ TypeOK /\ Placed /\ (\A m \in Models : ModelInv(m)) => IInv
  BY DEF IInv, ModelInv, QueueIsWaiting, SlotsAccounted, NoIdleSlots, Members, NoRepeats

LEMMA ByModelNext ==
  TypeOK' /\ Placed' /\ (\A m \in Models : ModelInv(m)') => IInv'
  BY DEF IInv, ModelInv, QueueIsWaiting, SlotsAccounted, NoIdleSlots, Members, NoRepeats

LEMMA EnteredFacts ==
  \A r \in Requests : Entered[r] \in {"credentials", "executing"}
  BY DEF Entered

\* Nothing of this model changes.
LEMMA Untouched ==
  ASSUME NEW x \in Models, ModelInv(x),
         queue'[x] = queue[x], active'[x] = active[x], max'[x] = max[x], lost'[x] = lost[x],
         Holders(x)' = Holders(x), Waiting(x)' = Waiting(x)
  PROVE  ModelInv(x)'
  BY DEF ModelInv

----------------------------------------------------------------------------
(* One lemma per action: the invariant, and who holds a slot after it.     *)

\* What asking does to the requests of its model and to the others.
LEMMA AskHolders ==
  ASSUME TypeOK, Placed, \A m \in Models : ModelInv(m),
         NEW r \in Requests, NEW m \in Models, NEW k \in Limits, Ask(r, m, k),
         NEW n, n = Drained(Len(queue[m]), active[m], k)
  PROVE  /\ n \in 0 .. Len(queue[m])
         /\ \A x \in Models : x # m =>
              Holders(x)' = Holders(x) /\ Waiting(x)' = Waiting(x)
         /\ Free(active[m] + n, k) =>
              /\ Holders(m)' = Holders(m) \cup (FirstOnes(queue[m], n) \cup {r})
              /\ Waiting(m)' = Waiting(m) \ FirstOnes(queue[m], n)
         /\ ~Free(active[m] + n, k) =>
              /\ Holders(m)' = Holders(m) \cup FirstOnes(queue[m], n)
              /\ Waiting(m)' = (Waiting(m) \ FirstOnes(queue[m], n)) \cup {r}
         /\ r \notin Holders(m) /\ r \notin Waiting(m)
         /\ FirstOnes(queue[m], n) \subseteq Waiting(m)
  <1> DEFINE q == queue[m]
             first == FirstOnes(q, n)
  <1>1. q \in Queues /\ active[m] \in Nat /\ k \in Nat /\ Len(q) \in Nat
    BY LimitsAssumption DEF TypeOK, Queues
  <1>2. n \in 0 .. Len(q)
    BY <1>1, DrainedFacts
  <1>3. first \subseteq Waiting(m)
    <2>1. first \subseteq Members(q)
      BY <1>1, <1>2 DEF FirstOnes, Members
    <2> QED
      BY <2>1 DEF ModelInv
  <1>4. phase[r] = "idle" /\ r \notin Holders(m) /\ r \notin Waiting(m)
    BY DEF Ask, Holders, Waiting
  <1>5. \A y \in Requests : model'[y] = IF y = r THEN m ELSE model[y]
    BY DEF Ask, TypeOK
  <1>6. \A y \in Requests : y # r =>
          phase'[y] = IF y \in first THEN Entered[y] ELSE phase[y]
    BY DEF Ask, Enter
  <1>7. /\ Free(active[m] + n, k) => phase'[r] = Entered[r]
        /\ ~Free(active[m] + n, k) => phase'[r] = "queued"
    BY DEF Ask, Enter
  <1> HIDE DEF q, first
  <1>8. \A x \in Models : x # m => Holders(x)' = Holders(x) /\ Waiting(x)' = Waiting(x)
    <2> SUFFICES ASSUME NEW x \in Models, x # m
                 PROVE  Holders(x)' = Holders(x) /\ Waiting(x)' = Waiting(x)
      OBVIOUS
    <2>1. \A y \in first : model[y] = m
      BY <1>3 DEF Waiting
    <2>2. Holders(x)' = Holders(x)
      BY <2>1, <1>4, <1>5, <1>6 DEF Holders
    <2>3. Waiting(x)' = Waiting(x)
      BY <2>1, <1>4, <1>5, <1>6 DEF Waiting
    <2> QED
      BY <2>2, <2>3
  <1>9. ASSUME Free(active[m] + n, k)
        PROVE  /\ Holders(m)' = Holders(m) \cup (first \cup {r})
               /\ Waiting(m)' = Waiting(m) \ first
    <2>1. Holders(m)' = Holders(m) \cup (first \cup {r})
      BY <1>3, <1>4, <1>5, <1>6, <1>7, <1>9, EnteredFacts DEF Holders, Waiting
    <2>2. Waiting(m)' = Waiting(m) \ first
      BY <1>3, <1>4, <1>5, <1>6, <1>7, <1>9, EnteredFacts DEF Waiting
    <2> QED
      BY <2>1, <2>2
  <1>10. ASSUME ~Free(active[m] + n, k)
         PROVE  /\ Holders(m)' = Holders(m) \cup first
                /\ Waiting(m)' = (Waiting(m) \ first) \cup {r}
    <2>1. Holders(m)' = Holders(m) \cup first
      BY <1>3, <1>4, <1>5, <1>6, <1>7, <1>10, EnteredFacts DEF Holders, Waiting
    <2>2. Waiting(m)' = (Waiting(m) \ first) \cup {r}
      BY <1>3, <1>4, <1>5, <1>6, <1>7, <1>10, EnteredFacts DEF Waiting
    <2> QED
      BY <2>1, <2>2
  <1> QED
    BY <1>2, <1>3, <1>4, <1>8, <1>9, <1>10 DEF q, first

\* A waiter's way out of the queue.
LEMMA WaiterQueued ==
  ASSUME TypeOK, Placed, \A m \in Models : ModelInv(m),
         NEW r \in Requests, phase[r] = "queued"
  PROVE  model[r] \in Models /\ r \in Members(queue[model[r]])
  <1>1. model[r] \in Models
    BY DEF Placed
  <1>2. r \in Waiting(model[r])
    BY DEF Waiting
  <1> QED
    BY <1>1, <1>2 DEF ModelInv

\* What the end of an execution does to the requests of its model.
LEMMA FinishHolders ==
  ASSUME TypeOK, Placed, \A m \in Models : ModelInv(m),
         NEW r \in Requests, Finish(r),
         NEW m \in Models, m = model[r],
         NEW n, n = Drained(Len(queue[m]), active[m] - 1, max[m])
  PROVE  /\ m \in Models /\ active[m] \in Nat \ {0} /\ n \in 0 .. Len(queue[m])
         /\ \A x \in Models : x # m =>
              Holders(x)' = Holders(x) /\ Waiting(x)' = Waiting(x)
         /\ Holders(m)' = (Holders(m) \ {r}) \cup FirstOnes(queue[m], n)
         /\ r \in Holders(m)
         /\ FirstOnes(queue[m], n) \subseteq Waiting(m)
  <1> DEFINE q == queue[m]
             first == FirstOnes(q, n)
  <1>1. m \in Models /\ r \in Holders(m) /\ phase[r] = "executing"
    BY DEF Finish, Placed, Holders
  <1>2. q \in Queues /\ max[m] \in Nat /\ Len(q) \in Nat /\ lost[m] \in Nat
    BY <1>1, LimitsAssumption, LostAssumption DEF TypeOK, Queues
  <1>3. active[m] \in Nat \ {0}
    <2>1. active[m] = Cardinality(Holders(m)) + lost[m]
      BY <1>1 DEF ModelInv
    <2>2. Cardinality(Holders(m)) \in Nat /\ IsFiniteSet(Holders(m))
      BY HoldersFinite
    <2>3. Cardinality(Holders(m)) # 0
      BY <1>1, <2>2, FS_EmptySet
    <2> QED
      BY <2>1, <2>2, <2>3, <1>2
  <1>4. n \in 0 .. Len(q)
    <2>1. active[m] - 1 \in Nat
      BY <1>3
    <2>2. Drained(Len(q), active[m] - 1, max[m]) \in 0 .. Len(q)
      BY <1>2, <2>1, DrainedFacts
    <2> QED
      BY <2>2
  <1>5. first \subseteq Waiting(m)
    <2>1. first \subseteq Members(q)
      BY <1>2, <1>4 DEF FirstOnes, Members
    <2> QED
      BY <1>1, <2>1 DEF ModelInv
  <1>6. r \notin first
    BY <1>1, <1>5 DEF Waiting
  <1>7. \A y \in Requests : model'[y] = IF y = r THEN NoModel ELSE model[y]
    BY DEF Finish, TypeOK
  <1>8. \A y \in Requests :
          phase'[y] = IF y = r THEN "idle" ELSE IF y \in first THEN Entered[y] ELSE phase[y]
    BY DEF Finish, Enter
  <1> HIDE DEF q, first
  <1>9. \A y \in first : model[y] = m /\ phase[y] = "queued"
    BY <1>5 DEF Waiting
  <1>10. \A x \in Models : x # m => Holders(x)' = Holders(x) /\ Waiting(x)' = Waiting(x)
    <2> SUFFICES ASSUME NEW x \in Models, x # m
                 PROVE  Holders(x)' = Holders(x) /\ Waiting(x)' = Waiting(x)
      OBVIOUS
    <2>1. Holders(x)' = Holders(x)
      BY <1>7, <1>8, <1>9, <1>1, ModelAssumption DEF Holders
    <2>2. Waiting(x)' = Waiting(x)
      BY <1>7, <1>8, <1>9, <1>1, ModelAssumption DEF Waiting
    <2> QED
      BY <2>1, <2>2
  <1>11. Holders(m)' = (Holders(m) \ {r}) \cup first
    BY <1>1, <1>6, <1>5, <1>7, <1>8, <1>9, EnteredFacts DEF Holders, Waiting
  <1> QED
    BY <1>1, <1>3, <1>4, <1>5, <1>10, <1>11 DEF q, first

LEMMA FinishWaiting ==
  ASSUME TypeOK, NEW r \in Requests, Finish(r),
         NEW m \in Models, m = model[r],
         NEW n, n = Drained(Len(queue[m]), active[m] - 1, max[m]),
         FirstOnes(queue[m], n) \subseteq Waiting(m)
  PROVE  Waiting(m)' = Waiting(m) \ FirstOnes(queue[m], n)
  <1> DEFINE first == FirstOnes(queue[m], n)
  <1>1. \A y \in Requests : model'[y] = IF y = r THEN NoModel ELSE model[y]
    BY DEF Finish, TypeOK
  <1>2. \A y \in Requests :
          phase'[y] = IF y = r THEN "idle" ELSE IF y \in first THEN Entered[y] ELSE phase[y]
    BY DEF Finish, Enter
  <1>3. phase[r] = "executing"
    BY DEF Finish
  <1> HIDE DEF first
  <1>4. Waiting(m)' = Waiting(m) \ first
    BY <1>1, <1>2, <1>3, EnteredFacts DEF Waiting
  <1> QED
    BY <1>4 DEF first

LEMMA TypeNext ==
  ASSUME TypeOK, [Next]_vars, Placed, \A m \in Models : ModelInv(m)
  PROVE  TypeOK'
  <1>1. \A r \in Requests, m \in Models, k \in Limits : Ask(r, m, k) => TypeOK'
    <2> SUFFICES ASSUME NEW r \in Requests, NEW m \in Models, NEW k \in Limits, Ask(r, m, k)
                 PROVE  TypeOK'
      OBVIOUS
    <2> DEFINE n == Drained(Len(queue[m]), active[m], k)
    <2>1. n \in 0 .. Len(queue[m])
      BY AskHolders
    <2>2. queue[m] \in Queues /\ RestOf(queue[m], n) \in Queues
          /\ Append(RestOf(queue[m], n), r) \in Queues
      <3>1. queue[m] \in Queues
        BY DEF TypeOK, Queues
      <3>2. RestOf(queue[m], n) \in Queues
        BY <2>1, <3>1, RestFacts
      <3> QED
        BY <3>1, <3>2 DEF Queues
    <2> HIDE DEF n
    <2>3. /\ active' = [active EXCEPT ![m] = active[m] + n + 1]
             \/ active' = [active EXCEPT ![m] = active[m] + n]
          /\ queue' = [queue EXCEPT ![m] = RestOf(queue[m], n)]
             \/ queue' = [queue EXCEPT ![m] = Append(RestOf(queue[m], n), r)]
      BY DEF Ask, n
    <2>4. active' \in [Models -> Nat]
      <3>1. active[m] + n + 1 \in Nat /\ active[m] + n \in Nat
        BY <2>1, <2>2 DEF TypeOK, Queues
      <3> QED
        BY <2>3, <3>1 DEF TypeOK
    <2>5. queue' \in [Models -> Seq(Requests)]
      BY <2>2, <2>3 DEF TypeOK, Queues
    <2>6. phase' \in [Requests -> Phases]
      <3>1. \A S : Enter(S, phase) \in [Requests -> Phases]
        BY EnteredFacts DEF Enter, TypeOK, Phases
      <3>2. \A S, T : Enter(S, Enter(T, phase)) \in [Requests -> Phases]
        BY EnteredFacts, <3>1 DEF Enter, Phases
      <3> QED
        BY <3>1, <3>2 DEF Ask, Phases
    <2>7. max' \in [Models -> Limits \cup {0}] /\ lost' \in [Models -> 0 .. MaxLost]
          /\ model' \in [Requests -> Models \cup {NoModel}]
      BY DEF Ask, TypeOK
    <2> QED
      BY <2>4, <2>5, <2>6, <2>7 DEF TypeOK
  <1>2. \A r \in Requests : TimeOut(r) => TypeOK'
    <2> SUFFICES ASSUME NEW r \in Requests, TimeOut(r)
                 PROVE  TypeOK'
      OBVIOUS
    <2>1. model[r] \in Models /\ r \in Members(queue[model[r]])
      BY WaiterQueued DEF TimeOut
    <2>2. queue[model[r]] \in Queues /\ NoRepeats(queue[model[r]])
      BY <2>1 DEF TypeOK, Queues, ModelInv
    <2>3. Without(queue[model[r]], r) \in Seq(Requests)
      BY <2>1, <2>2, WithoutFacts DEF Queues
    <2> QED
      BY <2>1, <2>3 DEF TimeOut, TypeOK, Phases
  <1>3. \A r \in Requests : GotCredentials(r) => TypeOK'
    BY DEF GotCredentials, TypeOK, Phases
  <1>4. \A r \in Requests : CredentialsThrow(r) => TypeOK'
    BY LostAssumption DEF CredentialsThrow, TypeOK, Phases, Placed
  <1>5. \A r \in Requests : Finish(r) => TypeOK'
    <2> SUFFICES ASSUME NEW r \in Requests, Finish(r)
                 PROVE  TypeOK'
      OBVIOUS
    <2> DEFINE m == model[r]
               n == Drained(Len(queue[m]), active[m] - 1, max[m])
    <2>0. m \in Models
      BY DEF Finish, Placed
    <2>1. active[m] \in Nat \ {0} /\ n \in 0 .. Len(queue[m])
      BY <2>0, FinishHolders
    <2>2. RestOf(queue[m], n) \in Seq(Requests) /\ Len(queue[m]) \in Nat
      <3>1. queue[m] \in Queues
        BY <2>0 DEF TypeOK, Queues
      <3> QED
        BY <2>1, <3>1, RestFacts DEF Queues
    <2> HIDE DEF n
    <2>3. active' = [active EXCEPT ![m] = active[m] - 1 + n]
          /\ queue' = [queue EXCEPT ![m] = RestOf(queue[m], n)]
          /\ phase' = [Enter(FirstOnes(queue[m], n), phase) EXCEPT ![r] = "idle"]
      BY DEF Finish, n
    <2>4. active[m] - 1 + n \in Nat
      BY <2>1, <2>2
    <2>5. phase' \in [Requests -> Phases]
      BY <2>3, EnteredFacts DEF Enter, TypeOK, Phases
    <2> QED
      BY <2>0, <2>2, <2>3, <2>4, <2>5 DEF TypeOK, Finish
  <1>6. UNCHANGED vars => TypeOK'
    BY DEF TypeOK, vars
  <1> QED
    BY <1>1, <1>2, <1>3, <1>4, <1>5, <1>6 DEF Next

LEMMA PlacedNext ==
  ASSUME TypeOK, Placed, [Next]_vars, \A m \in Models : ModelInv(m)
  PROVE  Placed'
  <1>1. \A r \in Requests, m \in Models, k \in Limits : Ask(r, m, k) => Placed'
    <2> SUFFICES ASSUME NEW r \in Requests, NEW m \in Models, NEW k \in Limits, Ask(r, m, k),
                        NEW y \in Requests, phase'[y] # "idle"
                 PROVE  model'[y] \in Models
      BY DEF Placed
    <2> DEFINE first == FirstOnes(queue[m], Drained(Len(queue[m]), active[m], k))
    <2>1. CASE y = r
      BY <2>1 DEF Ask, TypeOK
    <2>2. CASE y # r
      <3>1. first \subseteq Waiting(m)
        BY AskHolders
      <3>2. model'[y] = model[y]
        BY <2>2 DEF Ask, TypeOK
      <3>3. phase'[y] = IF y \in first THEN Entered[y] ELSE phase[y]
        BY <2>2 DEF Ask, Enter
      <3> QED
        BY <3>1, <3>2, <3>3 DEF Waiting, Placed
    <2> QED
      BY <2>1, <2>2
  <1>2. \A r \in Requests : TimeOut(r) => Placed'
    BY DEF TimeOut, Placed, TypeOK
  <1>3. \A r \in Requests : GotCredentials(r) => Placed'
    BY DEF GotCredentials, Placed, TypeOK
  <1>4. \A r \in Requests : CredentialsThrow(r) => Placed'
    BY DEF CredentialsThrow, Placed, TypeOK
  <1>5. \A r \in Requests : Finish(r) => Placed'
    <2> SUFFICES ASSUME NEW r \in Requests, Finish(r), NEW y \in Requests, phase'[y] # "idle"
                 PROVE  model'[y] \in Models
      BY DEF Placed
    <2> DEFINE m == model[r]
               first == FirstOnes(queue[m], Drained(Len(queue[m]), active[m] - 1, max[m]))
    <2>0. m \in Models
      BY DEF Finish, Placed
    <2>1. first \subseteq Waiting(m)
      BY <2>0, FinishHolders
    <2>2. y # r
      BY DEF Finish, Enter
    <2>3. model'[y] = model[y]
      BY <2>2 DEF Finish, TypeOK
    <2>4. phase'[y] = IF y \in first THEN Entered[y] ELSE phase[y]
      BY <2>2 DEF Finish, Enter
    <2> QED
      BY <2>0, <2>1, <2>3, <2>4 DEF Waiting, Placed
  <1>6. UNCHANGED vars => Placed'
    BY DEF Placed, vars
  <1> QED
    BY <1>1, <1>2, <1>3, <1>4, <1>5, <1>6 DEF Next

\* A request that is let in finds room, and nobody who waited longer is left
\* behind.
GrantsOk(m) ==
  /\ ~(Holders(m)' \subseteq Holders(m)) => Cardinality(Holders(m)') <= max'[m]
  /\ \A i \in 1 .. Len(queue[m]) :
       queue[m][i] \in Waiting(m)' =>
         \A r \in Holders(m)' \ Holders(m) :
           \E j \in 1 .. i - 1 : queue[m][j] = r

\* Those let in by a drain came before everyone who still waits.
LEMMA DrainOrder ==
  ASSUME NEW q \in Queues, NEW n \in 0 .. Len(q), NEW W, W \cap FirstOnes(q, n) = {},
         NEW i \in 1 .. Len(q), q[i] \in W, NEW r \in FirstOnes(q, n)
  PROVE  \E j \in 1 .. i - 1 : q[j] = r
  <1>1. Len(q) \in Nat
    BY DEF Queues
  <1>2. PICK j \in 1 .. n : q[j] = r
    BY DEF FirstOnes
  <1>3. ~(i <= n)
    BY <1>1 DEF FirstOnes
  <1>4. j \in 1 .. i - 1
    BY <1>1, <1>2, <1>3
  <1> QED
    BY <1>2, <1>4

LEMMA StillGrants ==
  ASSUME NEW x \in Models, Holders(x)' \subseteq Holders(x)
  PROVE  GrantsOk(x)
  BY DEF GrantsOk

LEMMA AskStep ==
  ASSUME TypeOK, TypeOK', Placed, \A m \in Models : ModelInv(m),
         NEW r \in Requests, NEW m \in Models, NEW k \in Limits, Ask(r, m, k)
  PROVE  \A x \in Models : ModelInv(x)' /\ GrantsOk(x)
  <1> DEFINE q == queue[m]
             n == Drained(Len(q), active[m], k)
             first == FirstOnes(q, n)
             rest == RestOf(q, n)
             used == active[m] + n
  <1>1. q \in Queues /\ active[m] \in Nat /\ k \in Nat /\ Len(q) \in Nat /\ lost[m] \in Nat
    BY LimitsAssumption, LostAssumption DEF TypeOK, Queues
  <1>2. /\ n \in 0 .. Len(q)
        /\ n > 0 => used <= k
        /\ n < Len(q) => ~Free(used, k)
    BY <1>1, DrainedFacts
  <1>3. Members(q) = Waiting(m) /\ NoRepeats(q)
        /\ active[m] = Cardinality(Holders(m)) + lost[m]
    BY DEF ModelInv
  <1>4. IsFiniteSet(first) /\ Cardinality(first) = n
    BY <1>1, <1>2, <1>3, FirstCount
  <1>5. rest \in Queues /\ Len(rest) = Len(q) - n /\ NoRepeats(rest)
        /\ Members(rest) = Waiting(m) \ first
    BY <1>1, <1>2, <1>3, RestFacts, RestMembers
  <1>6. /\ \A x \in Models : x # m => Holders(x)' = Holders(x) /\ Waiting(x)' = Waiting(x)
        /\ Free(used, k) =>
              /\ Holders(m)' = Holders(m) \cup (first \cup {r})
              /\ Waiting(m)' = Waiting(m) \ first
        /\ ~Free(used, k) =>
              /\ Holders(m)' = Holders(m) \cup first
              /\ Waiting(m)' = (Waiting(m) \ first) \cup {r}
        /\ r \notin Holders(m) /\ r \notin Waiting(m)
        /\ first \subseteq Waiting(m)
    BY AskHolders
  <1>7. /\ max'[m] = k /\ lost'[m] = lost[m]
        /\ Free(used, k) => active'[m] = used + 1 /\ queue'[m] = rest
        /\ ~Free(used, k) => active'[m] = used /\ queue'[m] = Append(rest, r)
    BY DEF Ask, TypeOK
  <1>8. \A x \in Models : x # m =>
          queue'[x] = queue[x] /\ active'[x] = active[x] /\ max'[x] = max[x] /\ lost'[x] = lost[x]
    BY DEF Ask, TypeOK
  <1> HIDE DEF q, n, first, rest
  <1>9. first \cap Holders(m) = {}
    BY <1>6 DEF Waiting, Holders
  <1>10. IsFiniteSet(Holders(m) \cup first)
         /\ Cardinality(Holders(m) \cup first) = Cardinality(Holders(m)) + n
    BY <1>4, <1>9, HoldersFinite, Joined
  <1>11. Cardinality(Holders(m)) \in Nat /\ n \in Nat
    BY HoldersFinite, <1>1, <1>2
  <1>12. ASSUME Free(used, k)
         PROVE  ModelInv(m)' /\ GrantsOk(m)
    <2>1. n = Len(q)
      BY <1>1, <1>2, <1>12
    <2>2. rest = <<>>
      BY <1>1, <1>5, <2>1 DEF Queues
    <2>3. r \notin Holders(m) \cup first
      BY <1>6
    <2>4. Cardinality((Holders(m) \cup first) \cup {r}) = Cardinality(Holders(m)) + n + 1
      BY <1>10, <2>3, FS_AddElement
    <2>5. Holders(m)' = (Holders(m) \cup first) \cup {r}
      BY <1>6, <1>12
    <2>6. active'[m] = Cardinality(Holders(m)') + lost'[m]
      BY <1>1, <1>3, <1>7, <1>11, <1>12, <2>4, <2>5
    <2>7. Members(queue'[m]) = Waiting(m)' /\ NoRepeats(queue'[m]) /\ queue'[m] = <<>>
      BY <1>5, <1>6, <1>7, <1>12, <2>2
    <2>8. ModelInv(m)'
      BY <2>6, <2>7 DEF ModelInv, Members, NoRepeats, FirstOnes
    <2>9. Cardinality(Holders(m)') <= max'[m]
      BY <1>1, <1>3, <1>7, <1>11, <1>12, <2>4, <2>5 DEF Free
    <2>10. Waiting(m)' = {}
      <3>1. Members(<<>>) = {}
        BY DEF Members, FirstOnes
      <3> QED
        BY <2>2, <1>5, <1>6, <1>12, <3>1
    <2> QED
      BY <2>8, <2>9, <2>10 DEF GrantsOk
  <1>13. ASSUME ~Free(used, k)
         PROVE  ModelInv(m)' /\ GrantsOk(m)
    <2>1. Holders(m)' = Holders(m) \cup first /\ Waiting(m)' = (Waiting(m) \ first) \cup {r}
      BY <1>6, <1>13
    <2>2. active'[m] = Cardinality(Holders(m)') + lost'[m]
      BY <1>1, <1>3, <1>7, <1>10, <1>11, <1>13, <2>1
    <2>3. r \notin Members(rest)
      BY <1>5, <1>6
    <2>4. Append(rest, r) \in Queues /\ NoRepeats(Append(rest, r))
          /\ Members(Append(rest, r)) = Members(rest) \cup {r}
      BY <1>5, <2>3, AppendFacts
    <2>5. Members(queue'[m]) = Waiting(m)' /\ NoRepeats(queue'[m])
      BY <1>5, <1>7, <1>13, <2>1, <2>4
    <2>6. ~Free(active'[m], max'[m])
      BY <1>7, <1>13
    <2>7. ModelInv(m)'
      BY <2>2, <2>5, <2>6 DEF ModelInv, Members, NoRepeats, FirstOnes, Free
    <2>8. ~(Holders(m)' \subseteq Holders(m)) => Cardinality(Holders(m)') <= max'[m]
      <3> SUFFICES ASSUME ~(Holders(m)' \subseteq Holders(m))
                   PROVE  Cardinality(Holders(m)') <= max'[m]
        OBVIOUS
      <3>1. n # 0
        <4>1. first # {}
          BY <2>1
        <4> QED
          BY <4>1, <1>4, FS_EmptySet
      <3>2. used <= k
        BY <3>1, <1>2, <1>11
      <3> QED
        BY <3>2, <1>1, <1>3, <1>7, <1>10, <1>11, <2>1
    <2>9. \A i \in 1 .. Len(queue[m]) :
            queue[m][i] \in Waiting(m)' =>
              \A y \in Holders(m)' \ Holders(m) : \E j \in 1 .. i - 1 : queue[m][j] = y
      <3>1. Waiting(m)' \cap first = {}
        BY <2>1, <1>6
      <3>2. Holders(m)' \ Holders(m) \subseteq first
        BY <2>1
      <3> QED
        BY <3>1, <3>2, <1>1, <1>2, DrainOrder DEF q, first
    <2> QED
      BY <2>7, <2>8, <2>9 DEF GrantsOk
  <1>14. \A x \in Models : x # m => ModelInv(x)' /\ GrantsOk(x)
    BY <1>6, <1>8, Untouched, StillGrants
  <1> QED
    BY <1>12, <1>13, <1>14

LEMMA TimeOutStep ==
  ASSUME TypeOK, TypeOK', Placed, \A m \in Models : ModelInv(m),
         NEW r \in Requests, TimeOut(r), NEW m, m = model[r]
  PROVE  \A x \in Models : ModelInv(x)' /\ GrantsOk(x)
  <1> DEFINE q == queue[m]
  <1>1. m \in Models /\ r \in Members(q) /\ phase[r] = "queued"
    BY WaiterQueued DEF TimeOut
  <1>2. q \in Queues /\ NoRepeats(q) /\ Members(q) = Waiting(m) /\ Len(q) \in Nat
    BY <1>1 DEF TypeOK, Queues, ModelInv
  <1>3. /\ \A y \in Requests : model'[y] = IF y = r THEN NoModel ELSE model[y]
        /\ \A y \in Requests : phase'[y] = IF y = r THEN "idle" ELSE phase[y]
    BY DEF TimeOut, TypeOK
  <1>4. queue' = [queue EXCEPT ![m] = Without(q, r)] /\ UNCHANGED <<max, active, lost>>
    BY DEF TimeOut
  <1>5. \A x \in Models : Holders(x)' = Holders(x)
    BY <1>1, <1>3, ModelAssumption DEF Holders
  <1>6. \A x \in Models : Waiting(x)' = Waiting(x) \ {r}
    BY <1>1, <1>3, ModelAssumption DEF Waiting
  <1>7. \A x \in Models : x # m => r \notin Waiting(x)
    BY DEF Waiting
  <1>8. /\ Len(Without(q, r)) < Len(q) /\ NoRepeats(Without(q, r))
        /\ Members(Without(q, r)) = Members(q) \ {r}
    BY <1>1, <1>2, WithoutFacts
  <1>9. queue'[m] = Without(q, r) /\ \A x \in Models : x # m => queue'[x] = queue[x]
    BY <1>1, <1>4 DEF TypeOK
  <1>10. ModelInv(m)'
    <2>1. q # <<>>
      BY <1>1 DEF Members, FirstOnes
    <2>2. active'[m] = Cardinality(Holders(m)') + lost'[m]
      BY <1>1, <1>4, <1>5 DEF ModelInv
    <2>3. ~Free(active'[m], max'[m])
      BY <1>1, <1>4, <2>1 DEF ModelInv
    <2>4. Members(queue'[m]) = Waiting(m)' /\ NoRepeats(queue'[m])
      BY <1>1, <1>2, <1>6, <1>8, <1>9
    <2> QED
      BY <2>2, <2>3, <2>4 DEF ModelInv, Members, NoRepeats, FirstOnes, Free
  <1>11. \A x \in Models : x # m => ModelInv(x)'
    <2> SUFFICES ASSUME NEW x \in Models, x # m PROVE ModelInv(x)'
      OBVIOUS
    <2>1. Waiting(x)' = Waiting(x)
      BY <1>6, <1>7
    <2> QED
      BY <1>4, <1>5, <1>9, <2>1, Untouched
  <1>12. \A x \in Models : GrantsOk(x)
    BY <1>5, StillGrants
  <1> QED
    BY <1>10, <1>11, <1>12

LEMMA GotCredentialsStep ==
  ASSUME TypeOK, \A m \in Models : ModelInv(m),
         NEW r \in Requests, GotCredentials(r)
  PROVE  \A x \in Models : ModelInv(x)' /\ GrantsOk(x)
  <1>1. \A y \in Requests : phase'[y] = IF y = r THEN "executing" ELSE phase[y]
    BY DEF GotCredentials, TypeOK
  <1>2. phase[r] = "credentials" /\ UNCHANGED <<max, active, queue, model, lost>>
    BY DEF GotCredentials
  <1>3. \A x \in Models : Holders(x)' = Holders(x)
    BY <1>1, <1>2 DEF Holders
  <1>4. \A x \in Models : Waiting(x)' = Waiting(x)
    BY <1>1, <1>2 DEF Waiting
  <1> QED
    BY <1>2, <1>3, <1>4, Untouched, StillGrants

LEMMA CredentialsThrowStep ==
  ASSUME TypeOK, Placed, \A m \in Models : ModelInv(m),
         NEW r \in Requests, CredentialsThrow(r), NEW m, m = model[r]
  PROVE  \A x \in Models : ModelInv(x)' /\ GrantsOk(x)
  <1>1. m \in Models /\ r \in Holders(m) /\ phase[r] = "credentials"
    BY DEF CredentialsThrow, Placed, Holders
  <1>2. /\ \A y \in Requests : model'[y] = IF y = r THEN NoModel ELSE model[y]
        /\ \A y \in Requests : phase'[y] = IF y = r THEN "idle" ELSE phase[y]
    BY DEF CredentialsThrow, TypeOK
  <1>3. lost' = [lost EXCEPT ![m] = lost[m] + 1] /\ UNCHANGED <<max, active, queue>>
    BY DEF CredentialsThrow
  <1>4. \A x \in Models : Holders(x)' = Holders(x) \ {r}
    BY <1>1, <1>2, ModelAssumption DEF Holders
  <1>5. \A x \in Models : Waiting(x)' = Waiting(x)
    BY <1>1, <1>2, ModelAssumption DEF Waiting
  <1>6. \A x \in Models : x # m => r \notin Holders(x)
    BY DEF Holders
  <1>7. lost'[m] = lost[m] + 1 /\ (\A x \in Models : x # m => lost'[x] = lost[x]) /\ lost[m] \in Nat
    BY <1>1, <1>3, LostAssumption DEF TypeOK
  <1>8. ModelInv(m)'
    <2>1. active[m] = Cardinality(Holders(m)) + lost[m] /\ Cardinality(Holders(m)) \in Nat
      BY <1>1, HoldersFinite DEF ModelInv
    <2>2. Cardinality(Holders(m)') = Cardinality(Holders(m)) - 1
      BY <1>1, <1>4, HoldersFinite, FS_RemoveElement
    <2>3. active'[m] = Cardinality(Holders(m)') + lost'[m]
      BY <1>3, <1>7, <2>1, <2>2
    <2> QED
      BY <1>1, <1>3, <1>5, <2>3 DEF ModelInv
  <1>9. \A x \in Models : x # m => ModelInv(x)'
    <2> SUFFICES ASSUME NEW x \in Models, x # m PROVE ModelInv(x)'
      OBVIOUS
    <2>1. Holders(x)' = Holders(x)
      BY <1>4, <1>6
    <2> QED
      BY <1>3, <1>5, <1>7, <2>1, Untouched
  <1>10. \A x \in Models : GrantsOk(x)
    BY <1>4, StillGrants
  <1> QED
    BY <1>8, <1>9, <1>10

LEMMA FinishStep ==
  ASSUME TypeOK, TypeOK', Placed, \A m \in Models : ModelInv(m),
         NEW r \in Requests, Finish(r), NEW m \in Models, m = model[r],
         NEW n, n = Drained(Len(queue[m]), active[m] - 1, max[m])
  PROVE  \A x \in Models : ModelInv(x)' /\ GrantsOk(x)
  <1>0. /\ m \in Models /\ active[m] \in Nat \ {0} /\ n \in 0 .. Len(queue[m])
        /\ \A x \in Models : x # m =>
              Holders(x)' = Holders(x) /\ Waiting(x)' = Waiting(x)
        /\ Holders(m)' = (Holders(m) \ {r}) \cup FirstOnes(queue[m], n)
        /\ Waiting(m)' = Waiting(m) \ FirstOnes(queue[m], n)
        /\ r \in Holders(m)
        /\ FirstOnes(queue[m], n) \subseteq Waiting(m)
    <2>1. active[m] \in Nat \ {0} /\ n \in 0 .. Len(queue[m])
      BY FinishHolders
    <2>2. \A x \in Models : x # m => Holders(x)' = Holders(x) /\ Waiting(x)' = Waiting(x)
      BY FinishHolders
    <2>3. Holders(m)' = (Holders(m) \ {r}) \cup FirstOnes(queue[m], n)
      BY FinishHolders
    <2>4. Waiting(m)' = Waiting(m) \ FirstOnes(queue[m], n)
      <3>1. FirstOnes(queue[m], n) \subseteq Waiting(m)
        BY FinishHolders
      <3> QED
        BY <3>1, FinishWaiting
    <2>5. r \in Holders(m) /\ FirstOnes(queue[m], n) \subseteq Waiting(m)
      BY FinishHolders
    <2> QED
      BY <2>1, <2>2, <2>3, <2>4, <2>5
  <1> DEFINE q == queue[m]
             first == FirstOnes(q, n)
             rest == RestOf(q, n)
             used == active[m] - 1 + n
  <1>1. /\ m \in Models /\ active[m] \in Nat \ {0} /\ n \in 0 .. Len(q)
        /\ \A x \in Models : x # m =>
              Holders(x)' = Holders(x) /\ Waiting(x)' = Waiting(x)
        /\ Holders(m)' = (Holders(m) \ {r}) \cup first
        /\ Waiting(m)' = Waiting(m) \ first
        /\ r \in Holders(m)
        /\ first \subseteq Waiting(m)
    BY <1>0
  <1>2. q \in Queues /\ max[m] \in Nat /\ Len(q) \in Nat /\ lost[m] \in Nat
    BY <1>1, LimitsAssumption, LostAssumption DEF TypeOK, Queues
  <1>3. /\ n > 0 => used <= max[m]
        /\ n < Len(q) => ~Free(used, max[m])
    <2>1. active[m] - 1 \in Nat
      BY <1>1
    <2> QED
      BY <1>2, <2>1, DrainedFacts
  <1>4. Members(q) = Waiting(m) /\ NoRepeats(q)
        /\ active[m] = Cardinality(Holders(m)) + lost[m]
    BY <1>1 DEF ModelInv
  <1>5. IsFiniteSet(first) /\ Cardinality(first) = n
    BY <1>1, <1>2, <1>4, FirstCount
  <1>6. rest \in Queues /\ Len(rest) = Len(q) - n /\ NoRepeats(rest)
        /\ Members(rest) = Waiting(m) \ first
    BY <1>1, <1>2, <1>4, RestFacts, RestMembers
  <1>7. /\ UNCHANGED <<max, lost>> /\ active'[m] = used /\ queue'[m] = rest
        /\ \A x \in Models : x # m => queue'[x] = queue[x] /\ active'[x] = active[x]
    BY <1>1 DEF Finish, TypeOK
  <1> HIDE DEF q, first, rest
  <1>8. first \cap (Holders(m) \ {r}) = {}
    BY <1>1 DEF Waiting, Holders
  <1>9. IsFiniteSet(Holders(m) \ {r})
        /\ Cardinality(Holders(m) \ {r}) = Cardinality(Holders(m)) - 1
    BY <1>1, HoldersFinite, FS_RemoveElement
  <1>10. Cardinality(Holders(m)') = Cardinality(Holders(m)) - 1 + n
    <2>1. Cardinality((Holders(m) \ {r}) \cup first) = Cardinality(Holders(m) \ {r}) + Cardinality(first)
      BY <1>5, <1>8, <1>9, Joined
    <2> QED
      BY <1>1, <1>5, <1>9, <2>1
  <1>11. Cardinality(Holders(m)) \in Nat /\ n \in Nat
    BY HoldersFinite, <1>1, <1>2
  <1>12. ModelInv(m)'
    <2>1. active'[m] = Cardinality(Holders(m)') + lost'[m]
      BY <1>2, <1>4, <1>7, <1>10, <1>11
    <2>2. queue'[m] # <<>> => ~Free(active'[m], max'[m])
      <3>1. rest # <<>> => n < Len(q)
        BY <1>2, <1>6, <1>11 DEF Queues
      <3> QED
        BY <3>1, <1>3, <1>7
    <2>3. Members(queue'[m]) = Waiting(m)' /\ NoRepeats(queue'[m])
      BY <1>1, <1>6, <1>7
    <2> QED
      BY <2>1, <2>2, <2>3 DEF ModelInv, Members, NoRepeats, FirstOnes, Free
  <1>13. GrantsOk(m)
    <2>1. ~(Holders(m)' \subseteq Holders(m)) => Cardinality(Holders(m)') <= max'[m]
      <3> SUFFICES ASSUME ~(Holders(m)' \subseteq Holders(m))
                   PROVE  Cardinality(Holders(m)') <= max'[m]
        OBVIOUS
      <3>1. n # 0
        <4>1. first # {}
          BY <1>1
        <4> QED
          BY <4>1, <1>5, FS_EmptySet
      <3>2. used <= max[m]
        BY <3>1, <1>3, <1>11
      <3> QED
        BY <3>2, <1>2, <1>4, <1>7, <1>10, <1>11
    <2>2. \A i \in 1 .. Len(queue[m]) :
            queue[m][i] \in Waiting(m)' =>
              \A y \in Holders(m)' \ Holders(m) : \E j \in 1 .. i - 1 : queue[m][j] = y
      <3>1. Waiting(m)' \cap first = {}
        BY <1>1
      <3>2. Holders(m)' \ Holders(m) \subseteq first
        BY <1>1
      <3> QED
        BY <3>1, <3>2, <1>1, <1>2, DrainOrder DEF q, first
    <2> QED
      BY <2>1, <2>2 DEF GrantsOk
  <1>14. \A x \in Models : x # m => ModelInv(x)' /\ GrantsOk(x)
    BY <1>1, <1>7, Untouched, StillGrants
  <1> QED
    BY <1>12, <1>13, <1>14

----------------------------------------------------------------------------
LEMMA InvInit == Init => IInv
  <1> SUFFICES ASSUME Init PROVE IInv
    OBVIOUS
  <1>1. TypeOK
    BY LostAssumption DEF Init, TypeOK, Phases
  <1>2. Placed
    BY DEF Init, Placed
  <1>3. \A m \in Models : Holders(m) = {} /\ Waiting(m) = {}
    BY DEF Init, Holders, Waiting
  <1>4. \A m \in Models : queue[m] = <<>> /\ active[m] = 0 /\ lost[m] = 0
    BY DEF Init
  <1>5. Members(<<>>) = {} /\ NoRepeats(<<>>)
    BY DEF Members, NoRepeats, FirstOnes
  <1>6. Cardinality({}) = 0
    BY FS_EmptySet
  <1>7. \A m \in Models : ModelInv(m)
    <2> SUFFICES ASSUME NEW m \in Models PROVE ModelInv(m)
      OBVIOUS
    <2>1. Members(queue[m]) = Waiting(m) /\ NoRepeats(queue[m])
      BY <1>3, <1>4, <1>5
    <2>2. active[m] = Cardinality(Holders(m)) + lost[m]
      <3>1. Cardinality(Holders(m)) = 0
        BY <1>3, <1>6
      <3>2. active[m] = 0 /\ lost[m] = 0
        BY <1>4
      <3> QED
        BY <3>1, <3>2
    <2> QED
      BY <1>4, <2>1, <2>2 DEF ModelInv
  <1> QED
    BY <1>1, <1>2, <1>7, ByModel

LEMMA StepByModel ==
  ASSUME IInv, [Next]_vars
  PROVE  TypeOK' /\ Placed' /\ \A x \in Models : ModelInv(x)' /\ GrantsOk(x)
  <1>1. TypeOK /\ Placed /\ \A m \in Models : ModelInv(m)
    BY ByModel
  <1>2. TypeOK' /\ Placed'
    BY <1>1, TypeNext, PlacedNext
  <1>3. CASE UNCHANGED vars
    <2>1. \A x \in Models : Holders(x)' = Holders(x) /\ Waiting(x)' = Waiting(x)
      BY <1>3 DEF vars, Holders, Waiting
    <2> QED
      BY <1>1, <1>2, <1>3, <2>1, Untouched, StillGrants DEF vars
  <1>4. CASE Next
    <2>1. PICK r \in Requests :
            \/ \E m \in Models, k \in Limits : Ask(r, m, k)
            \/ TimeOut(r)
            \/ GotCredentials(r)
            \/ CredentialsThrow(r)
            \/ Finish(r)
      BY <1>4 DEF Next
    <2>2. CASE \E m \in Models, k \in Limits : Ask(r, m, k)
      BY <1>1, <1>2, <2>2, AskStep
    <2>3. CASE TimeOut(r)
      BY <1>1, <1>2, <2>3, TimeOutStep
    <2>4. CASE GotCredentials(r)
      BY <1>1, <1>2, <2>4, GotCredentialsStep
    <2>5. CASE CredentialsThrow(r)
      BY <1>1, <1>2, <2>5, CredentialsThrowStep
    <2>6. CASE Finish(r)
      <3>1. model[r] \in Models
        BY <1>1, <2>6 DEF Finish, Placed
      <3> QED
        BY <1>1, <1>2, <2>6, <3>1, FinishStep
    <2> QED
      BY <2>1, <2>2, <2>3, <2>4, <2>5, <2>6
  <1> QED
    BY <1>3, <1>4

LEMMA InvNext == IInv /\ [Next]_vars => IInv'
  BY StepByModel, ByModelNext

\* The inductive invariant holds in every reachable state.
THEOREM Invariance == Spec => []IInv
  BY InvInit, InvNext, PTL DEF Spec

\* Every variable keeps its type.
THEOREM TypeCorrect == Spec => []TypeOK
  <1>1. IInv => TypeOK
    BY DEF IInv
  <1> QED
    BY <1>1, Invariance, PTL

\* The controller's count is the requests that hold a slot and the slots a
\* throwing credential look-up lost (concurrency-controller.mjs:65-75).
THEOREM CountIsHolders == Spec => []SlotsAccounted
  <1>1. IInv => SlotsAccounted
    BY DEF IInv
  <1> QED
    BY <1>1, Invariance, PTL

\* No request waits while a slot is free, after any change of the limit
\* (concurrency-controller.mjs:77-87).
THEOREM NobodyWaitsForFreeSlots == Spec => []NoIdleSlots
  <1>1. IInv => NoIdleSlots
    BY DEF IInv
  <1> QED
    BY <1>1, Invariance, PTL

\* The queues list the waiting requests, each once
\* (concurrency-controller.mjs:53-62).
THEOREM QueuesAreWaiting == Spec => []QueueIsWaiting
  <1>1. IInv => QueueIsWaiting
    BY DEF IInv
  <1> QED
    BY <1>1, Invariance, PTL

\* Who comes to hold a slot finds the holders within the limit in force
\* (concurrency-controller.mjs:47 and 81).
THEOREM WithinLimit == Spec => GrantsWithinLimit
  <1>1. IInv /\ [Next]_vars =>
          [\A m \in Models :
             ~(Holders(m)' \subseteq Holders(m)) => Cardinality(Holders(m)') <= max'[m]]_vars
    BY StepByModel DEF GrantsOk
  <1> QED
    BY <1>1, Invariance, PTL DEF Spec, GrantsWithinLimit

\* Nobody is let in before a request that waited longer
\* (concurrency-controller.mjs:8 and 82).
THEOREM FirstComeFirstServed == Spec => ServedInOrder
  <1>1. IInv /\ [Next]_vars =>
          [\A m \in Models : \A i \in 1 .. Len(queue[m]) :
             queue[m][i] \in Waiting(m)' =>
               \A r \in Holders(m)' \ Holders(m) :
                 \E j \in 1 .. i - 1 : queue[m][j] = r]_vars
    BY StepByModel DEF GrantsOk
  <1> QED
    BY <1>1, Invariance, PTL DEF Spec, ServedInOrder
=============================================================================
