----------------------- MODULE TableRestoreQueueProofs -----------------------
(***************************************************************************)
(* Proofs about the retry queue of the restore of table objects.  Since    *)
(* the last success the failed tables went to the end of the queue one     *)
(* after the other, so that `errors` is a suffix of `unprocessed`: when    *)
(* the failures outnumber the tables left, every table left has failed     *)
(* against the tables that are created now.                                *)
(***************************************************************************)
EXTENDS TableRestoreQueue, TLAPS, FiniteSetTheorems, SequenceTheorems

(***************************************************************************)
(* Sequences and the sets of their elements                                *)
(***************************************************************************)
LEMMA ElementsOf ==
    ASSUME NEW S, NEW s \in Seq(S)
    PROVE  /\ ToSet(s) = {s[i] : i \in 1..Len(s)}
           /\ ToSet(s) \subseteq S
  BY LenProperties DEF ToSet

LEMMA EmptyQueue ==
    /\ ToSet(<<>>) = {}
    /\ IsInjective(<<>>)
  BY DEF ToSet, IsInjective

LEMMA NoElements == SetToSeq({}) = <<>>
<1>1. Cardinality({}) = 0
  BY FS_EmptySet
<1>2. <<>> \in [1..Cardinality({}) -> {}] /\ IsInjective(<<>>)
  BY <1>1 DEF IsInjective
<1>3. \A f \in [1..Cardinality({}) -> {}] : f = <<>>
  BY <1>1
<1> QED BY <1>2, <1>3 DEF SetToSeq

LEMMA TakenFromQueue ==
    ASSUME NEW S, NEW s \in Seq(S), s # <<>>, IsInjective(s)
    PROVE  /\ Head(s) \in S
           /\ Head(s) \in ToSet(s)
           /\ Tail(s) \in Seq(S)
           /\ IsInjective(Tail(s))
           /\ ToSet(Tail(s)) = ToSet(s) \ {Head(s)}
<1>1. /\ Head(s) \in S /\ Tail(s) \in Seq(S) /\ Len(Tail(s)) = Len(s) - 1
      /\ \A i \in 1..Len(Tail(s)) : Tail(s)[i] = s[i + 1]
  BY HeadTailProperties
<1>2. Len(s) \in Nat \ {0} /\ Head(s) = s[1]
  BY EmptySeq
<1>3. /\ DOMAIN s = 1..Len(s) /\ DOMAIN Tail(s) = 1..Len(Tail(s))
  BY <1>1, LenProperties
<1>4. \A a, b \in 1..Len(s) : s[a] = s[b] => a = b
  BY <1>3 DEF IsInjective
<1>5. IsInjective(Tail(s))
  <2> SUFFICES ASSUME NEW a \in 1..Len(Tail(s)), NEW b \in 1..Len(Tail(s)),
                      Tail(s)[a] = Tail(s)[b]
               PROVE  a = b
    BY <1>3 DEF IsInjective
  <2>1. s[a + 1] = s[b + 1] /\ a + 1 \in 1..Len(s) /\ b + 1 \in 1..Len(s)
    BY <1>1, <1>2
  <2> QED BY <2>1, <1>4
<1>6. ToSet(Tail(s)) = {Tail(s)[i] : i \in 1..Len(Tail(s))}
  BY <1>1, ElementsOf
<1>7. ToSet(s) = {s[i] : i \in 1..Len(s)}
  BY ElementsOf
<1>8. ASSUME NEW e \in ToSet(Tail(s))
      PROVE  e \in ToSet(s) \ {Head(s)}
  <2>1. PICK i \in 1..Len(Tail(s)) : e = s[i + 1]
    BY <1>1, <1>6, <1>8
  <2>2. i + 1 \in 1..Len(s) /\ i + 1 # 1 /\ 1 \in 1..Len(s)
    BY <1>1, <1>2
  <2> QED BY <2>1, <2>2, <1>2, <1>4, <1>7
<1>9. ASSUME NEW e \in ToSet(s), e # Head(s)
      PROVE  e \in ToSet(Tail(s))
  <2>1. PICK i \in 1..Len(s) : e = s[i]
    BY <1>7, <1>9
  <2>2. i - 1 \in 1..Len(Tail(s)) /\ (i - 1) + 1 = i
    BY <2>1, <1>9, <1>1, <1>2
  <2> QED BY <2>1, <2>2, <1>1, <1>6
<1>10. Head(s) \in ToSet(s)
  BY <1>2, <1>7
<1> QED BY <1>1, <1>5, <1>8, <1>9, <1>10

LEMMA PutInQueue ==
    ASSUME NEW S, NEW s \in Seq(S), NEW e \in S
    PROVE  /\ Append(s, e) \in Seq(S)
           /\ ToSet(Append(s, e)) = ToSet(s) \cup {e}
           /\ IsInjective(s) /\ e \notin ToSet(s) => IsInjective(Append(s, e))
<1>1. /\ Append(s, e) \in Seq(S) /\ Len(Append(s, e)) = Len(s) + 1
      /\ \A i \in 1..Len(s) : Append(s, e)[i] = s[i]
      /\ Append(s, e)[Len(s) + 1] = e
  BY AppendProperties
<1>2. /\ Len(s) \in Nat /\ DOMAIN s = 1..Len(s) /\ DOMAIN Append(s, e) = 1..(Len(s) + 1)
  BY <1>1, LenProperties
<1>3. ToSet(s) = {s[i] : i \in 1..Len(s)}
  BY ElementsOf
<1>4. ToSet(Append(s, e)) = {Append(s, e)[i] : i \in 1..(Len(s) + 1)}
  BY <1>1, ElementsOf
<1>5. \A i \in 1..(Len(s) + 1) : i \in 1..Len(s) \/ i = Len(s) + 1
  BY <1>2
<1>6. 1..Len(s) \subseteq 1..(Len(s) + 1) /\ Len(s) + 1 \in 1..(Len(s) + 1)
  BY <1>2
<1>7. ToSet(Append(s, e)) = ToSet(s) \cup {e}
  <2>1. ASSUME NEW x \in ToSet(Append(s, e)) PROVE x \in ToSet(s) \cup {e}
    BY <2>1, <1>1, <1>3, <1>4, <1>5
  <2>2. ASSUME NEW x \in ToSet(s) PROVE x \in ToSet(Append(s, e))
    BY <2>2, <1>1, <1>3, <1>4, <1>6
  <2>3. e \in ToSet(Append(s, e))
    BY <1>1, <1>4, <1>6
  <2> QED BY <2>1, <2>2, <2>3
<1>8. ASSUME IsInjective(s), e \notin ToSet(s)
      PROVE  IsInjective(Append(s, e))
  <2> SUFFICES ASSUME NEW a \in 1..(Len(s) + 1), NEW b \in 1..(Len(s) + 1),
                      Append(s, e)[a] = Append(s, e)[b]
               PROVE  a = b
    BY <1>2 DEF IsInjective
  <2>1. \A i \in 1..Len(s) : Append(s, e)[i] = s[i] /\ s[i] # e
    BY <1>1, <1>3, <1>8
  <2>2. \A i, j \in 1..Len(s) : s[i] = s[j] => i = j
    BY <1>2, <1>8 DEF IsInjective
  <2> QED BY <2>1, <2>2, <1>1, <1>5
<1> QED BY <1>1, <1>7, <1>8

(***************************************************************************)
(* The invariant                                                           *)
(***************************************************************************)
QueueTypes ==
    /\ requires \in Requirements
    /\ created \in SUBSET Tables
    /\ readonly \in SUBSET created
    /\ unprocessed \in Seq(Tables)
    /\ errors \in Seq(Tables)
    /\ faults \in 0..MaxFaults
    /\ pc \in {"enqueue", "restore", "check", "done"}

\* The tables are in the iterator first, and then in the queue until restored.
Waiting ==
    /\ pc = "enqueue" => created = {} /\ chained = Order /\ unprocessed = <<>> /\ errors = <<>>
    /\ pc # "enqueue" =>
          chained = <<>> /\ IsInjective(unprocessed) /\ ToSet(unprocessed) = Tables \ created

\* The errors are the tables at the end of the queue, in the same order.
ErrorsAtTheEnd ==
    pc = "restore" =>
        /\ Len(errors) <= Len(unprocessed)
        /\ \A i \in 1..Len(errors) :
              errors[i] = unprocessed[Len(unprocessed) - Len(errors) + i]

\* When the retries end, the errors are the tables that are left.
ErrorsAreAllLeft == pc \in {"check", "done"} => ToSet(errors) = ToSet(unprocessed)

\* A table has an error for a reason that the tables created since do not remove.
FailedForAReason ==
    /\ leftover \subseteq ToSet(unprocessed)
    /\ disturbed \subseteq ToSet(errors)
    /\ \A t \in ToSet(errors) : t \in disturbed \/ ~(requires[t] \subseteq created)

IInv == QueueTypes /\ Waiting /\ ErrorsAtTheEnd /\ ErrorsAreAllLeft /\ FailedForAReason

LEMMA InitEstablishes == Init => IInv
<1> SUFFICES ASSUME Init PROVE IInv
  OBVIOUS
<1>1. ToSet(errors) = {} /\ ToSet(unprocessed) = {}
  BY EmptyQueue DEF Init
<1>2. QueueTypes
  BY EmptySeq, MaxFaultsAssumption DEF Init, QueueTypes
<1>3. Waiting /\ ErrorsAtTheEnd /\ ErrorsAreAllLeft
  BY DEF Init, Waiting, ErrorsAtTheEnd, ErrorsAreAllLeft
<1>4. FailedForAReason
  BY <1>1 DEF Init, FailedForAReason
<1> QED BY <1>2, <1>3, <1>4 DEF IInv

\* What the two actions that fail a table share.
LEMMA RetryKeepsQueue ==
    ASSUME IInv, pc = "restore", unprocessed # <<>>, Retry(Head(unprocessed)),
           UNCHANGED <<created, chained>>
    PROVE  /\ unprocessed' \in Seq(Tables) /\ errors' \in Seq(Tables)
           /\ Waiting' /\ ErrorsAtTheEnd' /\ ErrorsAreAllLeft'
           /\ Head(unprocessed) \in Tables
           /\ ToSet(unprocessed)' = ToSet(unprocessed)
           /\ ToSet(errors)' = ToSet(errors) \cup {Head(unprocessed)}
           /\ pc' \in {"restore", "check"}
<1> DEFINE t == Head(unprocessed)
           n == Len(unprocessed)
           m == Len(errors)
<1>1. /\ unprocessed \in Seq(Tables) /\ errors \in Seq(Tables)
      /\ chained = <<>> /\ IsInjective(unprocessed) /\ ToSet(unprocessed) = Tables \ created
      /\ m <= n
      /\ \A i \in 1..m : errors[i] = unprocessed[n - m + i]
  BY DEF IInv, QueueTypes, Waiting, ErrorsAtTheEnd
<1>2. /\ t \in Tables /\ t \in ToSet(unprocessed) /\ Tail(unprocessed) \in Seq(Tables)
      /\ IsInjective(Tail(unprocessed)) /\ ToSet(Tail(unprocessed)) = ToSet(unprocessed) \ {t}
  BY <1>1, TakenFromQueue
<1>3. /\ errors' = Append(errors, t)
      /\ unprocessed' = Append(Tail(unprocessed), t)
      /\ pc' = IF Len(errors') > Len(unprocessed') THEN "check" ELSE "restore"
  BY DEF Retry
<1>4. /\ unprocessed' \in Seq(Tables) /\ IsInjective(unprocessed)'
      /\ ToSet(unprocessed)' = ToSet(unprocessed)
  <2>1. t \notin ToSet(Tail(unprocessed))
    BY <1>2
  <2> DEFINE rest == Tail(unprocessed)
  <2>2. rest \in Seq(Tables) /\ t \in Tables /\ IsInjective(rest) /\ t \notin ToSet(rest)
    BY <2>1, <1>2
  <2>3. unprocessed' = Append(rest, t)
    BY <1>3
  <2> HIDE DEF rest, t
  <2>4. Append(rest, t) \in Seq(Tables) /\ ToSet(Append(rest, t)) = ToSet(rest) \cup {t}
    BY <2>2, PutInQueue
  <2>5. IsInjective(Append(rest, t))
    BY <2>2, PutInQueue
  <2>6. ToSet(rest) \cup {t} = ToSet(unprocessed)
    BY <1>2 DEF rest
  <2> QED BY <2>3, <2>4, <2>5, <2>6
<1>5. /\ errors' \in Seq(Tables) /\ ToSet(errors)' = ToSet(errors) \cup {t}
  BY <1>1, <1>2, <1>3, PutInQueue
<1>6. Waiting'
  BY <1>1, <1>3, <1>4 DEF Waiting
<1>7. /\ n \in Nat \ {0} /\ m \in Nat
      /\ Len(Tail(unprocessed)) = n - 1
      /\ \A i \in 1..(n - 1) : Tail(unprocessed)[i] = unprocessed[i + 1]
  BY <1>1, HeadTailProperties, EmptySeq, LenProperties
<1>8. /\ Len(unprocessed') = n
      /\ \A i \in 1..(n - 1) : unprocessed'[i] = unprocessed[i + 1]
      /\ unprocessed'[n] = t
  BY <1>2, <1>3, <1>7, AppendProperties
<1>9. /\ Len(errors') = m + 1
      /\ \A i \in 1..m : errors'[i] = errors[i]
      /\ errors'[m + 1] = t
  BY <1>1, <1>2, <1>3, AppendProperties
<1>10. ErrorsAtTheEnd'
  <2> SUFFICES ASSUME pc' = "restore"
               PROVE  /\ m + 1 <= n
                      /\ \A i \in 1..(m + 1) : errors'[i] = unprocessed'[n - (m + 1) + i]
    BY <1>8, <1>9 DEF ErrorsAtTheEnd
  <2>1. m + 1 <= n
    BY <1>3, <1>7, <1>8, <1>9
  <2>2. ASSUME NEW i \in 1..m
        PROVE  errors'[i] = unprocessed'[n - (m + 1) + i]
    <3>1. n - (m + 1) + i \in 1..(n - 1) /\ (n - (m + 1) + i) + 1 = n - m + i
      BY <1>7, <2>1
    <3> QED BY <3>1, <1>1, <1>8, <1>9
  <2>3. errors'[m + 1] = unprocessed'[n - (m + 1) + (m + 1)]
    BY <1>7, <1>8, <1>9
  <2>4. \A i \in 1..(m + 1) : i \in 1..m \/ i = m + 1
    BY <1>7
  <2> QED BY <2>1, <2>2, <2>3, <2>4
<1>11. ErrorsAreAllLeft'
  <2> SUFFICES ASSUME pc' # "restore"
               PROVE  ToSet(errors)' = ToSet(unprocessed)'
    BY DEF ErrorsAreAllLeft
  <2>1. m = n
    BY <1>1, <1>3, <1>7, <1>8, <1>9
  <2>2. \A i \in 1..n : n - m + i = i
    BY <2>1, <1>7
  <2>3. \A i \in 1..n : errors[i] = unprocessed[i]
    BY <1>1, <2>1, <2>2
  <2>4. ToSet(errors) = {errors[i] : i \in 1..n} /\ ToSet(unprocessed) = {unprocessed[i] : i \in 1..n}
    BY <1>1, <2>1, ElementsOf
  <2>5. ToSet(errors) = ToSet(unprocessed)
    <3>1. ASSUME NEW x \in ToSet(errors) PROVE x \in ToSet(unprocessed)
      BY <2>3, <2>4
    <3>2. ASSUME NEW x \in ToSet(unprocessed) PROVE x \in ToSet(errors)
      BY <2>3, <2>4
    <3> QED BY <3>1, <3>2
  <2> QED BY <2>5, <1>2, <1>4, <1>5
<1>12. pc' \in {"restore", "check"}
  BY <1>3
<1> QED BY <1>2, <1>4, <1>5, <1>6, <1>10, <1>11, <1>12

LEMMA EnqueueKeeps == IInv /\ Enqueue => IInv'
<1> SUFFICES ASSUME IInv, Enqueue PROVE IInv'
  OBVIOUS
<1>1. /\ QueueTypes /\ pc = "enqueue" /\ created = {} /\ errors = <<>>
      /\ unprocessed' = Order /\ chained' = <<>> /\ pc' = "restore"
      /\ UNCHANGED <<requires, created, leftover, errors, disturbed, readonly, faults>>
      /\ ToSet(unprocessed) = {}
  BY EmptyQueue DEF IInv, Enqueue, Waiting
<1>2. QueueTypes'
  BY <1>1, OrderAssumption DEF QueueTypes
<1>3. Waiting'
  BY <1>1, OrderAssumption DEF Waiting
<1>4. Len(Order) \in Nat
  BY OrderAssumption, LenProperties
<1>5. ErrorsAtTheEnd' /\ ErrorsAreAllLeft'
  BY <1>1, <1>4 DEF ErrorsAtTheEnd, ErrorsAreAllLeft
<1>6. FailedForAReason'
  BY <1>1 DEF IInv, FailedForAReason
<1> QED BY <1>2, <1>3, <1>5, <1>6 DEF IInv

LEMMA RestoredKeeps == IInv /\ Restored => IInv'
<1> SUFFICES ASSUME IInv, Restored PROVE IInv'
  OBVIOUS
<1> DEFINE t == Head(unprocessed)
<1>1. /\ QueueTypes /\ pc = "restore" /\ unprocessed # <<>> /\ t \notin leftover
      /\ created' = created \cup {t} /\ unprocessed' = Tail(unprocessed)
      /\ errors' = <<>> /\ disturbed' = {}
      /\ UNCHANGED <<requires, leftover, chained, readonly, faults, pc>>
  BY DEF IInv, Restored, Creatable
<1>2. /\ chained = <<>> /\ IsInjective(unprocessed) /\ ToSet(unprocessed) = Tables \ created
  BY <1>1 DEF IInv, Waiting
<1>3. /\ t \in Tables /\ Tail(unprocessed) \in Seq(Tables)
      /\ IsInjective(Tail(unprocessed)) /\ ToSet(Tail(unprocessed)) = ToSet(unprocessed) \ {t}
  BY <1>1, <1>2, TakenFromQueue DEF QueueTypes
<1>4. QueueTypes'
  BY <1>1, <1>3, EmptySeq DEF QueueTypes
<1>5. Waiting'
  <2>1. ToSet(unprocessed') = Tables \ created'
    BY <1>1, <1>2, <1>3
  <2> QED BY <2>1, <1>1, <1>2, <1>3 DEF Waiting
<1>6. Len(unprocessed') \in Nat /\ Len(errors') = 0
  BY <1>1, <1>3, LenProperties
<1>7. ErrorsAtTheEnd' /\ ErrorsAreAllLeft'
  BY <1>1, <1>6 DEF ErrorsAtTheEnd, ErrorsAreAllLeft
<1>8. FailedForAReason'
  BY <1>1, <1>3, EmptyQueue DEF IInv, FailedForAReason
<1> QED BY <1>4, <1>5, <1>7, <1>8 DEF IInv

LEMMA RefusedKeeps == IInv /\ Refused => IInv'
<1> SUFFICES ASSUME IInv, Refused PROVE IInv'
  OBVIOUS
<1> DEFINE t == Head(unprocessed)
<1>1. /\ QueueTypes /\ pc = "restore" /\ unprocessed # <<>> /\ Retry(t)
      /\ t \in leftover \/ ~(requires[t] \subseteq created)
      /\ leftover' = leftover \ {t}
      /\ disturbed' = disturbed \cup (leftover \cap {t})
      /\ UNCHANGED <<requires, created, chained, readonly, faults>>
  BY DEF IInv, Refused, Creatable
<1>2. /\ unprocessed' \in Seq(Tables) /\ errors' \in Seq(Tables)
      /\ Waiting' /\ ErrorsAtTheEnd' /\ ErrorsAreAllLeft'
      /\ ToSet(unprocessed)' = ToSet(unprocessed)
      /\ ToSet(errors)' = ToSet(errors) \cup {t}
      /\ pc' \in {"restore", "check"}
  BY <1>1, RetryKeepsQueue
<1>3. QueueTypes'
  BY <1>1, <1>2 DEF QueueTypes
<1>4. FailedForAReason'
  BY <1>1, <1>2 DEF IInv, FailedForAReason
<1> QED BY <1>2, <1>3, <1>4 DEF IInv

LEMMA DisturbedKeeps == IInv /\ Disturbed => IInv'
<1> SUFFICES ASSUME IInv, Disturbed PROVE IInv'
  OBVIOUS
<1> DEFINE t == Head(unprocessed)
<1>1. /\ QueueTypes /\ pc = "restore" /\ unprocessed # <<>> /\ Retry(t)
      /\ faults < MaxFaults /\ faults' = faults + 1
      /\ leftover' \subseteq leftover \cup {t}
      /\ disturbed' = disturbed \cup {t}
      /\ UNCHANGED <<requires, created, chained, readonly>>
  BY DEF IInv, Disturbed
<1>2. /\ unprocessed' \in Seq(Tables) /\ errors' \in Seq(Tables)
      /\ Waiting' /\ ErrorsAtTheEnd' /\ ErrorsAreAllLeft'
      /\ ToSet(unprocessed)' = ToSet(unprocessed)
      /\ ToSet(errors)' = ToSet(errors) \cup {t}
      /\ pc' \in {"restore", "check"}
  BY <1>1, RetryKeepsQueue
<1>3. QueueTypes'
  BY <1>1, <1>2, MaxFaultsAssumption DEF QueueTypes
<1>4. t \in ToSet(unprocessed)
  BY <1>1, TakenFromQueue DEF IInv, QueueTypes, Waiting
<1>5. FailedForAReason'
  BY <1>1, <1>2, <1>4 DEF IInv, FailedForAReason
<1> QED BY <1>2, <1>3, <1>5 DEF IInv

LEMMA QueueEmptyKeeps == IInv /\ QueueEmpty => IInv'
<1> SUFFICES ASSUME IInv, QueueEmpty PROVE IInv'
  OBVIOUS
<1>1. /\ QueueTypes /\ pc = "restore" /\ pc' = "check" /\ unprocessed = <<>>
      /\ UNCHANGED <<requires, created, leftover, chained, unprocessed, errors, disturbed,
                     readonly, faults>>
  BY DEF IInv, QueueEmpty
<1>2. QueueTypes' /\ Waiting' /\ FailedForAReason' /\ ErrorsAtTheEnd'
  BY <1>1 DEF IInv, QueueTypes, Waiting, FailedForAReason, ErrorsAtTheEnd
<1>3. errors = <<>>
  <2>1. Len(errors) <= 0
    BY <1>1, EmptySeq DEF IInv, ErrorsAtTheEnd
  <2> QED BY <1>1, <2>1, EmptySeq DEF QueueTypes
<1>4. ErrorsAreAllLeft'
  BY <1>1, <1>3 DEF ErrorsAreAllLeft
<1> QED BY <1>2, <1>4 DEF IInv

\* Nothing is left in the iterator: readonly replicas are found and not reported.
LEMMA CheckReadonlyKeeps == IInv /\ CheckReadonly => IInv' /\ errors' = errors
<1> SUFFICES ASSUME IInv, CheckReadonly PROVE IInv' /\ errors' = errors
  OBVIOUS
<1>1. /\ QueueTypes /\ pc = "check" /\ pc' = "done" /\ chained = <<>>
      /\ readonly' \in SUBSET created
      /\ errors' = errors \o SetToSeq((ToSet(chained) \cap readonly') \ ToSet(errors))
      /\ UNCHANGED <<requires, created, leftover, chained, unprocessed, disturbed, faults>>
  BY DEF IInv, CheckReadonly, Waiting
<1>2. (ToSet(chained) \cap readonly') \ ToSet(errors) = {}
  BY <1>1, EmptyQueue
<1>3. errors' = errors
  BY <1>1, <1>2, NoElements, ConcatEmptySeq DEF QueueTypes
<1>4. QueueTypes' /\ Waiting' /\ ErrorsAtTheEnd' /\ FailedForAReason'
  BY <1>1, <1>3 DEF IInv, QueueTypes, Waiting, ErrorsAtTheEnd, FailedForAReason
<1>5. ErrorsAreAllLeft'
  BY <1>1, <1>3 DEF IInv, ErrorsAreAllLeft
<1> QED BY <1>3, <1>4, <1>5 DEF IInv

LEMMA StepKeeps == IInv /\ [Next]_vars => IInv'
<1> SUFFICES ASSUME IInv, [Next]_vars PROVE IInv'
  OBVIOUS
<1>1. CASE Enqueue
  BY <1>1, EnqueueKeeps
<1>2. CASE Restored
  BY <1>2, RestoredKeeps
<1>3. CASE Refused
  BY <1>3, RefusedKeeps
<1>4. CASE Disturbed
  BY <1>4, DisturbedKeeps
<1>5. CASE QueueEmpty
  BY <1>5, QueueEmptyKeeps
<1>6. CASE CheckReadonly
  BY <1>6, CheckReadonlyKeeps
<1>7. CASE UNCHANGED vars
  BY <1>7 DEF vars, IInv, QueueTypes, Waiting, ErrorsAtTheEnd, ErrorsAreAllLeft, FailedForAReason
<1> QED BY <1>1, <1>2, <1>3, <1>4, <1>5, <1>6, <1>7 DEF Next

(***************************************************************************)
(* What follows from it                                                    *)
(***************************************************************************)
LEMMA ErrorsAreWaiting == IInv => ToSet(errors) \subseteq ToSet(unprocessed)
<1> SUFFICES ASSUME IInv, NEW t \in ToSet(errors) PROVE t \in ToSet(unprocessed)
  OBVIOUS
<1>1. CASE pc = "enqueue"
  BY <1>1, EmptyQueue DEF IInv, Waiting
<1>2. CASE pc = "restore"
  <2>1. unprocessed \in Seq(Tables) /\ errors \in Seq(Tables)
    BY DEF IInv, QueueTypes
  <2>2. PICK i \in 1..Len(errors) : t = errors[i]
    BY <2>1, ElementsOf
  <2>3. /\ Len(errors) <= Len(unprocessed)
        /\ t = unprocessed[Len(unprocessed) - Len(errors) + i]
    BY <1>2, <2>2 DEF IInv, ErrorsAtTheEnd
  <2>4. Len(errors) \in Nat /\ Len(unprocessed) \in Nat
    BY <2>1, LenProperties
  <2>5. Len(unprocessed) - Len(errors) + i \in 1..Len(unprocessed)
    BY <2>3, <2>4
  <2> QED BY <2>1, <2>3, <2>5, ElementsOf
<1>3. CASE pc \in {"check", "done"}
  BY <1>3 DEF IInv, ErrorsAreAllLeft
<1> QED BY <1>1, <1>2, <1>3 DEF IInv, QueueTypes

LEMMA QueueAgrees == IInv => QueueOK
<1> SUFFICES ASSUME IInv PROVE QueueOK
  OBVIOUS
<1>1. chained \in Seq(Tables) /\ unprocessed \in Seq(Tables)
  BY OrderAssumption, EmptySeq DEF IInv, QueueTypes, Waiting
<1>2. /\ IsInjective(chained \o unprocessed)
      /\ ToSet(chained \o unprocessed) = Tables \ created
  <2>1. CASE pc = "enqueue"
    <3>1. chained \o unprocessed = Order /\ created = {}
      BY <2>1, <1>1, ConcatEmptySeq DEF IInv, Waiting
    <3> QED BY <3>1, OrderAssumption
  <2>2. CASE pc # "enqueue"
    <3>1. chained \o unprocessed = unprocessed
      BY <2>2, <1>1, ConcatEmptySeq DEF IInv, Waiting
    <3> QED BY <2>2, <3>1 DEF IInv, Waiting
  <2> QED BY <2>1, <2>2
<1> QED BY <1>2, ErrorsAreWaiting DEF IInv, QueueTypes, FailedForAReason, QueueOK

LEMMA Invariance == Spec => []IInv
BY InitEstablishes, StepKeeps, PTL DEF Spec

\* Every table is waiting or restored, once and not both, and only waiting tables
\* have errors or left something behind, whatever tables require of one another
\* and however many of them fail: `unprocessed`, `errors` and ClickHouse agree
\* throughout _restore_table_objects.
THEOREM QueueAgreesWithServer == Spec => []QueueOK
BY Invariance, QueueAgrees, PTL

\* When _restore_table_objects gives a table up, something the table requires was
\* not restored, or the table failed for another cause since the last success: no
\* order of the queue loses a table that could be created.
THEOREM OnlyHopelessGivenUp == Spec => []GivesUpOnlyHopeless
<1>1. IInv => GivesUpOnlyHopeless
  BY DEF IInv, ErrorsAreAllLeft, FailedForAReason, GivesUpOnlyHopeless
<1> QED BY <1>1, Invariance, PTL

\* Every table that _restore_table_objects did not restore is reported as failed,
\* and no table that it restored, unless it is readonly, whatever tables require of
\* one another and however many of them fail.
THEOREM FailuresReported == Spec => []ReportsWhatFailed
<1>1. IInv => ReportsWhatFailed
  BY DEF IInv, Waiting, ErrorsAreAllLeft, Reported, ReportsWhatFailed
<1> QED BY <1>1, Invariance, PTL

=============================================================================
