--------------------------- MODULE RetryQueueProofs ---------------------------
(***************************************************************************)
(* The record of the retry tasks (RetryQueue), for any number of tasks,    *)
(* overlapping passes, sends and crashes, and any limits of the list.      *)
(*                                                                         *)
(* Everything but a failed send only takes tasks out of the record: what   *)
(* is left is found, in the same order, in the record before (Follows), no *)
(* less completed than it was.  A failed send does so too, and then puts   *)
(* its task at the end of a list without that id.                          *)
(***************************************************************************)
EXTENDS RetryQueue, Integers, FiniteSetTheorems, SequenceTheorems, WellFoundedInduction, TLAPS

\* How many of the positions P are at or before i.
Rank(P, i) == Cardinality({j \in P : j <= i})

\* The k-th of the positions P.
Place(P, k) == CHOOSE i \in P : Rank(P, i) = k

Unique(q) == \A i, j \in 1 .. Len(q) : q[i].id = q[j].id => i = j

\* g says where in q the tasks of r were.
Origin(g, r, q) ==
  /\ g \in [1 .. Len(r) -> 1 .. Len(q)]
  /\ \A k, l \in 1 .. Len(r) : k < l => g[k] < g[l]
  /\ \A k \in 1 .. Len(r) : r[k].id = q[g[k]].id /\ (q[g[k]].done => r[k].done)

Follows(r, q) == \E g : Origin(g, r, q)

-----------------------------------------------------------------------------
(* The filter.                                                             *)

\* A set of natural numbers that is not empty has a least element.
LEMMA LeastOf ==
  ASSUME NEW T, T \subseteq Nat, T # {}
  PROVE  \E x \in T : \A y \in T : x <= y
<1>1. PICK x \in T : \A y \in T : ~(<<y, x>> \in OpToRel(<, Nat))
  BY WFMin, NatLessThanWellFounded
<1> SUFFICES ASSUME NEW y \in T, y < x PROVE FALSE
  OBVIOUS
<1>2. <<y, x>> \in Nat \X Nat /\ <<y, x>>[1] = y /\ <<y, x>>[2] = x
  OBVIOUS
<1>3. <<y, x>> \in OpToRel(<, Nat)
  BY <1>2, Zenon DEF OpToRel
<1> QED
  BY <1>1, <1>3

\* The rank goes up by one at each position, from none to all.
LEMMA Ranks ==
  ASSUME NEW n \in Nat, NEW P, \A j \in P : j \in Nat /\ 1 <= j /\ j <= n
  PROVE  /\ IsFiniteSet(P) /\ Cardinality(P) \in 0 .. n
         /\ \A i \in Nat : Rank(P, i) \in Nat
         /\ Rank(P, 0) = 0 /\ Rank(P, n) = Cardinality(P)
         /\ \A i \in Nat : i + 1 \notin P => Rank(P, i + 1) = Rank(P, i)
         /\ \A i \in Nat : i + 1 \in P => Rank(P, i + 1) = Rank(P, i) + 1
         /\ \A i, j \in Nat : i <= j => Rank(P, i) <= Rank(P, j)
<1> DEFINE below(i) == {j \in P : j <= i}
<1>1. below(0) = {} /\ below(n) = P
  OBVIOUS
<1>2. \A i \in Nat : i + 1 \notin P => below(i + 1) = below(i)
  OBVIOUS
<1>3. \A i \in Nat : i + 1 \in P => below(i + 1) = below(i) \cup {i + 1} /\ i + 1 \notin below(i)
  OBVIOUS
<1>4. \A i, j \in Nat : i <= j => below(i) \in SUBSET below(j)
  OBVIOUS
<1>5. \A i : Rank(P, i) = Cardinality(below(i)) /\ below(i) \in SUBSET P
  BY DEF Rank
<1> HIDE DEF below
<1>6. IsFiniteSet(P) /\ Cardinality(P) \in 0 .. n
  <2>1. IsFiniteSet(1 .. n) /\ Cardinality(1 .. n) = n
    BY FS_Interval
  <2>2. P \in SUBSET (1 .. n)
    OBVIOUS
  <2>3. IsFiniteSet(P) /\ Cardinality(P) <= n
    BY <2>1, <2>2, FS_Subset
  <2>4. Cardinality(P) \in Nat
    BY <2>3, FS_CardinalityType
  <2> QED
    BY <2>3, <2>4
<1>7. \A i : IsFiniteSet(below(i)) /\ Cardinality(below(i)) \in Nat
  BY <1>5, <1>6, FS_Subset, FS_CardinalityType
<1>8. \A i \in Nat : i + 1 \in P => Cardinality(below(i + 1)) = Cardinality(below(i)) + 1
  <2> SUFFICES ASSUME NEW i \in Nat, i + 1 \in P
               PROVE  Cardinality(below(i + 1)) = Cardinality(below(i)) + 1
    OBVIOUS
  <2>1. PICK e : e = i + 1
    OBVIOUS
  <2>2. IsFiniteSet(below(i)) /\ e \notin below(i) /\ below(i + 1) = below(i) \cup {e}
    BY <1>3, <1>7, <2>1
  <2>3. Cardinality(below(i) \cup {e}) = Cardinality(below(i)) + 1
    BY <2>2, FS_AddElement
  <2> QED
    BY <2>2, <2>3
<1>9. \A i, j \in Nat : i <= j => Cardinality(below(i)) <= Cardinality(below(j))
  <2> SUFFICES ASSUME NEW i \in Nat, NEW j \in Nat, i <= j
               PROVE  Cardinality(below(i)) <= Cardinality(below(j))
    OBVIOUS
  <2> QED
    BY <1>4, <1>7, FS_Subset
<1>10. Cardinality(below(0)) = 0
  BY <1>1, FS_EmptySet
<1> QED
  BY <1>1, <1>2, <1>5, <1>6, <1>7, <1>8, <1>9, <1>10

\* There is a k-th position for every k, and they go upwards.
LEMMA Places ==
  ASSUME NEW n \in Nat, NEW P, \A j \in P : j \in Nat /\ 1 <= j /\ j <= n
  PROVE  /\ Cardinality(P) \in 0 .. n
         /\ \A k \in 1 .. Cardinality(P) : Place(P, k) \in P
         /\ \A k, l \in 1 .. Cardinality(P) : k < l => Place(P, k) < Place(P, l)
<1>0. /\ Cardinality(P) \in 0 .. n
      /\ \A i \in Nat : Rank(P, i) \in Nat
      /\ Rank(P, 0) = 0 /\ Rank(P, n) = Cardinality(P)
      /\ \A i \in Nat : i + 1 \notin P => Rank(P, i + 1) = Rank(P, i)
      /\ \A i \in Nat : i + 1 \in P => Rank(P, i + 1) = Rank(P, i) + 1
      /\ \A i, j \in Nat : i <= j => Rank(P, i) <= Rank(P, j)
  BY Ranks
<1>1. \A k \in 1 .. Cardinality(P) : Place(P, k) \in P /\ Rank(P, Place(P, k)) = k
  <2> SUFFICES ASSUME NEW k \in 1 .. Cardinality(P)
               PROVE  \E i \in P : Rank(P, i) = k
    BY DEF Place
  <2> DEFINE T == {i \in 0 .. n : Rank(P, i) >= k}
  <2>1. T \subseteq Nat /\ n \in T
    BY <1>0
  <2>2. PICK x \in T : \A y \in T : x <= y
    BY <2>1, LeastOf
  <2>3. x \in Nat /\ x # 0 /\ x - 1 \in 0 .. n /\ x - 1 \notin T
    BY <2>2, <1>0
  <2>4. PICK w \in Nat : x = w + 1
    <3>1. x - 1 \in Nat /\ x = (x - 1) + 1
      BY <2>3
    <3> QED
      BY <3>1
  <2>5. Rank(P, w) \in Nat /\ Rank(P, w + 1) \in Nat
    BY <1>0
  <2>6. w \in 0 .. n /\ w \notin T /\ w + 1 \in T
    BY <2>2, <2>3, <2>4
  <2>7. Rank(P, w) < k /\ Rank(P, w + 1) >= k
    BY <2>5, <2>6
  <2>8. w + 1 \notin P => Rank(P, w + 1) = Rank(P, w)
    BY <1>0
  <2>9. w + 1 \in P => Rank(P, w + 1) = Rank(P, w) + 1
    BY <1>0
  <2> QED
    BY <2>5, <2>7, <2>8, <2>9
<1>2. ASSUME NEW k \in 1 .. Cardinality(P), NEW l \in 1 .. Cardinality(P), k < l
      PROVE  Place(P, k) < Place(P, l)
  <2>1. Place(P, k) \in Nat /\ Place(P, l) \in Nat
    BY <1>0, <1>1
  <2>2. Place(P, l) <= Place(P, k) => Rank(P, Place(P, l)) <= Rank(P, Place(P, k))
    BY <2>1, <1>0
  <2> QED
    BY <1>1, <1>2, <2>1, <2>2
<1> QED
  BY <1>1, <1>2, <1>0

LEMMA FilterPlaces ==
  ASSUME NEW q, NEW P
  PROVE  Filter(q, P) = [k \in 1 .. Cardinality(P) |-> q[Place(P, k)]]
  BY DEF Filter, Place, Rank

\* A filter keeps the order, and the tasks it keeps.
LEMMA FilterFollows ==
  ASSUME NEW q \in Seq(Task), NEW P \in SUBSET (1 .. Len(q))
  PROVE  /\ Filter(q, P) \in Seq(Task) /\ Len(Filter(q, P)) \in 0 .. Len(q)
         /\ Follows(Filter(q, P), q)
         /\ \A k \in 1 .. Len(Filter(q, P)) : \E i \in P : Filter(q, P)[k] = q[i]
<1> DEFINE r == Filter(q, P)
           g == [k \in 1 .. Cardinality(P) |-> Place(P, k)]
<1>1. Len(q) \in Nat /\ \A i \in 1 .. Len(q) : q[i] \in Task
  BY LenProperties, ElementOfSeq
<1>2. /\ Cardinality(P) \in 0 .. Len(q)
      /\ \A k \in 1 .. Cardinality(P) : Place(P, k) \in P
      /\ \A k, l \in 1 .. Cardinality(P) : k < l => Place(P, k) < Place(P, l)
  <2>1. \A j \in P : j \in Nat /\ 1 <= j /\ j <= Len(q)
    OBVIOUS
  <2> QED
    BY <1>1, <2>1, Places
<1>3. r = [k \in 1 .. Cardinality(P) |-> q[Place(P, k)]]
  BY FilterPlaces
<1> HIDE DEF r
<1>4. r \in [1 .. Cardinality(P) -> Task]
  BY <1>1, <1>2, <1>3
<1>5. r \in Seq(Task) /\ Len(r) = Cardinality(P)
  <2>1. r \in Seq(Task)
    BY <1>2, <1>4, SeqDef
  <2> QED
    BY <1>2, <1>4, <2>1, LenProperties
<1>6. g \in [1 .. Len(r) -> 1 .. Len(q)] /\ \A k \in 1 .. Len(r) : r[k] = q[g[k]] /\ g[k] \in P
  BY <1>2, <1>3, <1>5
<1>7. \A k, l \in 1 .. Len(r) : k < l => g[k] < g[l]
  BY <1>2, <1>5
<1>8. Origin(g, r, q)
  BY <1>6, <1>7 DEF Origin
<1> QED
  BY <1>2, <1>5, <1>6, <1>8 DEF r, Follows

-----------------------------------------------------------------------------
(* What follows what.                                                      *)

LEMMA FollowsItself ==
  ASSUME NEW q \in Seq(Task)
  PROVE  Follows(q, q)
<1> DEFINE g == [k \in 1 .. Len(q) |-> k]
<1>1. Origin(g, q, q)
  BY LenProperties DEF Origin
<1> QED
  BY <1>1 DEF Follows

LEMMA FollowsThrough ==
  ASSUME NEW q, NEW r, NEW s, Len(q) \in Nat, Len(r) \in Nat, Follows(s, r), Follows(r, q)
  PROVE  Follows(s, q)
<1>1. PICK g : Origin(g, s, r)
  BY DEF Follows
<1>2. PICK h : Origin(h, r, q)
  BY DEF Follows
<1> DEFINE f == [k \in 1 .. Len(s) |-> h[g[k]]]
<1>3. \A k \in 1 .. Len(s) : g[k] \in 1 .. Len(r) /\ h[g[k]] \in 1 .. Len(q) /\ f[k] = h[g[k]]
  BY <1>1, <1>2 DEF Origin
<1>4. f \in [1 .. Len(s) -> 1 .. Len(q)]
  BY <1>3
<1>5. \A k, l \in 1 .. Len(s) : k < l => f[k] < f[l]
  BY <1>1, <1>2, <1>3 DEF Origin
<1>6. \A k \in 1 .. Len(s) : s[k].id = q[f[k]].id /\ (q[f[k]].done => s[k].done)
  BY <1>1, <1>2, <1>3 DEF Origin
<1>7. Origin(f, s, q)
  BY <1>4, <1>5, <1>6 DEF Origin
<1> QED
  BY <1>7 DEF Follows

\* A list that has as many tasks, each of them with its id and no less done.
LEMMA FollowsPlaceByPlace ==
  ASSUME NEW q \in Seq(Task), NEW r \in Seq(Task), Len(r) <= Len(q),
         \A k \in 1 .. Len(r) : r[k].id = q[k].id /\ (q[k].done => r[k].done)
  PROVE  Follows(r, q)
<1> DEFINE g == [k \in 1 .. Len(r) |-> k]
<1>1. Len(r) \in Nat /\ Len(q) \in Nat
  BY LenProperties
<1>2. g \in [1 .. Len(r) -> 1 .. Len(q)] /\ \A k \in 1 .. Len(r) : g[k] = k
  BY <1>1
<1>3. Origin(g, r, q)
  BY <1>1, <1>2 DEF Origin
<1> QED
  BY <1>3 DEF Follows

LEMMA FollowsUnique ==
  ASSUME NEW q \in Seq(Task), NEW r \in Seq(Task), Follows(r, q), Unique(q)
  PROVE  Unique(r)
<1>1. PICK g : Origin(g, r, q)
  BY DEF Follows
<1>2. Len(r) \in Nat /\ Len(q) \in Nat
  BY LenProperties
<1> SUFFICES ASSUME NEW i \in 1 .. Len(r), NEW j \in 1 .. Len(r), r[i].id = r[j].id, i < j
             PROVE  FALSE
  BY <1>2 DEF Unique
<1>3. g[i] \in 1 .. Len(q) /\ g[j] \in 1 .. Len(q) /\ q[g[i]].id = q[g[j]].id /\ g[i] < g[j]
  BY <1>1 DEF Origin
<1> QED
  BY <1>2, <1>3 DEF Unique

-----------------------------------------------------------------------------
(* Marking, cutting and saving.                                            *)

LEMMA MarkedTask ==
  ASSUME NEW t \in Task
  PROVE  /\ MarkTaskFailure(t) \in Task /\ MarkTaskSuccess(t) \in Task
         /\ MarkTaskFailure(t).id = t.id /\ MarkTaskFailure(t).done = t.done
         /\ MarkTaskSuccess(t).id = t.id /\ MarkTaskSuccess(t).done
<1>1. /\ AttemptCap \in Nat /\ MaxDelay \in Nat /\ MaxDelay >= 1
  BY RetryAssumption
<1>2. t.attempts \in 0 .. AttemptCap
  BY DEF Task
<1> DEFINE a == Least(AttemptCap, t.attempts + 1)
           p == 2 ^ a
<1>3. a \in 0 .. AttemptCap
  BY <1>1, <1>2 DEF Least
<1>4. p \in Int
  BY <1>3
<1> HIDE DEF p
<1>5. Greatest(1, Least(MaxDelay, p)) \in 0 .. MaxDelay
  BY <1>1, <1>4 DEF Greatest, Least
<1>6. NextRetryDelay(a) \in 0 .. MaxDelay
  BY <1>5 DEF NextRetryDelay, p
<1>7. MarkTaskFailure(t) = [t EXCEPT !.attempts = a, !.wait = NextRetryDelay(a)]
  BY DEF MarkTaskFailure
<1> HIDE DEF a
<1> QED
  BY <1>3, <1>6, <1>7 DEF Task, MarkTaskSuccess

LEMMA MarkedFollows ==
  ASSUME NEW q \in Seq(Task), NEW id, NEW ok \in BOOLEAN
  PROVE  /\ Marked(q, id, ok) \in Seq(Task) /\ Len(Marked(q, id, ok)) = Len(q)
         /\ Follows(Marked(q, id, ok), q)
         /\ \A i \in 1 .. Len(q) : q[i].id # id => Marked(q, id, ok)[i] = q[i]
<1> DEFINE r == Marked(q, id, ok)
<1>1. Len(q) \in Nat /\ \A i \in 1 .. Len(q) : q[i] \in Task
  BY LenProperties, ElementOfSeq
<1>2. /\ r = [i \in 1 .. Len(q) |-> r[i]]
      /\ \A i \in 1 .. Len(q) :
           r[i] = IF q[i].id # id THEN q[i]
                  ELSE IF ok THEN MarkTaskSuccess(q[i]) ELSE MarkTaskFailure(q[i])
  BY DEF Marked
<1> HIDE DEF r
<1>3. \A i \in 1 .. Len(q) : r[i] \in Task /\ r[i].id = q[i].id /\ (q[i].done => r[i].done)
  BY <1>1, <1>2, MarkedTask
<1>4. r \in [1 .. Len(q) -> Task]
  BY <1>2, <1>3
<1>5. r \in Seq(Task)
  BY <1>1, <1>4, SeqDef
<1>6. Len(r) = Len(q)
  BY <1>1, <1>4, <1>5, LenProperties
<1>7. Follows(r, q)
  BY <1>1, <1>3, <1>5, <1>6, FollowsPlaceByPlace
<1> QED
  BY <1>2, <1>5, <1>6, <1>7 DEF r

\* What is saved is the beginning of the list, or the record stays.
LEMMA SavedFollows ==
  ASSUME NEW q \in Seq(Task), Saved(q) # stored
  PROVE  /\ Saved(q) \in Seq(Task) /\ Len(Saved(q)) <= MaxList /\ Follows(Saved(q), q)
         /\ Len(Saved(q)) <= Len(q)
         /\ \A i \in 1 .. Len(Saved(q)) : Saved(q)[i] = q[i]
<1> DEFINE n == Least(MaxList, Len(q))
           r == SubSeq(q, 1, n)
<1>1. Len(q) \in Nat /\ MaxList \in Nat /\ \A i \in 1 .. Len(q) : q[i] \in Task
  BY LenProperties, ElementOfSeq, RetryAssumption
<1>2. n \in Nat /\ n <= MaxList /\ n <= Len(q)
  BY <1>1 DEF Least
<1>3. Saved(q) = r
  BY DEF Saved
<1> HIDE DEF n
<1>4. \A i \in 1 .. n : q[i] \in Task
  BY <1>1, <1>2
<1>5. r \in Seq(Task) /\ Len(r) = n /\ \A i \in 1 .. n : r[i] = q[i]
  <2>1. /\ r \in Seq(Task) /\ Len(r) = IF 1 <= n THEN n - 1 + 1 ELSE 0
        /\ \A i \in 1 .. n - 1 + 1 : r[i] = q[1 + i - 1]
    BY <1>2, <1>4, SubSeqProperties
  <2> QED
    BY <1>2, <2>1
<1> HIDE DEF r
<1>6. Follows(r, q)
  BY <1>1, <1>2, <1>5, FollowsPlaceByPlace
<1> QED
  BY <1>1, <1>2, <1>3, <1>5, <1>6

-----------------------------------------------------------------------------
(* The invariant.                                                          *)

QInv == TypeOK /\ UniqueIds

\* The record of a step that takes tasks out, or marks them.
Shrinks == stored' \in Seq(Task) /\ Len(stored') <= MaxList /\ Follows(stored', stored)

LEMMA UniqueIdsIs == UniqueIds <=> Unique(stored)
  BY DEF UniqueIds, Unique

\* What is saved follows the record when the list does.
LEMMA SavedShrinks ==
  ASSUME TypeOK, NEW q \in Seq(Task), Follows(q, stored), stored' = Saved(q)
  PROVE  Shrinks
<1>1. stored \in Seq(Task) /\ Len(stored) <= MaxList /\ Len(stored) \in Nat /\ Len(q) \in Nat
  BY LenProperties DEF TypeOK
<1>2. CASE Saved(q) = stored
  BY <1>1, <1>2, FollowsItself DEF Shrinks
<1>3. CASE Saved(q) # stored
  <2>1. Saved(q) \in Seq(Task) /\ Len(Saved(q)) <= MaxList /\ Follows(Saved(q), q)
    BY <1>3, SavedFollows
  <2>2. Follows(Saved(q), stored)
    BY <1>1, <2>1, FollowsThrough
  <2> QED
    BY <2>1, <2>2 DEF Shrinks
<1> QED
  BY <1>2, <1>3

LEMMA MarkedShrinks ==
  ASSUME TypeOK, NEW id, NEW ok \in BOOLEAN, stored' = Saved(Marked(stored, id, ok))
  PROVE  Shrinks
<1>1. stored \in Seq(Task)
  BY DEF TypeOK
<1>2. Marked(stored, id, ok) \in Seq(Task) /\ Follows(Marked(stored, id, ok), stored)
  BY <1>1, MarkedFollows
<1> QED
  BY <1>2, SavedShrinks

LEMMA FilteredShrinks ==
  ASSUME TypeOK, NEW P \in SUBSET (1 .. Len(stored)), stored' = Saved(Filter(stored, P))
  PROVE  Shrinks
<1>1. stored \in Seq(Task)
  BY DEF TypeOK
<1>2. Filter(stored, P) \in Seq(Task) /\ Follows(Filter(stored, P), stored)
  BY <1>1, FilterFollows
<1> QED
  BY <1>2, SavedShrinks

LEMMA TickShrinks ==
  ASSUME TypeOK, Tick
  PROVE  Shrinks
<1>1. stored \in Seq(Task) /\ Len(stored) \in Nat /\ \A i \in 1 .. Len(stored) : stored[i] \in Task
  BY LenProperties, ElementOfSeq DEF TypeOK
<1>2. /\ stored' = [i \in 1 .. Len(stored) |-> stored'[i]]
      /\ \A i \in 1 .. Len(stored) :
           stored'[i] = [stored[i] EXCEPT !.wait = IF @ > 0 THEN @ - 1 ELSE 0]
  BY DEF Tick
<1>3. \A i \in 1 .. Len(stored) :
        stored'[i] \in Task /\ stored'[i].id = stored[i].id /\ stored'[i].done = stored[i].done
  <2> SUFFICES ASSUME NEW i \in 1 .. Len(stored)
               PROVE  stored'[i] \in Task /\ stored'[i].id = stored[i].id
                      /\ stored'[i].done = stored[i].done
    OBVIOUS
  <2> DEFINE w == IF stored[i].wait > 0 THEN stored[i].wait - 1 ELSE 0
  <2>1. stored[i] \in Task /\ w \in 0 .. MaxDelay
    BY <1>1, RetryAssumption DEF Task
  <2>2. stored'[i] = [stored[i] EXCEPT !.wait = w]
    BY <1>2
  <2> HIDE DEF w
  <2> QED
    BY <2>1, <2>2 DEF Task
<1>4. stored' \in [1 .. Len(stored) -> Task]
  BY <1>2, <1>3
<1>5. stored' \in Seq(Task)
  BY <1>1, <1>4, SeqDef
<1>6. Len(stored') = Len(stored)
  BY <1>1, <1>4, <1>5, LenProperties
<1>7. Follows(stored', stored)
  BY <1>1, <1>3, <1>5, <1>6, FollowsPlaceByPlace
<1> QED
  BY <1>5, <1>6, <1>7 DEF Shrinks, TypeOK

\* Every step but a failed send.
Others ==
  \/ \E id \in Id : SendSucceeded(id)
  \/ \E d \in Drain : DrainStart(d) \/ DrainOk(d) \/ DrainFails(d)
  \/ \E c \in Contact : RemoveContact(c)
  \/ Prune \/ Crash \/ Tick \/ UNCHANGED vars

LEMMA OthersShrink ==
  ASSUME TypeOK, Others
  PROVE  Shrinks
<1>0. CASE UNCHANGED stored
  <2>1. stored \in Seq(Task) /\ Len(stored) <= MaxList
    BY DEF TypeOK
  <2> QED
    BY <1>0, <2>1, FollowsItself DEF Shrinks
<1>1. CASE \E id \in Id : SendSucceeded(id)
  BY <1>1, MarkedShrinks DEF SendSucceeded
<1>2. CASE \E d \in Drain : DrainStart(d) \/ DrainOk(d) \/ DrainFails(d)
  <2>1. ASSUME NEW d \in Drain, DrainStart(d) PROVE Shrinks
    BY <1>0, <2>1 DEF DrainStart
  <2>2. ASSUME NEW d \in Drain, DrainOk(d) \/ DrainFails(d) PROVE Shrinks
    BY <2>2, MarkedShrinks DEF DrainOk, DrainFails, AttemptEnds
  <2> QED
    BY <1>2, <2>1, <2>2
<1>3. CASE \E c \in Contact : RemoveContact(c)
  <2> PICK c \in Contact : RemoveContact(c)
    BY <1>3
  <2> DEFINE P == {i \in 1 .. Len(stored) : ContactOf[stored[i].id] # c}
  <2>1. stored' = Saved(Filter(stored, P)) /\ P \in SUBSET (1 .. Len(stored))
    BY DEF RemoveContact
  <2> HIDE DEF P
  <2> QED
    BY <2>1, FilteredShrinks
<1>4. CASE Prune
  <2> DEFINE P == {i \in 1 .. Len(stored) : ~stored[i].done /\ stored[i].attempts < MaxAttempts}
  <2>1. stored' = Saved(Filter(stored, P)) /\ P \in SUBSET (1 .. Len(stored))
    BY <1>4 DEF Prune
  <2> HIDE DEF P
  <2> QED
    BY <2>1, FilteredShrinks
<1>5. CASE Crash \/ UNCHANGED vars
  BY <1>0, <1>5 DEF Crash, vars
<1>6. CASE Tick
  BY <1>6, TickShrinks
<1> QED
  BY <1>1, <1>2, <1>3, <1>4, <1>5, <1>6 DEF Others

-----------------------------------------------------------------------------
(* A failed send.                                                          *)

\* The record of a failed send: the one before, or one that follows a list
\* whose last task is the new one and the rest of which follows the record
\* and has no task of that id.
Enqueues(id) ==
  \/ stored' = stored
  \/ \E w \in Seq(Task) :
       /\ Follows(w, stored) /\ \A i \in 1 .. Len(w) : w[i].id # id
       /\ stored' \in Seq(Task) /\ Len(stored') <= MaxList
       /\ Follows(stored', Append(w, CreateRetryTask(id)))

LEMMA SendFailedEnqueues ==
  ASSUME TypeOK, NEW id \in Id, SendFailed(id)
  PROVE  Enqueues(id)
<1> DEFINE w == Without(stored, id)
           new == CreateRetryTask(id)
           q == Append(w, new)
           P == {i \in 1 .. Len(stored) : stored[i].id # id}
<1>1. stored \in Seq(Task)
  BY DEF TypeOK
<1>2. new \in Task
  BY RetryAssumption DEF CreateRetryTask, Task
<1>3. w = Filter(stored, P) /\ P \in SUBSET (1 .. Len(stored))
  BY DEF Without
<1> HIDE DEF P
<1>4. /\ w \in Seq(Task) /\ Follows(w, stored)
      /\ \A k \in 1 .. Len(w) : \E i \in P : w[k] = stored[i]
  BY <1>1, <1>3, FilterFollows
<1>5. \A k \in 1 .. Len(w) : w[k].id # id
  BY <1>4 DEF P
<1>6. stored' = IF Saved(q) = stored THEN stored ELSE Marked(Saved(q), id, FALSE)
  BY DEF SendFailed
<1> HIDE DEF w, new
<1>7. q \in Seq(Task) /\ Len(q) \in Nat
  BY <1>2, <1>4, AppendProperties, LenProperties
<1> HIDE DEF q
<1>8. CASE Saved(q) # stored
  <2> DEFINE r == Saved(q)
  <2>1. r \in Seq(Task) /\ Len(r) <= MaxList /\ Follows(r, q)
    BY <1>7, <1>8, SavedFollows
  <2>2. stored' = Marked(r, id, FALSE)
    BY <1>6, <1>8
  <2> HIDE DEF r
  <2>3. stored' \in Seq(Task) /\ Len(stored') = Len(r) /\ Follows(stored', r) /\ Len(r) \in Nat
    BY <2>1, <2>2, MarkedFollows, LenProperties
  <2>4. Follows(stored', q)
    BY <1>7, <2>1, <2>3, FollowsThrough
  <2> QED
    BY <1>4, <1>5, <2>1, <2>3, <2>4 DEF Enqueues, q, new
<1> QED
  BY <1>6, <1>8 DEF Enqueues

\* The list with the new task has each id once.
LEMMA AppendedUnique ==
  ASSUME NEW w \in Seq(Task), NEW id \in Id, Unique(w), \A i \in 1 .. Len(w) : w[i].id # id
  PROVE  /\ Append(w, CreateRetryTask(id)) \in Seq(Task)
         /\ Len(Append(w, CreateRetryTask(id))) = Len(w) + 1
         /\ \A i \in 1 .. Len(w) : Append(w, CreateRetryTask(id))[i] = w[i]
         /\ Append(w, CreateRetryTask(id))[Len(w) + 1].id = id
         /\ Unique(Append(w, CreateRetryTask(id)))
<1> DEFINE new == CreateRetryTask(id)
           q == Append(w, new)
<1>1. new \in Task /\ new.id = id
  BY RetryAssumption DEF CreateRetryTask, Task
<1> HIDE DEF new
<1>2. /\ q \in Seq(Task) /\ Len(q) = Len(w) + 1 /\ Len(w) \in Nat
      /\ \A i \in 1 .. Len(w) : q[i] = w[i]
      /\ q[Len(w) + 1] = new
  BY <1>1, AppendProperties, LenProperties
<1> HIDE DEF q
<1>3. Unique(q)
  <2> SUFFICES ASSUME NEW i \in 1 .. Len(q), NEW j \in 1 .. Len(q), q[i].id = q[j].id
               PROVE  i = j
    BY DEF Unique
  <2>1. CASE i \in 1 .. Len(w) /\ j \in 1 .. Len(w)
    BY <1>2, <2>1 DEF Unique
  <2>2. CASE i = Len(w) + 1 /\ j \in 1 .. Len(w)
    BY <1>1, <1>2, <2>2
  <2>3. CASE i \in 1 .. Len(w) /\ j = Len(w) + 1
    BY <1>1, <1>2, <2>3
  <2> QED
    BY <1>2, <2>1, <2>2, <2>3
<1> QED
  BY <1>1, <1>2, <1>3 DEF q, new

-----------------------------------------------------------------------------
(* The invariant holds.                                                    *)

LEMMA DueIdsType ==
  ASSUME TypeOK
  PROVE  DueIds \in Seq(Id)
<1> DEFINE P == {i \in 1 .. Len(stored) : ~stored[i].done /\ stored[i].wait = 0}
           due == Filter(stored, P)
           n == Least(Limit, Len(due))
<1>1. stored \in Seq(Task) /\ P \in SUBSET (1 .. Len(stored))
  BY DEF TypeOK
<1>2. DueIds = [i \in 1 .. n |-> due[i].id]
  BY DEF DueIds
<1> HIDE DEF P
<1>3. due \in Seq(Task) /\ Len(due) \in Nat /\ \A i \in 1 .. Len(due) : due[i] \in Task
  BY <1>1, FilterFollows, LenProperties, ElementOfSeq
<1> HIDE DEF due
<1>4. n \in Nat /\ n <= Len(due)
  BY <1>3, RetryAssumption DEF Least
<1> HIDE DEF n
<1>5. \A i \in 1 .. n : due[i].id \in Id
  BY <1>3, <1>4 DEF Task
<1>6. DueIds \in [1 .. n -> Id]
  BY <1>2, <1>5
<1> QED
  BY <1>4, <1>6, SeqDef

LEMMA InitInv == Init => QInv
<1> SUFFICES ASSUME Init PROVE QInv
  OBVIOUS
<1>1. stored = <<>> /\ stored \in Seq(Task) /\ Len(stored) = 0 /\ <<>> \in Seq(Id)
  BY EmptySeq DEF Init
<1>2. UniqueIds
  BY <1>1 DEF UniqueIds
<1>3. todo \in [Drain -> Seq(Id)]
  BY <1>1 DEF Init
<1> QED
  <2>1. Len(stored) <= MaxList
    BY <1>1, RetryAssumption
  <2>2. lost \subseteq used /\ used \subseteq Id /\ early \in BOOLEAN
    BY DEF Init
  <2> QED
    BY <1>1, <1>2, <1>3, <2>1, <2>2 DEF QInv, TypeOK

\* The record, whatever the step.
LEMMA RecordTyped ==
  ASSUME QInv, [Next]_vars
  PROVE  stored' \in Seq(Task) /\ Len(stored') <= MaxList /\ UniqueIds'
<1>0. stored \in Seq(Task) /\ Len(stored) <= MaxList /\ Unique(stored) /\ TypeOK
  BY UniqueIdsIs DEF QInv, TypeOK
<1>1. UniqueIds' <=> Unique(stored')
  BY DEF UniqueIds, Unique
<1>2. CASE Others
  BY <1>0, <1>1, <1>2, OthersShrink, FollowsUnique DEF Shrinks
<1>3. ASSUME NEW id \in Id, SendFailed(id)
      PROVE  stored' \in Seq(Task) /\ Len(stored') <= MaxList /\ UniqueIds'
  <2>1. Enqueues(id)
    BY <1>0, <1>3, SendFailedEnqueues
  <2>2. CASE stored' = stored
    BY <1>0, <1>1, <2>2
  <2>3. ASSUME NEW w \in Seq(Task), Follows(w, stored), \A i \in 1 .. Len(w) : w[i].id # id,
               stored' \in Seq(Task), Len(stored') <= MaxList,
               Follows(stored', Append(w, CreateRetryTask(id)))
        PROVE  stored' \in Seq(Task) /\ Len(stored') <= MaxList /\ UniqueIds'
    <3>1. Unique(w)
      BY <1>0, <2>3, FollowsUnique
    <3>2. Append(w, CreateRetryTask(id)) \in Seq(Task) /\ Unique(Append(w, CreateRetryTask(id)))
      BY <2>3, <3>1, AppendedUnique
    <3> QED
      BY <1>1, <2>3, <3>2, FollowsUnique
  <2> QED
    BY <2>1, <2>2, <2>3 DEF Enqueues
<1> QED
  BY <1>2, <1>3 DEF Next, Others

\* The passes and the histories.
LEMMA RestTyped ==
  ASSUME TypeOK, [Next]_vars
  PROVE  /\ todo' \in [Drain -> Seq(Id)]
         /\ lost' \subseteq used' /\ used' \subseteq Id /\ early' \in BOOLEAN
<1>0. /\ todo \in [Drain -> Seq(Id)]
      /\ lost \subseteq used /\ used \subseteq Id /\ early \in BOOLEAN
  BY DEF TypeOK
<1>1. ASSUME NEW id \in Id, SendFailed(id)
      PROVE  UNCHANGED <<todo, early>> /\ lost' \subseteq used' /\ used' \subseteq Id
  <2>1. used' = used \cup {id} /\ lost' \in {lost \ {id}, lost \cup {id}} /\ UNCHANGED <<todo, early>>
    BY <1>1 DEF SendFailed
  <2> QED
    BY <1>0, <2>1
<1>2. ASSUME NEW d \in Drain, DrainStart(d)
      PROVE  todo' \in [Drain -> Seq(Id)] /\ early' \in BOOLEAN /\ UNCHANGED <<used, lost>>
  <2>1. DueIds \in Seq(Id)
    BY DueIdsType
  <2> QED
    BY <1>0, <1>2, <2>1 DEF DrainStart
<1>3. ASSUME NEW d \in Drain, DrainOk(d) \/ DrainFails(d)
      PROVE  todo' \in [Drain -> Seq(Id)] /\ early' \in BOOLEAN /\ UNCHANGED <<used, lost>>
  <2>1. todo[d] \in Seq(Id) /\ todo[d] # <<>>
    BY <1>0, <1>3 DEF DrainOk, DrainFails, AttemptEnds
  <2>2. Tail(todo[d]) \in Seq(Id)
    BY <2>1, HeadTailProperties
  <2> QED
    BY <1>0, <1>3, <2>2 DEF DrainOk, DrainFails, AttemptEnds
<1>4. CASE Crash
  BY <1>0, <1>4, EmptySeq DEF Crash
<1>5. CASE (\E id \in Id : SendSucceeded(id)) \/ (\E c \in Contact : RemoveContact(c)) \/ Prune \/ Tick
           \/ UNCHANGED vars
  BY <1>0, <1>5 DEF SendSucceeded, RemoveContact, Prune, Tick, vars
<1> QED
  BY <1>0, <1>1, <1>2, <1>3, <1>4, <1>5 DEF Next

LEMMA NextInv == QInv /\ [Next]_vars => QInv'
  BY RecordTyped, RestTyped DEF QInv, TypeOK

THEOREM RecordInvariant == Spec => []QInv
<1>1. Init => QInv
  BY InitInv
<1>2. QInv /\ [Next]_vars => QInv'
  BY NextInv
<1> QED
  BY <1>1, <1>2, PTL DEF Spec

\* The record, the passes and the histories are what they are said to be, for
\* any numbers of tasks and passes: the record never exceeds its limit.
THEOREM RecordTypes == Spec => []TypeOK
<1>1. QInv => TypeOK
  BY DEF QInv
<1> QED
  BY <1>1, RecordInvariant, PTL

\* A task id names one task of the record, for any number of overlapping
\* passes, repeated sends, cuts and crashes.
THEOREM OneTaskForEachId == Spec => []UniqueIds
<1>1. QInv => UniqueIds
  BY DEF QInv
<1> QED
  BY <1>1, RecordInvariant, PTL

-----------------------------------------------------------------------------
(* The steps.                                                              *)

\* The task of an id is the one at any place with that id.
LEMMA TaskIs ==
  ASSUME Unique(stored), NEW id \in Id, NEW i \in 1 .. Len(stored), stored[i].id = id
  PROVE  TaskOf(id) = stored[i]
  BY DEF TaskOf, Unique

LEMMA TaskIsNext ==
  ASSUME Unique(stored'), NEW id \in Id, NEW k \in 1 .. Len(stored'), stored'[k].id = id
  PROVE  TaskOf(id)' = stored'[k]
  BY DEF TaskOf, Unique

\* In two lists that follow each other and name each task once, what is done
\* stays done and nothing is overtaken.
LEMMA FollowsKeeps ==
  ASSUME NEW q \in Seq(Task), NEW r \in Seq(Task), Follows(r, q), Unique(q), Unique(r),
         NEW i \in 1 .. Len(q), NEW k \in 1 .. Len(r), r[k].id = q[i].id
  PROVE  /\ q[i].done => r[k].done
         /\ \A j \in 1 .. Len(q), l \in 1 .. Len(r) : i < j /\ r[l].id = q[j].id => k < l
<1>1. PICK g : Origin(g, r, q)
  BY DEF Follows
<1>2. Len(q) \in Nat /\ Len(r) \in Nat
  BY LenProperties
<1>3. \A m \in 1 .. Len(r) : g[m] \in 1 .. Len(q) /\ r[m].id = q[g[m]].id /\ (q[g[m]].done => r[m].done)
  BY <1>1 DEF Origin
<1>4. g[k] = i
  BY <1>3 DEF Unique
<1>5. \A j \in 1 .. Len(q), l \in 1 .. Len(r) : i < j /\ r[l].id = q[j].id => k < l
  <2> SUFFICES ASSUME NEW j \in 1 .. Len(q), NEW l \in 1 .. Len(r), i < j, r[l].id = q[j].id, ~(k < l)
               PROVE  FALSE
    OBVIOUS
  <2>1. g[l] = j
    <3>1. g[l] \in 1 .. Len(q) /\ q[g[l]].id = q[j].id
      BY <1>3
    <3> QED
      BY <3>1 DEF Unique
  <2>2. l < k \/ l = k
    BY <1>2
  <2> QED
    BY <1>1, <1>2, <1>4, <2>1, <2>2 DEF Origin
<1> QED
  BY <1>3, <1>4, <1>5

\* A step that is no failed send of id leaves what is done of id done, and
\* overtakes no task of it.
LEMMA StepKeeps ==
  ASSUME QInv, [Next]_vars, NEW i \in 1 .. Len(stored), NEW k \in 1 .. Len(stored'),
         stored'[k].id = stored[i].id, ~SendFailed(stored[i].id)
  PROVE  /\ stored[i].done => stored'[k].done
         /\ \A j \in 1 .. Len(stored), l \in 1 .. Len(stored') :
              i < j /\ stored'[l].id = stored[j].id => ~(k > l)
<1>0. /\ stored \in Seq(Task) /\ Unique(stored) /\ TypeOK /\ Len(stored) \in Nat
      /\ stored' \in Seq(Task) /\ Len(stored') \in Nat
  BY UniqueIdsIs, RecordTyped, LenProperties DEF QInv, TypeOK
<1>1. Unique(stored')
  <2>1. UniqueIds' <=> Unique(stored')
    BY DEF UniqueIds, Unique
  <2> QED
    BY <2>1, RecordTyped
<1>2. CASE Follows(stored', stored)
  BY <1>0, <1>1, <1>2, FollowsKeeps
<1>3. ASSUME NEW id \in Id, SendFailed(id), stored' # stored
      PROVE  /\ stored[i].done => stored'[k].done
             /\ \A j \in 1 .. Len(stored), l \in 1 .. Len(stored') :
                  i < j /\ stored'[l].id = stored[j].id => ~(k > l)
  <2>1. Enqueues(id) /\ id # stored[i].id
    BY <1>0, <1>3, SendFailedEnqueues
  <2>2. PICK w \in Seq(Task) :
          /\ Follows(w, stored) /\ \A m \in 1 .. Len(w) : w[m].id # id
          /\ Follows(stored', Append(w, CreateRetryTask(id)))
    BY <1>3, <2>1 DEF Enqueues
  <2> DEFINE q == Append(w, CreateRetryTask(id))
  <2>3. Unique(w) /\ Len(w) \in Nat
    BY <1>0, <2>2, FollowsUnique, LenProperties
  <2>4. /\ q \in Seq(Task) /\ Unique(q) /\ Len(q) = Len(w) + 1
        /\ \A m \in 1 .. Len(w) : q[m] = w[m]
        /\ q[Len(w) + 1].id = id
    BY <2>2, <2>3, AppendedUnique
  <2> HIDE DEF q
  <2>5. PICK g : Origin(g, stored', q)
    BY <2>2 DEF Follows, q
  <2>6. \A m \in 1 .. Len(stored') : g[m] \in 1 .. Len(q) /\ stored'[m].id = q[g[m]].id
    BY <2>5 DEF Origin
  <2>7. g[k] \in 1 .. Len(w)
    <3>1. g[k] # Len(w) + 1
      BY <2>1, <2>4, <2>6
    <3> QED
      BY <2>3, <2>4, <2>6, <3>1
  <2>8. w[g[k]].id = stored[i].id
    BY <2>4, <2>6, <2>7
  <2>9. stored[i].done => stored'[k].done
    <3>1. stored[i].done => w[g[k]].done
      BY <1>0, <2>2, <2>3, <2>7, <2>8, FollowsKeeps
    <3>2. q[g[k]].done => stored'[k].done
      BY <2>5 DEF Origin
    <3> QED
      BY <2>4, <2>7, <3>1, <3>2
  <2>10. ASSUME NEW j \in 1 .. Len(stored), NEW l \in 1 .. Len(stored'), i < j,
                stored'[l].id = stored[j].id
         PROVE  ~(k > l)
    <3>1. g[l] \in 1 .. Len(q) /\ (k > l => g[k] > g[l])
      <4>1. g[k] \in Nat /\ g[l] \in 1 .. Len(q)
        BY <2>6, <2>7
      <4>2. k > l => g[l] < g[k]
        BY <1>0, <2>5 DEF Origin
      <4> QED
        BY <4>1, <4>2
    <3>2. CASE g[l] = Len(w) + 1
      BY <2>3, <2>7, <3>1, <3>2
    <3>3. CASE g[l] # Len(w) + 1
      <4>1. g[l] \in 1 .. Len(w) /\ g[k] \in 1 .. Len(w)
        BY <2>3, <2>4, <2>7, <3>1, <3>3
      <4>2. w[g[l]].id = stored[j].id
        BY <2>4, <2>6, <2>10, <4>1
      <4>3. g[k] < g[l]
        BY <1>0, <2>2, <2>3, <2>8, <2>10, <4>1, <4>2, FollowsKeeps
      <4> QED
        BY <3>1, <4>1, <4>3
    <3> QED
      BY <3>2, <3>3
  <2> QED
    BY <2>9, <2>10
<1>4. CASE stored' = stored
  BY <1>0, <1>2, <1>4, FollowsItself
<1>5. CASE Others
  BY <1>0, <1>2, <1>5, OthersShrink DEF Shrinks
<1> QED
  BY <1>3, <1>4, <1>5 DEF Next, Others

\* The step of RecordKept.
LEMMA KeptStep ==
  ASSUME QInv, [Next]_vars
  PROVE  /\ [\A id \in Id :
               (HasId(stored, id) /\ TaskOf(id).done /\ HasId(stored', id) /\ ~TaskOf(id)'.done)
                 => SendFailed(id)]_vars
         /\ [\A i, j \in 1 .. Len(stored), k, l \in 1 .. Len(stored') :
               (i < j /\ stored'[k].id = stored[i].id /\ stored'[l].id = stored[j].id /\ k > l)
                 => SendFailed(stored[i].id)]_vars
<1>1. ASSUME NEW id \in Id,
             HasId(stored, id), TaskOf(id).done, HasId(stored', id), ~TaskOf(id)'.done
      PROVE  SendFailed(id)
  <2>1. PICK i \in 1 .. Len(stored) : stored[i].id = id
    BY <1>1 DEF HasId
  <2>2. PICK k \in 1 .. Len(stored') : stored'[k].id = id
    BY <1>1 DEF HasId
  <2>3. Unique(stored) /\ Unique(stored')
    <3>1. UniqueIds' <=> Unique(stored')
      BY DEF UniqueIds, Unique
    <3> QED
      BY <3>1, RecordTyped, UniqueIdsIs DEF QInv
  <2>4. TaskOf(id) = stored[i] /\ TaskOf(id)' = stored'[k]
    BY <2>1, <2>2, <2>3, TaskIs, TaskIsNext
  <2>5. stored[i].done /\ ~stored'[k].done
    BY <1>1, <2>4
  <2> QED
    BY <2>1, <2>2, <2>5, StepKeeps
<1>2. ASSUME NEW i \in 1 .. Len(stored), NEW j \in 1 .. Len(stored),
             NEW k \in 1 .. Len(stored'), NEW l \in 1 .. Len(stored'),
             i < j, stored'[k].id = stored[i].id, stored'[l].id = stored[j].id, k > l
      PROVE  SendFailed(stored[i].id)
  BY <1>2, StepKeeps
<1> QED
  BY <1>1, <1>2

\* Whatever passes and sends overlap: a completed task is opened again by
\* nothing but a new failed send of it, and no other task is overtaken.
THEOREM RecordStaysInOrder == Spec => RecordKept
<1>1. QInv /\ [Next]_vars =>
        /\ [\A id \in Id :
               (HasId(stored, id) /\ TaskOf(id).done /\ HasId(stored', id) /\ ~TaskOf(id)'.done)
                 => SendFailed(id)]_vars
        /\ [\A i, j \in 1 .. Len(stored), k, l \in 1 .. Len(stored') :
               (i < j /\ stored'[k].id = stored[i].id /\ stored'[l].id = stored[j].id /\ k > l)
                 => SendFailed(stored[i].id)]_vars
  BY KeptStep
<1> QED
  BY <1>1, RecordInvariant, PTL DEF Spec, RecordKept, CompletedStays, OldestFirst

=============================================================================
