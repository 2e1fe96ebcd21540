----------------------------- MODULE GateProofs -----------------------------
(***************************************************************************)
(* Gate for every policy file, limit, set of keys and number of callers:   *)
(* the limiter keeps the promise of the sliding window and its wait is     *)
(* long enough, a reload leaves the logins alone, the loader and the       *)
(* command-line check differ only where one of them does not look, the     *)
(* first template wins and a key opens no more than MCP was started with.  *)
(***************************************************************************)
EXTENDS Gate, FiniteSetTheorems, SequenceTheorems, WellFoundedInduction, TLAPS

\* The oldest request comes first in a log.
Sorted(log) == \A i, j \in DOMAIN log : i <= j => log[i] >= log[j]

\* The first n entries of a log are the ones the window has passed.
CutAt(log, window, n) ==
    n \in 0..Len(log) /\ \A i \in 1..Len(log) : i <= n <=> log[i] >= window

\* A set of numbers that is not empty has a least one.
LEMMA LeastNumber ==
    ASSUME NEW T, T \subseteq Nat, T # {}
    PROVE  \E x \in T : \A y \in T : x <= y
<1>1. IsWellFoundedOn(OpToRel(<, Nat), Nat)  BY NatLessThanWellFounded
<1>2. PICK x \in T : \A y \in T : ~ (<<y, x>> \in OpToRel(<, Nat))  BY <1>1, WFMin
<1>3. \A y \in T : ~(y < x)  BY <1>2 DEF OpToRel
<1>4. \A y \in T : x <= y  BY <1>3
<1> QED  BY <1>4

LEMMA Interval ==
    ASSUME NEW n \in Nat
    PROVE  IsFiniteSet(1..n) /\ Cardinality(1..n) = n
<1>1. 1 \in Int /\ n \in Int  OBVIOUS
<1>2. Cardinality(1..n) = IF 1 > n THEN 0 ELSE n - 1 + 1  BY <1>1, FS_Interval
<1>3. IsFiniteSet(1..n)  BY <1>1, FS_Interval
<1> QED  BY <1>2, <1>3

\* A log of the limiter is a sequence of ages no longer than the limit, and empty when
\* there is no limit.
LEMMA LogIsSeq ==
    ASSUME NEW max \in Int, NEW window \in Nat, NEW log \in Logs(max, window)
    PROVE  /\ log \in Seq(0..window) /\ log \in Seq(Nat) /\ Len(log) \in Nat
           /\ DOMAIN log = 1..Len(log)
           /\ Len(log) = 0 \/ Len(log) <= max
<1>1. PICK n \in 0..(IF max > 0 THEN max ELSE 0) : log \in [1..n -> 0..window]  BY DEF Logs
<1>2. n \in Nat /\ (n = 0 \/ n <= max)  BY <1>1
<1>3. log \in Seq(0..window) /\ Len(log) = n  BY <1>1, <1>2, IsASeq
<1>4. 0..window \subseteq Nat  OBVIOUS
<1>5. log \in Seq(Nat)  BY <1>3, <1>4, SeqMonotonic
<1> QED  BY <1>2, <1>3, <1>5

LEMMA SeqIsLog ==
    ASSUME NEW max \in Int, NEW window \in Nat, NEW log \in Seq(0..window),
           Len(log) = 0 \/ Len(log) <= max
    PROVE  log \in Logs(max, window)
<1>1. Len(log) \in 0..(IF max > 0 THEN max ELSE 0)  BY LenProperties
<1>2. log \in [1..Len(log) -> 0..window]  BY LenProperties
<1> QED  BY <1>1, <1>2 DEF Logs

\* In a sorted log there is such a point.
LEMMA CutExists ==
    ASSUME NEW window \in Nat, NEW log \in Seq(Nat), Sorted(log)
    PROVE  \E n \in 0..Len(log) : CutAt(log, window, n)
<1> DEFINE old == {i \in 1..Len(log) : log[i] >= window}
           n == Cardinality(old)
<1>1. Len(log) \in Nat /\ DOMAIN log = 1..Len(log) /\ \A i \in 1..Len(log) : log[i] \in Nat
  BY LenProperties
<1>2. IsFiniteSet(1..Len(log)) /\ Cardinality(1..Len(log)) = Len(log)  BY <1>1, Interval
<1>3. IsFiniteSet(old) /\ n <= Len(log)  BY <1>2, FS_Subset
<1>4. n \in Nat  BY <1>3, FS_CardinalityType
<1>5. ASSUME NEW i \in old  PROVE i <= n
  <2>1. \A j \in 1..i : j \in old  BY <1>1 DEF Sorted
  <2>2. 1..i \subseteq old /\ i \in Nat  BY <2>1
  <2>3. Cardinality(1..i) = i  BY <2>2, Interval
  <2>4. Cardinality(1..i) <= Cardinality(old)  BY <1>3, <2>2, FS_Subset
  <2> QED  BY <2>3, <2>4
<1>6. ASSUME NEW i \in 1..Len(log), i \notin old  PROVE i > n
  <2>1. \A j \in old : j < i  BY <1>1, <1>6 DEF Sorted
  <2>2. old \subseteq 1..(i - 1) /\ i - 1 \in Nat  BY <2>1
  <2>3. Cardinality(1..(i - 1)) = i - 1 /\ IsFiniteSet(1..(i - 1))  BY <2>2, Interval
  <2>4. n <= Cardinality(1..(i - 1))  BY <2>2, <2>3, FS_Subset
  <2> QED  BY <1>4, <2>3, <2>4
<1> HIDE DEF n
<1>7. \A i \in 1..Len(log) : i <= n <=> log[i] >= window
  <2> TAKE i \in 1..Len(log)
  <2>1. CASE i \in old  BY <1>5, <2>1
  <2>2. CASE i \notin old
    <3>1. i > n  BY <1>6, <2>2
    <3> QED  BY <1>1, <1>4, <2>2, <3>1
  <2> QED  BY <2>1, <2>2
<1>8. n \in 0..Len(log)  BY <1>1, <1>3, <1>4 DEF n
<1> QED  BY <1>7, <1>8 DEF CutAt

\* Pruning cuts the log there.
LEMMA PrunedIsSuffix ==
    ASSUME NEW window \in Nat, NEW S, NEW log \in Seq(S), NEW n \in 0..Len(log),
           CutAt(log, window, n)
    PROVE  /\ Pruned(log, window) \in Seq(S)
           /\ Len(Pruned(log, window)) = Len(log) - n
           /\ \A i \in 1..(Len(log) - n) : Pruned(log, window)[i] = log[n + i]
<1>1. Len(log) \in Nat /\ DOMAIN log = 1..Len(log) /\ \A i \in 1..Len(log) : log[i] \in S
  BY LenProperties
<1>2. n \in Nat /\ n <= Len(log)  BY <1>1
<1>3. {i \in DOMAIN log : log[i] >= window} = 1..n
  BY <1>1, <1>2 DEF CutAt
<1>4. Cardinality(1..n) = n  BY <1>2, Interval
<1>5. Pruned(log, window) = SubSeq(log, 1 + n, Len(log))  BY <1>3, <1>4 DEF Pruned
<1>6. \A i \in (1 + n)..Len(log) : log[i] \in S  BY <1>1, <1>2
<1>7. /\ SubSeq(log, 1 + n, Len(log)) \in Seq(S)
      /\ Len(SubSeq(log, 1 + n, Len(log))) = IF 1 + n <= Len(log) THEN Len(log) - (1 + n) + 1 ELSE 0
      /\ \A i \in 1..(Len(log) - (1 + n) + 1) : SubSeq(log, 1 + n, Len(log))[i] = log[1 + n + i - 1]
  <2>1. 1 + n \in Int /\ Len(log) \in Int  BY <1>1, <1>2
  <2> QED  BY <1>6, <2>1, SubSeqProperties
<1>8. Len(Pruned(log, window)) = Len(log) - n
  <2>1. CASE n = Len(log)
    <3>1. ~(1 + n <= Len(log)) /\ Len(log) - n = 0  BY <1>1, <2>1
    <3> QED  BY <1>5, <1>7, <3>1
  <2>2. CASE n # Len(log)
    <3>1. \A l, m \in Nat : m <= l /\ m # l => 1 + m <= l /\ l - (1 + m) + 1 = l - m  OBVIOUS
    <3>2. Len(log) \in Nat  BY <1>1
    <3>3. 1 + n <= Len(log) /\ Len(log) - (1 + n) + 1 = Len(log) - n  BY <1>2, <2>2, <3>1, <3>2
    <3> QED  BY <1>5, <1>7, <3>3
  <2> QED  BY <2>1, <2>2
<1>9. \A i \in 1..(Len(log) - n) : Pruned(log, window)[i] = log[n + i]
  <2> TAKE i \in 1..(Len(log) - n)
  <2>1. i \in 1..(Len(log) - (1 + n) + 1) /\ 1 + n + i - 1 = n + i  BY <1>1, <1>2
  <2> QED  BY <1>5, <1>7, <2>1
<1> QED  BY <1>5, <1>7, <1>8, <1>9

\* What counts of a sorted log: the entries younger than the window, sorted too.
LEMMA PrunedLog ==
    ASSUME NEW max \in Int, NEW window \in Nat, NEW log \in Logs(max, window), Sorted(log)
    PROVE  /\ Pruned(log, window) \in Logs(max, window) /\ Sorted(Pruned(log, window))
           /\ \A i \in 1..Len(Pruned(log, window)) : Pruned(log, window)[i] < window
<1> DEFINE pruned == Pruned(log, window)
<1>1. /\ log \in Seq(0..window) /\ log \in Seq(Nat) /\ Len(log) \in Nat
      /\ DOMAIN log = 1..Len(log) /\ (Len(log) = 0 \/ Len(log) <= max)
  BY LogIsSeq
<1>2. PICK n \in 0..Len(log) : CutAt(log, window, n)  BY <1>1, CutExists
<1>3. /\ pruned \in Seq(0..window) /\ Len(pruned) = Len(log) - n
      /\ \A i \in 1..(Len(log) - n) : pruned[i] = log[n + i]
  <2>1. PICK S : S = 0..window /\ log \in Seq(S)  BY <1>1
  <2>2. window \in Nat /\ n \in 0..Len(log)  OBVIOUS
  <2>3. /\ Pruned(log, window) \in Seq(S)
        /\ Len(Pruned(log, window)) = Len(log) - n
        /\ \A i \in 1..(Len(log) - n) : Pruned(log, window)[i] = log[n + i]
    BY ONLY <1>2, <2>1, <2>2, PrunedIsSuffix
  <2> QED  BY <2>1, <2>3
<1> HIDE DEF pruned
<1>4. DOMAIN pruned = 1..Len(pruned) /\ \A i \in 1..Len(log) : log[i] \in 0..window
  BY <1>1, <1>3, LenProperties
<1>a. n \in Nat /\ n <= Len(log) /\ Len(pruned) \in Nat /\ Len(pruned) <= Len(log)  BY <1>1, <1>3
<1>5. Len(pruned) = 0 \/ Len(pruned) <= max  BY <1>1, <1>a
<1>6. pruned \in Logs(max, window)  BY <1>3, <1>5, SeqIsLog
<1>7. \A i \in 1..Len(pruned) : pruned[i] < window
  <2> TAKE i \in 1..Len(pruned)
  <2>1. i \in 1..(Len(log) - n) /\ n + i \in 1..Len(log) /\ ~(n + i <= n)  BY <1>1, <1>3
  <2>2. ~(log[n + i] >= window)  BY <1>2, <2>1 DEF CutAt
  <2> QED  BY <1>3, <1>4, <2>1, <2>2
<1>8. Sorted(pruned)
  <2> SUFFICES ASSUME NEW i \in DOMAIN pruned, NEW j \in DOMAIN pruned, i <= j
               PROVE  pruned[i] >= pruned[j]
    BY DEF Sorted
  <2>0. Len(log) \in Nat /\ i \in 1..(Len(log) - n) /\ j \in 1..(Len(log) - n)  BY <1>1, <1>3, <1>4
  <2>1. n + i \in DOMAIN log /\ n + j \in DOMAIN log /\ n + i <= n + j
    <3>1. n + i \in 1..Len(log) /\ n + j \in 1..Len(log) /\ n + i <= n + j  BY <1>a, <2>0
    <3> QED  BY <1>1, <3>1
  <2>2. pruned[i] = log[n + i] /\ pruned[j] = log[n + j]  BY <1>3, <1>4
  <2> QED  BY <2>1, <2>2 DEF Sorted
<1> QED  BY <1>6, <1>7, <1>8 DEF pruned

\* Nothing is cut from a log all of whose entries count.
LEMMA YoungLogStays ==
    ASSUME NEW window \in Nat, NEW log \in Seq(Nat), \A i \in 1..Len(log) : log[i] < window
    PROVE  Pruned(log, window) = log
<1>1. Len(log) \in Nat /\ \A i \in 1..Len(log) : log[i] \in Nat  BY LenProperties
<1>2. 0 \in 0..Len(log) /\ CutAt(log, window, 0)  BY <1>1 DEF CutAt
<1>3. /\ Pruned(log, window) \in Seq(Nat) /\ Len(Pruned(log, window)) = Len(log) - 0
      /\ \A i \in 1..(Len(log) - 0) : Pruned(log, window)[i] = log[0 + i]
  BY <1>2, PrunedIsSuffix
<1>4. Len(Pruned(log, window)) = Len(log) /\ \A i \in 1..Len(log) : Pruned(log, window)[i] = log[i]
  BY <1>1, <1>3
<1> QED  BY <1>3, <1>4, SeqEqual

LEMMA EmptyLog ==
    ASSUME NEW max \in Int, NEW window \in Nat
    PROVE  << >> \in Logs(max, window) /\ Sorted(<< >>) /\ Pruned(<< >>, window) = << >>
<1>1. << >> \in Seq(0..window) /\ << >> \in Seq(Nat) /\ Len(<< >>) = 0  BY EmptySeq
<1>2. << >> \in Logs(max, window)  BY <1>1, SeqIsLog
<1>3. Sorted(<< >>)  BY DEF Sorted
<1>4. Pruned(<< >>, window) = << >>
  <2>1. \A i \in 1..Len(<< >>) : << >>[i] < window  BY <1>1
  <2> QED  BY <1>1, <2>1, YoungLogStays
<1> QED  BY <1>2, <1>3, <1>4

\* After Allow exactly the requests that counted before count, and the new one if it was
\* admitted.
LEMMA LoggedLog ==
    ASSUME NEW max \in Int, NEW window \in Nat \ {0}, NEW log \in Logs(max, window), Sorted(log)
    PROVE  /\ Logged(log, max, window) \in Logs(max, window) /\ Sorted(Logged(log, max, window))
           /\ max <= 0 => Logged(log, max, window) = log
           /\ max > 0 /\ Allows(log, max, window) =>
                 Pruned(Logged(log, max, window), window) = Append(Pruned(log, window), 0)
           /\ ~Allows(log, max, window) =>
                 Pruned(Logged(log, max, window), window) = Pruned(log, window)
<1> DEFINE pruned == Pruned(log, window)
<1>1. /\ pruned \in Logs(max, window) /\ Sorted(pruned)
      /\ \A i \in 1..Len(pruned) : pruned[i] < window
  BY PrunedLog
<1>2. /\ pruned \in Seq(0..window) /\ pruned \in Seq(Nat) /\ Len(pruned) \in Nat
      /\ DOMAIN pruned = 1..Len(pruned) /\ (Len(pruned) = 0 \/ Len(pruned) <= max)
  BY <1>1, LogIsSeq
<1>3. CASE max <= 0  BY <1>3 DEF Logged, Allows
<1>4. CASE ~Allows(log, max, window)
  <2>1. Logged(log, max, window) = pruned  BY <1>4 DEF Logged, Allows
  <2>2. Pruned(pruned, window) = pruned  BY <1>1, <1>2, YoungLogStays
  <2> QED  BY <1>1, <1>4, <2>1, <2>2 DEF Allows
<1>5. CASE max > 0 /\ Allows(log, max, window)
  <2> DEFINE new == Append(pruned, 0)
  <2>1. Logged(log, max, window) = new /\ Len(pruned) < max  BY <1>5 DEF Logged, Allows
  <2> HIDE DEF pruned
  <2>2. /\ new \in Seq(0..window) /\ Len(new) = Len(pruned) + 1
        /\ \A i \in 1..Len(pruned) : new[i] = pruned[i]
        /\ new[Len(pruned) + 1] = 0
    BY <1>2, AppendProperties
  <2>3. new \in Seq(Nat) /\ DOMAIN new = 1..Len(new)
    <3>1. 0 \in Nat  OBVIOUS
    <3> QED  BY <1>2, <2>2, <3>1, AppendProperties, LenProperties
  <2> HIDE DEF new
  <2>4. \A i \in 1..Len(new) : new[i] < window
    <3> TAKE i \in 1..Len(new)
    <3>1. i \in 1..Len(pruned) \/ i = Len(pruned) + 1  BY <1>2, <2>2
    <3> QED  BY <1>1, <2>2, <3>1 DEF pruned
  <2>5. new \in Logs(max, window)
    <3>1. Len(new) <= max  BY <1>2, <2>1, <2>2, <1>5
    <3> QED  BY <2>2, <3>1, SeqIsLog
  <2>6. Sorted(new)
    <3> SUFFICES ASSUME NEW i \in DOMAIN new, NEW j \in DOMAIN new, i <= j
                 PROVE  new[i] >= new[j]
      BY DEF Sorted
    <3>1. i \in 1..(Len(pruned) + 1) /\ j \in 1..(Len(pruned) + 1)  BY <2>2, <2>3
    <3>2. CASE j = Len(pruned) + 1
      <4>1. new[i] \in Nat  BY <2>3, LenProperties
      <4> QED  BY <2>2, <3>2, <4>1
    <3>3. CASE j # Len(pruned) + 1
      <4>1. i \in 1..Len(pruned) /\ j \in 1..Len(pruned)  BY <1>2, <3>1, <3>3
      <4> QED  BY <1>1, <1>2, <2>2, <4>1 DEF Sorted, pruned
    <3> QED  BY <3>2, <3>3
  <2>7. Pruned(new, window) = new  BY <2>3, <2>4, YoungLogStays
  <2> QED  BY <1>5, <2>1, <2>5, <2>6, <2>7 DEF new, pruned, Allows
<1> QED  BY <1>3, <1>4, <1>5

\* One unit of time later exactly those that were a unit short of the window count no more.
LEMMA AgedLogs ==
    ASSUME NEW max \in Int, NEW window \in Nat \ {0}, NEW log \in Logs(max, window), Sorted(log)
    PROVE  /\ AgedLog(log, window) \in Logs(max, window) /\ Sorted(AgedLog(log, window))
           /\ LET before == Pruned(log, window)
                  after == Pruned(AgedLog(log, window), window)
              IN  \E m \in 0..Len(before) :
                     /\ \A i \in DOMAIN before : i <= m <=> before[i] + 1 >= window
                     /\ after = [i \in 1..(Len(before) - m) |-> before[m + i] + 1]
<1> DEFINE aged == AgedLog(log, window)
           before == Pruned(log, window)
           after == Pruned(aged, window)
<1>1. /\ log \in Seq(0..window) /\ log \in Seq(Nat) /\ Len(log) \in Nat
      /\ DOMAIN log = 1..Len(log) /\ (Len(log) = 0 \/ Len(log) <= max)
  BY LogIsSeq
<1>2. \A i \in 1..Len(log) : log[i] \in 0..window  BY <1>1, LenProperties
<1>3. /\ DOMAIN aged = 1..Len(log)
      /\ \A i \in 1..Len(log) : aged[i] = IF log[i] < window THEN log[i] + 1 ELSE window
  BY <1>1 DEF AgedLog
<1>4. aged \in [1..Len(log) -> 0..window]
  <2>1. \A i \in 1..Len(log) : (IF log[i] < window THEN log[i] + 1 ELSE window) \in 0..window  BY <1>2
  <2> QED  BY <1>1, <2>1 DEF AgedLog
<1> HIDE DEF aged
<1>5. aged \in Seq(0..window) /\ Len(aged) = Len(log)  BY <1>1, <1>4, IsASeq
<1>6. aged \in Logs(max, window)  BY <1>1, <1>5, SeqIsLog
<1>7. Sorted(aged)
  <2> SUFFICES ASSUME NEW i \in DOMAIN aged, NEW j \in DOMAIN aged, i <= j
               PROVE  aged[i] >= aged[j]
    BY DEF Sorted
  <2>1. log[i] \in 0..window /\ log[j] \in 0..window /\ log[i] >= log[j]
    BY <1>1, <1>2, <1>3 DEF Sorted
  <2>2. /\ aged[i] = IF log[i] < window THEN log[i] + 1 ELSE window
        /\ aged[j] = IF log[j] < window THEN log[j] + 1 ELSE window
    BY <1>3
  <2> QED  BY <2>1, <2>2
<1>8. aged \in Seq(Nat)  BY <1>6, LogIsSeq
<1>9. PICK n \in 0..Len(log) : CutAt(log, window, n)  BY <1>1, CutExists
<1>10. PICK k \in 0..Len(aged) : CutAt(aged, window, k)  BY <1>7, <1>8, CutExists
<1>11. n \in Nat /\ n <= Len(log) /\ k \in Nat /\ k <= Len(log)  BY <1>1, <1>5
<1>12. /\ before \in Seq(Nat) /\ Len(before) = Len(log) - n
       /\ \A i \in 1..(Len(log) - n) : before[i] = log[n + i]
  <2>1. window \in Nat /\ log \in Seq(Nat)  BY <1>1
  <2> QED  BY <1>9, <2>1, PrunedIsSuffix
<1>13. /\ after \in Seq(Nat) /\ Len(after) = Len(aged) - k
       /\ \A i \in 1..(Len(aged) - k) : after[i] = aged[k + i]
  BY <1>8, <1>10, PrunedIsSuffix
<1> HIDE DEF before, after
<1>14. \A i \in 1..Len(log) : i <= k <=> log[i] + 1 >= window
  <2> TAKE i \in 1..Len(log)
  <2>1. i <= k <=> aged[i] >= window  BY <1>5, <1>10 DEF CutAt
  <2>2. aged[i] >= window <=> log[i] + 1 >= window  BY <1>2, <1>3
  <2> QED  BY <2>1, <2>2
<1>15. n <= k
  <2>1. CASE n = 0  BY <1>11, <2>1
  <2>2. CASE n # 0
    <3>1. n \in 1..Len(log) /\ n <= n  BY <1>11, <2>2
    <3>2. log[n] >= window  BY <1>9, <3>1 DEF CutAt
    <3>3. log[n] + 1 >= window  BY <1>2, <3>1, <3>2
    <3> QED  BY <1>14, <3>1, <3>3
  <2> QED  BY <2>1, <2>2
<1> DEFINE m == k - n
<1>16. m \in Nat /\ m <= Len(before) /\ m \in 0..Len(before) /\ n + m = k  BY <1>1, <1>11, <1>12, <1>15
<1>17. DOMAIN before = 1..(Len(log) - n) /\ DOMAIN after = 1..(Len(log) - k)
  <2>1. DOMAIN before = 1..Len(before) /\ DOMAIN after = 1..Len(after)  BY <1>12, <1>13, LenProperties
  <2> QED  BY <1>5, <1>12, <1>13, <2>1
<1> HIDE DEF m
<1>18. \A i \in DOMAIN before : i <= m <=> before[i] + 1 >= window
  <2> TAKE i \in DOMAIN before
  <2>1. i \in 1..(Len(log) - n)  BY <1>17
  <2>2. n + i \in 1..Len(log)  BY <1>1, <1>11, <2>1
  <2>3. i <= m <=> n + i <= k  BY <1>11, <1>16, <2>1
  <2>4. before[i] = log[n + i]  BY <1>12, <2>1
  <2> QED  BY <1>14, <2>2, <2>3, <2>4
<1>19. after = [i \in 1..(Len(before) - m) |-> before[m + i] + 1]
  <2>0. Len(log) \in Nat /\ Len(before) = Len(log) - n  BY <1>1, <1>12
  <2>1. Len(before) - m = Len(log) - k  BY <1>11, <1>16, <2>0
  <2>2. ASSUME NEW i \in 1..(Len(log) - k)  PROVE after[i] = before[m + i] + 1
    <3>1. k + i \in 1..Len(log) /\ ~(k + i <= k)  BY <1>1, <1>11
    <3>2. m + i \in 1..(Len(log) - n) /\ n + (m + i) = k + i  BY <1>1, <1>11, <1>16
    <3>3. after[i] = aged[k + i]  BY <1>5, <1>13
    <3>4. before[m + i] = log[k + i]  BY <1>12, <3>2
    <3>5. ~(log[k + i] + 1 >= window)  BY <1>14, <3>1
    <3>6. aged[k + i] = log[k + i] + 1  BY <1>2, <1>3, <3>1, <3>5
    <3> QED  BY <3>3, <3>4, <3>6
  <2>3. after = [i \in DOMAIN after |-> after[i]]  BY <1>13
  <2> QED  BY <1>17, <2>1, <2>2, <2>3
<1> QED  BY <1>6, <1>7, <1>16, <1>18, <1>19 DEF aged, before, after

\* Whole seconds, and one more, are no less than the time they were cut from.
LEMMA WholeSeconds ==
    ASSUME NEW time \in Nat, NEW second \in Nat \ {0}
    PROVE  (time \div second + 1) * second - 1 \in Nat /\ time <= (time \div second + 1) * second - 1
<1>1. time < (time \div second + 1) * second  OBVIOUS
<1>2. time \div second \in Int  OBVIOUS
<1>3. (time \div second + 1) * second \in Int  BY <1>2
<1> QED  BY <1>1, <1>3

\* By the time the oldest counting request is a window old there is room again.
LEMMA WaitedOut ==
    ASSUME NEW max \in Int, NEW window \in Nat \ {0}, NEW log \in Logs(max, window), Sorted(log),
           ~Allows(log, max, window),
           NEW wait \in Nat, window - Pruned(log, window)[1] <= wait
    PROVE  Allows([i \in DOMAIN log |-> log[i] + wait], max, window)
<1> DEFINE later == [i \in DOMAIN log |-> log[i] + wait]
           pruned == Pruned(log, window)
<1>1. /\ log \in Seq(Nat) /\ Len(log) \in Nat
      /\ DOMAIN log = 1..Len(log) /\ (Len(log) = 0 \/ Len(log) <= max)
  BY LogIsSeq
<1>2. \A i \in 1..Len(log) : log[i] \in Nat  BY <1>1, LenProperties
<1>3. PICK n \in 0..Len(log) : CutAt(log, window, n)  BY <1>1, CutExists
<1>4. /\ Len(pruned) = Len(log) - n
      /\ \A i \in 1..(Len(log) - n) : pruned[i] = log[n + i]
  <2>1. window \in Nat /\ log \in Seq(Nat)  BY <1>1
  <2> QED  BY <1>3, <2>1, PrunedIsSuffix
<1>5. max > 0 /\ Len(pruned) >= max  BY <1>1, <1>4 DEF Allows
<1> HIDE DEF pruned
<1>6. n \in Nat /\ n + 1 <= Len(log) /\ n + 1 \in 1..Len(log) /\ 1 \in 1..(Len(log) - n)
  BY <1>1, <1>4, <1>5
<1>7. pruned[1] = log[n + 1]  BY <1>4, <1>6
<1>8. DOMAIN later = 1..Len(log) /\ \A i \in 1..Len(log) : later[i] = log[i] + wait  BY <1>1
<1>9. later \in [1..Len(log) -> Nat]  BY <1>1, <1>2
<1> HIDE DEF later
<1>10. later \in Seq(Nat) /\ Len(later) = Len(log)  BY <1>1, <1>9, IsASeq
<1>11. Sorted(later)
  <2> SUFFICES ASSUME NEW i \in DOMAIN later, NEW j \in DOMAIN later, i <= j
               PROVE  later[i] >= later[j]
    BY DEF Sorted
  <2>1. log[i] \in Nat /\ log[j] \in Nat /\ log[i] >= log[j]  BY <1>1, <1>2, <1>8 DEF Sorted
  <2> QED  BY <1>8, <2>1
<1>12. PICK k \in 0..Len(later) : CutAt(later, window, k)  BY <1>10, <1>11, CutExists
<1>13. Len(Pruned(later, window)) = Len(later) - k  BY <1>10, <1>12, PrunedIsSuffix
<1>14. later[n + 1] >= window
  <2>1. log[n + 1] \in Nat /\ window - log[n + 1] <= wait  BY <1>2, <1>6, <1>7 DEF pruned
  <2> QED  BY <1>6, <1>8, <2>1
<1>15. n + 1 <= k  BY <1>6, <1>10, <1>12, <1>14 DEF CutAt
<1>16. Len(Pruned(later, window)) < max
  <2>1. k \in Nat  BY <1>1, <1>10
  <2>2. \A l \in Nat : l <= max => l - k < max  BY <1>6, <1>15, <2>1
  <2>3. Len(log) <= max  BY <1>1, <1>6
  <2> QED  BY <1>1, <1>10, <1>13, <2>2, <2>3
<1> QED  BY <1>16 DEF Allows, later

-----------------------------------------------------------------------------
Limits == {TicksOf(f.limit) : f \in Loadable}

\* The limiter's logs are sorted and within its limits, for every caller.
LimiterInv ==
    /\ limiter \in Limits
    /\ logs \in [Uids -> {log \in Logs(limiter.max, limiter.window) : Sorted(log)}]

\* An authentication is remembered for an agent the key matches.
CacheInv ==
    /\ DOMAIN cache = Keys
    /\ \A k \in Keys : \/ cache[k] = NoEntry
                       \/ registry # None /\ cache[k] \in [left : 1..CacheTTL, agent : Matching(k)]

\* What startMCPListener registers.
Registered(cfg) ==
    [a \in {b \in DOMAIN cfg.agents : cfg.agents[b].key # NoKey} |->
        [key |-> cfg.agents[a].key, roles |-> AllRoles(cfg), perms |-> resolveAgent(cfg, a)]]

\* The registry is that of the policy MCP was started with, whatever is loaded since.
RegistryInv == registry # None => served \in Loadable /\ registry = Registered(served)

\* The parts of the type invariant that need nothing else.
PlainInv ==
    /\ disk \in Files \cup {NoFile} /\ policy \in Loadable
    /\ DOMAIN hosts \subseteq HostNames /\ DOMAIN hostFile \subseteq HostNames
    /\ reload \in {"idle", "reconcile"} /\ served \in Loadable \cup {None} /\ events \in 0..MaxEvents

Inv == PlainInv /\ LimiterInv /\ CacheInv /\ RegistryInv

\* The limits of a file that loads are numbers and its window is positive.
LEMMA LimitsAreNumbers ==
    ASSUME NEW l \in Limits
    PROVE  l.max \in Int /\ l.window \in Nat \ {0}
<1>1. PICK g \in Files : Readable(g) /\ l = TicksOf(applyDefaults(g).limit)  BY DEF Limits, Loadable
<1>2. g \in (Files \cup Candidates) \ {NoFile}  BY <1>1 DEF Readable
<1>3. /\ "limit" \in DOMAIN g /\ g.limit.max \in Int /\ g.limit.window \in Int
      /\ Defaults.limit.max \in Int /\ Defaults.limit.window \in Nat \ {0} /\ PerSecond \in Nat \ {0}
  BY <1>2, GateAssumption
<1>4. applyDefaults(g).limit = [max |-> Or(g.limit.max, Defaults.limit.max),
                                window |-> Or(g.limit.window, Defaults.limit.window)]
  BY <1>3 DEF applyDefaults
<1> DEFINE limit == applyDefaults(g).limit
           window == IF limit.window <= 0 THEN Defaults.limit.window ELSE limit.window
<1>5. limit.max \in Int /\ limit.window \in Int  BY <1>3, <1>4 DEF Or
<1> HIDE DEF limit
<1>6. window \in Nat \ {0}  BY <1>3, <1>5
<1>7. l.max = limit.max /\ l.window = PerSecond * window  BY <1>1 DEF TicksOf, limit
<1> HIDE DEF window
<1>8. PerSecond * window \in Nat \ {0}  BY <1>3, <1>6
<1> QED  BY <1>5, <1>7, <1>8

LEMMA InvInit == Init => Inv
<1> SUFFICES ASSUME Init PROVE Inv  OBVIOUS
<1>1. policy \in Loadable  BY DEF Init, Loadable
<1>2. PlainInv
  <2>1. DOMAIN policy.targets \subseteq HostNames  BY <1>1 DEF HostNames
  <2>2. DOMAIN hosts \subseteq HostNames  BY <2>1 DEF Init, Reconciled
  <2>3. DOMAIN hostFile \subseteq HostNames  BY <2>2 DEF Init
  <2>4. events \in 0..MaxEvents  BY GateAssumption DEF Init
  <2> QED  BY <1>1, <2>2, <2>3, <2>4 DEF Init, PlainInv
<1>3. LimiterInv
  <2>1. limiter \in Limits  BY <1>1 DEF Init, Limits
  <2>2. << >> \in {log \in Logs(limiter.max, limiter.window) : Sorted(log)}
    BY <2>1, LimitsAreNumbers, EmptyLog
  <2> QED  BY <2>1, <2>2 DEF Init, LimiterInv
<1>4. CacheInv  BY DEF Init, CacheInv
<1>5. RegistryInv  BY DEF Init, RegistryInv
<1> QED  BY <1>2, <1>3, <1>4, <1>5 DEF Inv

-----------------------------------------------------------------------------
\* Which actions touch the limiter, the keys and the hosts.
LEMMA LimiterSteps ==
    ASSUME [Next]_vars
    PROVE  UNCHANGED limitVars \/ Restart \/ Tick \/ \E u \in Uids : Request(u)
BY DEF Next, vars, limitVars, ReloadPolicy, Reconcile, StartMCP, EditPolicy, DeleteConfig, UpdateConfig, Authenticate

LEMMA KeySteps ==
    ASSUME [Next]_vars
    PROVE  \/ UNCHANGED authVars
           \/ Restart \/ Tick \/ StartMCP \/ \E k \in Keys : Authenticate(k)
BY DEF Next, vars, authVars, Reconcile, EditPolicy, DeleteConfig, UpdateConfig, Request, ReloadPolicy

LEMMA HostSteps ==
    ASSUME [Next]_vars
    PROVE  \/ UNCHANGED hostVars
           \/ Reconcile \/ Restart \/ \E t \in HostNames : DeleteConfig(t) \/ \E update \in Updates : UpdateConfig(t, update)
BY DEF Next, vars, hostVars, ReloadPolicy, StartMCP, EditPolicy, Authenticate, Request, Tick

LEMMA RestartLoads ==
    ASSUME Inv, Restart
    PROVE  policy' \in Loadable /\ policy' = applyDefaults(disk)
<1>1. disk \in Files /\ Readable(disk)  BY DEF Restart, Readable, Inv, PlainInv
<1> QED  BY <1>1 DEF Restart, Started, Loadable

LEMMA LimiterStep ==
    ASSUME Inv, [Next]_vars
    PROVE  LimiterInv'
<1>1. limiter.max \in Int /\ limiter.window \in Nat \ {0} /\ limiter.window \in Nat
  BY LimitsAreNumbers DEF Inv, LimiterInv
<1>2. \A u \in Uids : logs[u] \in Logs(limiter.max, limiter.window) /\ Sorted(logs[u])
  BY DEF Inv, LimiterInv
<1>3. CASE UNCHANGED limitVars  BY <1>3 DEF limitVars, Inv, LimiterInv
<1>4. CASE Restart
  <2>1. limiter' \in Limits
    BY <1>4, RestartLoads DEF Restart, Started, Limits
  <2>2. limiter'.max \in Int /\ limiter'.window \in Nat  BY <2>1, LimitsAreNumbers
  <2>3. << >> \in {log \in Logs(limiter'.max, limiter'.window) : Sorted(log)}  BY <2>2, EmptyLog
  <2>4. logs' = [u \in Uids |-> << >>]  BY <1>4 DEF Restart, Started
  <2>5. logs' \in [Uids -> {log \in Logs(limiter'.max, limiter'.window) : Sorted(log)}]
    BY <2>3, <2>4
  <2> QED  BY <2>1, <2>5 DEF LimiterInv, Limits
<1>5. CASE Tick
  <2>1. limiter' = limiter /\ logs' = [u \in Uids |-> AgedLog(logs[u], limiter.window)]
    BY <1>5 DEF Tick
  <2>2. \A u \in Uids : AgedLog(logs[u], limiter.window) \in {log \in Logs(limiter.max, limiter.window) : Sorted(log)}
    BY <1>1, <1>2, AgedLogs
  <2> QED  BY <2>1, <2>2 DEF Inv, LimiterInv
<1>6. ASSUME NEW u \in Uids, Request(u)  PROVE LimiterInv'
  <2> DEFINE log == Logged(logs[u], limiter.max, limiter.window)
  <2>1. limiter' = limiter /\ logs' = [logs EXCEPT ![u] = log]  BY <1>6 DEF Request
  <2>2. log \in Logs(limiter.max, limiter.window) /\ Sorted(log)
    BY <1>1, <1>2, LoggedLog
  <2> HIDE DEF log
  <2> QED  BY <2>1, <2>2 DEF Inv, LimiterInv
<1> QED  BY <1>3, <1>4, <1>5, <1>6, LimiterSteps

LEMMA CacheStep ==
    ASSUME Inv, [Next]_vars
    PROVE  CacheInv'
<1>1. CASE UNCHANGED authVars  BY <1>1 DEF authVars, Inv, CacheInv, Matching
<1>2. CASE Restart  BY <1>2 DEF Restart, Started, CacheInv
<1>3. CASE StartMCP  BY <1>3 DEF StartMCP, CacheInv
<1>4. CASE Tick
  <2>1. /\ registry' = registry
        /\ cache' = [k \in Keys |-> IF cache[k].left <= 1 THEN NoEntry ELSE [cache[k] EXCEPT !.left = @ - 1]]
    BY <1>4 DEF Tick
  <2>2. ASSUME NEW k \in Keys
        PROVE  \/ cache'[k] = NoEntry
               \/ registry # None /\ cache'[k] \in [left : 1..CacheTTL, agent : Matching(k)]
    <3>1. CASE cache[k].left <= 1  BY <2>1, <3>1
    <3>2. CASE ~(cache[k].left <= 1)
      <4>1. cache'[k] = [cache[k] EXCEPT !.left = @ - 1]  BY <2>1, <3>2
      <4>2. cache[k] # NoEntry  BY <3>2 DEF NoEntry
      <4>3. registry # None /\ cache[k] \in [left : 1..CacheTTL, agent : Matching(k)]
        BY <4>2 DEF Inv, CacheInv
      <4>4. cache[k].left - 1 \in 1..CacheTTL  BY <3>2, <4>3, GateAssumption
      <4> QED  BY <4>1, <4>3, <4>4
    <3> QED  BY <3>1, <3>2
  <2>3. DOMAIN cache' = Keys  BY <2>1
  <2> QED  BY <2>1, <2>2, <2>3 DEF CacheInv, Matching
<1>5. ASSUME NEW k \in Keys, Authenticate(k)  PROVE CacheInv'
  <2>1. PICK a \in Matching(k) :
          cache' = [cache EXCEPT ![k] = IF CacheTTL = 0 THEN NoEntry ELSE [left |-> CacheTTL, agent |-> a]]
    BY <1>5 DEF Authenticate
  <2>2. registry' = registry /\ registry # None  BY <1>5 DEF Authenticate
  <2> DEFINE entry == IF CacheTTL = 0 THEN NoEntry ELSE [left |-> CacheTTL, agent |-> a]
  <2>3. entry = NoEntry \/ entry \in [left : 1..CacheTTL, agent : Matching(k)]
    BY GateAssumption
  <2> HIDE DEF entry
  <2>4. cache' = [cache EXCEPT ![k] = entry]  BY <2>1 DEF entry
  <2>5. \A l \in Keys : cache'[l] = IF l = k THEN entry ELSE cache[l]  BY <2>4 DEF Inv, CacheInv
  <2>6. DOMAIN cache' = Keys  BY <2>4 DEF Inv, CacheInv
  <2> QED  BY <2>2, <2>3, <2>5, <2>6 DEF Inv, CacheInv, Matching
<1> QED  BY <1>1, <1>2, <1>3, <1>4, <1>5, KeySteps

LEMMA RegistryStep ==
    ASSUME Inv, [Next]_vars
    PROVE  RegistryInv'
<1>1. CASE UNCHANGED <<registry, served>>
  BY <1>1 DEF Inv, RegistryInv, Loadable, Readable, Registered
<1>2. CASE Restart  BY <1>2 DEF Restart, Started, RegistryInv
<1>3. CASE StartMCP
  <2>1. registry' = Registered(policy) /\ served' = policy  BY <1>3 DEF StartMCP, Registered
  <2>2. policy \in Loadable  BY DEF Inv, PlainInv
  <2> QED  BY <2>1, <2>2 DEF RegistryInv, Registered, Loadable, Readable
<1>4. CASE Tick  BY <1>1, <1>4 DEF Tick
<1>5. ASSUME NEW k \in Keys, Authenticate(k)  PROVE RegistryInv'
  BY <1>1, <1>5 DEF Authenticate
<1> QED  BY <1>1, <1>2, <1>3, <1>4, <1>5, KeySteps DEF authVars

\* A save leaves the table on disk as it was or makes it the new one.
LEMMA SavedHosts ==
    ASSUME NEW table, NEW names, DOMAIN table \subseteq names, DOMAIN hostFile \subseteq names,
           SaveTable(table)
    PROVE  DOMAIN hosts' \subseteq names /\ DOMAIN hostFile' \subseteq names
BY DEF SaveTable

LEMMA ReconciledHosts ==
    ASSUME NEW table, NEW cfg \in Loadable, DOMAIN table \subseteq HostNames,
           DOMAIN hostFile \subseteq HostNames, InitFromPolicy(table, cfg)
    PROVE  DOMAIN hosts' \subseteq HostNames /\ DOMAIN hostFile' \subseteq HostNames
<1>1. DOMAIN cfg.targets \subseteq HostNames  BY DEF HostNames
<1>2. DOMAIN Reconciled(table, cfg) \subseteq HostNames  BY <1>1 DEF Reconciled
<1>3. CASE Reconciled(table, cfg) = table  BY <1>3 DEF InitFromPolicy
<1>4. CASE Reconciled(table, cfg) # table
  <2>1. SaveTable(Reconciled(table, cfg))  BY <1>4 DEF InitFromPolicy
  <2> QED  BY <1>2, <2>1, SavedHosts
<1> QED  BY <1>3, <1>4

LEMMA HostStep ==
    ASSUME Inv, [Next]_vars
    PROVE  DOMAIN hosts' \subseteq HostNames /\ DOMAIN hostFile' \subseteq HostNames
<1>1. DOMAIN hosts \subseteq HostNames /\ DOMAIN hostFile \subseteq HostNames /\ policy \in Loadable
  BY DEF Inv, PlainInv
<1>2. CASE UNCHANGED hostVars  BY <1>1, <1>2 DEF hostVars
<1>3. CASE Reconcile
  <2>1. InitFromPolicy(hosts, policy)  BY <1>3 DEF Reconcile
  <2> QED  BY <1>1, <2>1, ReconciledHosts
<1>4. CASE Restart
  <2>1. InitFromPolicy(hostFile, applyDefaults(disk))  BY <1>4 DEF Restart, Started
  <2>2. applyDefaults(disk) \in Loadable  BY <1>4, RestartLoads
  <2> QED  BY <1>1, <2>1, <2>2, ReconciledHosts
<1>5. ASSUME NEW t \in HostNames, DeleteConfig(t)
      PROVE  DOMAIN hosts' \subseteq HostNames /\ DOMAIN hostFile' \subseteq HostNames
  <2> DEFINE table == [u \in DOMAIN hosts \ {t} |-> hosts[u]]
  <2>1. SaveTable(table)  BY <1>5 DEF DeleteConfig
  <2>2. DOMAIN table \subseteq HostNames  BY <1>1
  <2> HIDE DEF table
  <2> QED  BY <1>1, <2>1, <2>2, SavedHosts
<1>6. ASSUME NEW t \in HostNames, NEW update \in Updates, UpdateConfig(t, update)
      PROVE  DOMAIN hosts' \subseteq HostNames /\ DOMAIN hostFile' \subseteq HostNames
  <2> DEFINE table == [u \in DOMAIN hosts \cup {t} |->
                         IF u # t THEN hosts[u]
                         ELSE IF t \in DOMAIN hosts THEN Merged(update, hosts[t]) ELSE update]
  <2>1. SaveTable(table)  BY <1>6 DEF UpdateConfig
  <2>2. DOMAIN table \subseteq HostNames  BY <1>1
  <2> HIDE DEF table
  <2> QED  BY <1>1, <2>1, <2>2, SavedHosts
<1> QED  BY <1>2, <1>3, <1>4, <1>5, <1>6, HostSteps

LEMMA PlainStep ==
    ASSUME Inv, [Next]_vars
    PROVE  PlainInv'
<1>1. DOMAIN hosts' \subseteq HostNames /\ DOMAIN hostFile' \subseteq HostNames  BY HostStep
<1>2. disk \in Files \cup {NoFile} /\ policy \in Loadable /\ reload \in {"idle", "reconcile"}
  BY DEF Inv, PlainInv
<1>3. served \in Loadable \cup {None} /\ events \in 0..MaxEvents  BY DEF Inv, PlainInv
<1>4. disk' \in Files \cup {NoFile}
  BY <1>2 DEF Next, vars, policyVars, ReloadPolicy, Reconcile, Restart, StartMCP, Tick, EditPolicy,
              DeleteConfig, UpdateConfig, Authenticate, Request
<1>5. policy' \in Loadable
  <2>1. CASE ReloadPolicy
    <3>1. disk \in Files /\ Readable(disk)  BY <1>2, <2>1 DEF ReloadPolicy, Readable
    <3> QED  BY <2>1, <3>1 DEF ReloadPolicy, Loadable
  <2>2. CASE Restart  BY <2>2, RestartLoads
  <2>3. CASE UNCHANGED policy  BY <1>2, <2>3
  <2> QED  BY <2>1, <2>2, <2>3 DEF Next, vars, policyVars, Reconcile, StartMCP, Tick, EditPolicy,
              DeleteConfig, UpdateConfig, Authenticate, Request
<1>6. reload' \in {"idle", "reconcile"}
  BY <1>2 DEF Next, vars, policyVars, ReloadPolicy, Reconcile, Restart, Started, StartMCP, Tick, EditPolicy,
              DeleteConfig, UpdateConfig, Authenticate, Request
<1>7. served' \in Loadable \cup {None}
  <2>1. CASE UNCHANGED served  BY <1>3, <2>1
  <2>2. CASE Restart  BY <2>2 DEF Restart, Started
  <2>3. CASE StartMCP  BY <1>2, <2>3 DEF StartMCP
  <2> QED  BY <2>1, <2>2, <2>3 DEF Next, vars, authVars, ReloadPolicy, Reconcile, Tick, EditPolicy,
              DeleteConfig, UpdateConfig, Authenticate, Request
<1>8. events' \in 0..MaxEvents
  <2>1. events' = events \/ (events < MaxEvents /\ events' = events + 1)
    BY DEF Next, vars, Event, ReloadPolicy, Reconcile, Restart, StartMCP, Tick, EditPolicy,
           DeleteConfig, UpdateConfig, Authenticate, Request
  <2> QED  BY <1>3, <2>1, GateAssumption
<1> QED  BY <1>1, <1>4, <1>5, <1>6, <1>7, <1>8 DEF PlainInv, HostNames, Loadable, Readable

LEMMA Invariant == Spec => []Inv
<1>1. Inv /\ [Next]_vars => Inv'  BY PlainStep, LimiterStep, CacheStep, RegistryStep DEF Inv
<1> QED  BY InvInit, <1>1, PTL DEF Spec

LEMMA InvType == Inv => TypeOK
<1> SUFFICES ASSUME Inv PROVE TypeOK  OBVIOUS
<1>1. \A u \in Uids : logs[u] \in Logs(limiter.max, limiter.window)  BY DEF Inv, LimiterInv
<1>2. \A k \in Keys : cache[k] = NoEntry \/ cache[k].left \in 1..CacheTTL  BY DEF Inv, CacheInv
<1> QED  BY <1>1, <1>2 DEF Inv, PlainInv, TypeOK

\* The broker only ever runs with a policy the loader accepts, its limiter with logs no
\* longer than the limit and its key cache with entries no older than their lifetime.
THEOREM TypeCorrect == Spec => []TypeOK
BY Invariant, InvType, PTL

-----------------------------------------------------------------------------
\* A policy the loader takes has no error but, maybe, a port out of range or a bad hash.
LEMMA ValidHasNoErrors ==
    ASSUME NEW cfg, validate(cfg),
           cfg.defaultTTL \in Int, cfg.maxTTL \in Int, \A t \in DOMAIN cfg.targets : cfg.targets[t].ttl \in Int
    PROVE  ValidatePolicy(cfg) \subseteq OnlyCommandLine /\ ~OnlyLoader(cfg)
<1>1. validateGlobal(cfg) = {}
  <2>1. ~(cfg.defaultTTL > cfg.maxTTL)  BY DEF validate
  <2> QED  BY <2>1 DEF validateGlobal
<1>2. validateRoles(cfg) = {}  BY DEF validate, RolesOK, validateRoles
<1>3. validateAgents(cfg) \subseteq {"E12"}
  <2>1. DOMAIN cfg.agents # {}  BY DEF validate, AgentsOK
  <2>2. ~ \E a \in DOMAIN cfg.agents : \E name \in ToSet(cfg.agents[a].inherits) : name \notin DOMAIN cfg.templates
    BY DEF validate, TemplatesOK
  <2>3. Distinct(DOMAIN cfg.agents, LAMBDA a : cfg.agents[a].uid)  BY DEF validate, AgentsOK, Distinct
  <2> QED  BY <2>1, <2>2, <2>3 DEF validateAgents, Distinct
<1>4. validateTargets(cfg) \subseteq {"E9"}
  <2>1. Hosted(cfg) = DOMAIN cfg.targets  BY DEF validate, TargetsOK, Hosted
  <2>2. ASSUME NEW t \in DOMAIN cfg.targets
        PROVE  /\ cfg.targets[t].roles \subseteq DOMAIN cfg.roles
               /\ ~(cfg.targets[t].ttl > cfg.maxTTL)
               /\ cfg.targets[t].hostkey # "badprint" /\ (cfg.strict => cfg.targets[t].hostkey # "none")
    <3>1. cfg.targets[t].ttl \in Int /\ cfg.targets[t].ttl <= cfg.maxTTL  BY DEF validate, TargetsOK
    <3>2. ~(cfg.targets[t].ttl > cfg.maxTTL)  BY <3>1
    <3>3. cfg.targets[t].roles \subseteq DOMAIN cfg.roles  BY DEF validate, TargetsOK
    <3>4. cfg.targets[t].hostkey # "badprint" /\ (cfg.strict => cfg.targets[t].hostkey # "none")
      BY DEF validate, HostKeysOK
    <3> QED  BY <3>2, <3>3, <3>4
  <2>3. \A e \in validateTargets(cfg) :
          e = "E9" \/ \E t \in DOMAIN cfg.targets :
                         \/ ~(cfg.targets[t].roles \subseteq DOMAIN cfg.roles)
                         \/ cfg.targets[t].ttl > cfg.maxTTL
                         \/ cfg.targets[t].hostkey = "badprint"
                         \/ cfg.strict /\ cfg.targets[t].hostkey = "none"
    <3> TAKE e \in validateTargets(cfg)
    <3>1. \/ e = "E5" /\ Hosted(cfg) # DOMAIN cfg.targets
          \/ \E t \in Hosted(cfg) :
                \/ e = "E9" /\ cfg.targets[t].port \notin 0..MaxPort
                \/ e = "E3" /\ ~(cfg.targets[t].roles \subseteq DOMAIN cfg.roles)
                \/ e = "E8" /\ cfg.targets[t].ttl > cfg.maxTTL
                \/ e = "E10" /\ cfg.strict /\ cfg.targets[t].hostkey = "none"
                \/ e = "E11" /\ cfg.targets[t].hostkey = "badprint"
      BY Zenon DEF validateTargets
    <3>2. CASE e = "E9"  BY <3>2
    <3>3. CASE e # "E9"  BY <2>1, <3>1, <3>3, Zenon
    <3> QED  BY <3>2, <3>3
  <2> QED  BY <2>2, <2>3
<1>5. ~OnlyLoader(cfg)
  <2>1. Distinct(DOMAIN cfg.targets, LAMBDA t : <<cfg.targets[t].host, cfg.targets[t].port>>)
    BY DEF validate, TargetsOK, Distinct
  <2>2. \A r \in DOMAIN cfg.roles : cfg.roles[r] # "malformed"  BY DEF validate, RolesOK
  <2>3. \A t \in DOMAIN cfg.targets : cfg.targets[t].hostkey \notin {"badkey", "mismatch"}
    BY DEF validate, HostKeysOK
  <2> QED  BY <2>1, <2>2, <2>3 DEF OnlyLoader, Distinct
<1> QED  BY <1>1, <1>2, <1>3, <1>4, <1>5 DEF ValidatePolicy, OnlyCommandLine

\* A policy with none of the errors, and with nothing wrong that only the loader looks at,
\* is one the loader takes.
LEMMA NoErrorsIsValid ==
    ASSUME NEW cfg, ValidatePolicy(cfg) \subseteq OnlyCommandLine, ~OnlyLoader(cfg),
           cfg.defaultTTL \in Int, cfg.maxTTL \in Int, \A t \in DOMAIN cfg.targets : cfg.targets[t].ttl \in Int,
           \A r \in DOMAIN cfg.roles : cfg.roles[r] \in {"ok", "empty", "malformed"}
    PROVE  validate(cfg)
<1>1. \A e \in {"E1", "E2", "E3", "E4", "E5", "E7", "E8", "E10", "E11", "E13"} :
         /\ e \in Errors
         /\ e \notin validateGlobal(cfg) /\ e \notin validateRoles(cfg)
         /\ e \notin validateTargets(cfg) /\ e \notin validateAgents(cfg)
  BY DEF ValidatePolicy, OnlyCommandLine, Errors
<1>2. cfg.defaultTTL <= cfg.maxTTL
  <2>1. ~(cfg.defaultTTL > cfg.maxTTL)  BY <1>1 DEF validateGlobal
  <2> QED  BY <2>1
<1>3. AgentsOK(cfg)
  <2>1. DOMAIN cfg.agents # {}  BY <1>1 DEF validateAgents
  <2>2. Distinct(DOMAIN cfg.agents, LAMBDA a : cfg.agents[a].uid)  BY <1>1 DEF validateAgents, Distinct
  <2> QED  BY <2>1, <2>2 DEF AgentsOK, Distinct
<1>4. TemplatesOK(cfg)
  <2>1. ~ \E a \in DOMAIN cfg.agents : \E name \in ToSet(cfg.agents[a].inherits) : name \notin DOMAIN cfg.templates
    BY <1>1 DEF validateAgents
  <2> QED  BY <2>1 DEF TemplatesOK
<1>5. RolesOK(cfg)
  <2>1. \A r \in DOMAIN cfg.roles : cfg.roles[r] # "empty"  BY <1>1 DEF validateRoles
  <2>2. \A r \in DOMAIN cfg.roles : cfg.roles[r] # "malformed"  BY DEF OnlyLoader
  <2> QED  BY <2>1, <2>2 DEF RolesOK
<1>6. Hosted(cfg) = DOMAIN cfg.targets  BY <1>1, Zenon DEF validateTargets
<1>7. ASSUME NEW t \in DOMAIN cfg.targets
      PROVE  /\ cfg.targets[t].host # NoHost
             /\ cfg.targets[t].roles \subseteq DOMAIN cfg.roles
             /\ cfg.targets[t].ttl <= cfg.maxTTL
             /\ cfg.targets[t].hostkey # "badprint" /\ (cfg.strict => cfg.targets[t].hostkey # "none")
  <2>1. t \in Hosted(cfg)  BY <1>6
  <2>2. cfg.targets[t].host # NoHost  BY <2>1 DEF Hosted
  <2>3. cfg.targets[t].roles \subseteq DOMAIN cfg.roles  BY <1>1, <2>1, Zenon DEF validateTargets
  <2>4. ~(cfg.targets[t].ttl > cfg.maxTTL)  BY <1>1, <2>1, Zenon DEF validateTargets
  <2>5. cfg.targets[t].hostkey # "badprint"  BY <1>1, <2>1, Zenon DEF validateTargets
  <2>6. cfg.strict => cfg.targets[t].hostkey # "none"  BY <1>1, <2>1, Zenon DEF validateTargets
  <2>7. cfg.targets[t].ttl \in Int  OBVIOUS
  <2>8. cfg.targets[t].ttl <= cfg.maxTTL  BY <2>4, <2>7
  <2> QED  BY <2>2, <2>3, <2>5, <2>6, <2>8
<1>8. TargetsOK(cfg)
  <2>1. Distinct(DOMAIN cfg.targets, LAMBDA t : <<cfg.targets[t].host, cfg.targets[t].port>>)
    BY DEF OnlyLoader, Distinct
  <2> QED  BY <1>7, <2>1 DEF TargetsOK, Distinct
<1>9. HostKeysOK(cfg)
  <2>1. \A t \in DOMAIN cfg.targets : cfg.targets[t].hostkey \notin {"badkey", "mismatch"}  BY DEF OnlyLoader
  <2> QED  BY <1>7, <2>1 DEF HostKeysOK
<1> QED  BY <1>2, <1>3, <1>4, <1>5, <1>8, <1>9 DEF validate

\* What the defaults leave of a file that parses.
LEMMA DefaultsKeepTypes ==
    ASSUME NEW f \in (Files \cup Candidates) \ {NoFile}
    PROVE  LET cfg == applyDefaults(f)
           IN  /\ cfg.maxTTL \in Int /\ cfg.defaultTTL \in Int
               /\ \A t \in DOMAIN cfg.targets : cfg.targets[t].ttl \in Int
               /\ cfg.agents = f.agents
               /\ \A r \in DOMAIN cfg.roles : cfg.roles[r] \in {"ok", "empty", "malformed"}
<1> DEFINE cfg == applyDefaults(f)
<1>1. /\ {"maxTTL", "defaultTTL", "limit", "roles", "targets", "agents"} \subseteq DOMAIN f
      /\ f.maxTTL \in Int /\ f.defaultTTL \in Int /\ Defaults.maxTTL \in Int /\ Defaults.defaultTTL \in Int
      /\ \A t \in DOMAIN f.targets : "ttl" \in DOMAIN f.targets[t] /\ f.targets[t].ttl \in Int
      /\ \A r \in DOMAIN f.roles : f.roles[r] \in {"ok", "empty", "malformed"}
  BY GateAssumption
<1>2. /\ cfg.maxTTL = Or(f.maxTTL, Defaults.maxTTL) /\ cfg.defaultTTL = Or(f.defaultTTL, Defaults.defaultTTL)
      /\ cfg.targets = [t \in DOMAIN f.targets |-> WithPort(f.targets[t])]
      /\ cfg.agents = f.agents /\ cfg.roles = f.roles
  <2>1. cfg.maxTTL = Or(f.maxTTL, Defaults.maxTTL)  BY <1>1 DEF applyDefaults
  <2>2. cfg.defaultTTL = Or(f.defaultTTL, Defaults.defaultTTL)  BY <1>1 DEF applyDefaults
  <2>3. cfg.agents = f.agents /\ cfg.roles = f.roles  BY <1>1 DEF applyDefaults
  <2>4. cfg.targets = [t \in DOMAIN f.targets |-> WithPort(f.targets[t])]
    BY <1>1 DEF applyDefaults
  <2> QED  BY <2>1, <2>2, <2>3, <2>4
<1> HIDE DEF cfg
<1>3. cfg.maxTTL \in Int /\ cfg.defaultTTL \in Int  BY <1>1, <1>2 DEF Or
<1>4. \A t \in DOMAIN cfg.targets : cfg.targets[t].ttl \in Int
  <2> TAKE t \in DOMAIN cfg.targets
  <2>1. t \in DOMAIN f.targets  BY <1>2
  <2>2. cfg.targets[t] = WithPort(f.targets[t])  BY <1>2, <2>1
  <2>3. cfg.targets[t].ttl = f.targets[t].ttl  BY <1>1, <2>1, <2>2 DEF WithPort
  <2> QED  BY <1>1, <2>1, <2>3
<1> QED  BY <1>1, <1>2, <1>3, <1>4 DEF cfg

\* Every policy file: the loader takes it exactly if the command-line check finds no error
\* but a port out of range or a bad key hash, which the loader does not look at, and none
\* of the faults is in it that only the loader looks for.
THEOREM CheckersAgreeElsewhere == Spec => []CheckersAgree
<1>1. Disputed = {}
  <2> SUFFICES ASSUME NEW f \in (Files \cup Candidates) \ {NoFile}
               PROVE  validate(applyDefaults(f)) <=>
                        /\ ValidatePolicy(applyDefaults(f)) \subseteq OnlyCommandLine
                        /\ ~OnlyLoader(applyDefaults(f))
    BY Zenon DEF Disputed
  <2> DEFINE cfg == applyDefaults(f)
  <2>1. /\ cfg.maxTTL \in Int /\ cfg.defaultTTL \in Int
        /\ \A t \in DOMAIN cfg.targets : cfg.targets[t].ttl \in Int
        /\ \A r \in DOMAIN cfg.roles : cfg.roles[r] \in {"ok", "empty", "malformed"}
    BY DefaultsKeepTypes
  <2> HIDE DEF cfg
  <2>2. validate(cfg) => ValidatePolicy(cfg) \subseteq OnlyCommandLine /\ ~OnlyLoader(cfg)
    BY <2>1, ValidHasNoErrors
  <2>3. ValidatePolicy(cfg) \subseteq OnlyCommandLine /\ ~OnlyLoader(cfg) => validate(cfg)
    BY <2>1, NoErrorsIsValid
  <2> QED  BY <2>2, <2>3 DEF cfg
<1>2. CheckersAgree  BY <1>1 DEF CheckersAgree
<1> QED  BY <1>2, PTL

\* A reload leaves the login of every host as it was and removes none.
THEOREM ReloadKeepsLogins == Spec => LoginsSurvive
<1> DEFINE Kept == events' = events =>
                     \A t \in DOMAIN hosts : t \in DOMAIN hosts' /\ hosts'[t].login = hosts[t].login
<1>1. ASSUME Inv, [Next]_vars  PROVE Kept
  <2>1. events \in Nat  BY <1>1, GateAssumption DEF Inv, PlainInv
  <2>2. CASE UNCHANGED hostVars  BY <2>2 DEF hostVars
  <2>3. CASE Reconcile
    <3>1. \A t \in DOMAIN hosts :
             /\ t \in DOMAIN Reconciled(hosts, policy)
             /\ Reconciled(hosts, policy)[t].login = hosts[t].login
      BY DEF Reconciled
    <3>2. hosts' = Reconciled(hosts, policy) \/ hosts' = hosts
      BY <2>3 DEF Reconcile, InitFromPolicy, SaveTable
    <3> QED  BY <3>1, <3>2
  <2>4. CASE Event
    <3>1. events' # events  BY <2>1, <2>4 DEF Event
    <3> QED  BY <3>1
  <2>5. Restart => Event  BY DEF Restart
  <2>6. \A t : (DeleteConfig(t) => Event) /\ \A update : UpdateConfig(t, update) => Event
    BY DEF DeleteConfig, UpdateConfig
  <2> QED  BY <1>1, <2>2, <2>3, <2>4, <2>5, <2>6, HostSteps
<1>2. Inv /\ [Next]_vars => [Kept]_vars  BY <1>1
<1> QED  BY Invariant, <1>2, PTL DEF Spec, LoginsSurvive

\* A refused caller that waits the announced seconds and the part of a second that was
\* cut off is admitted.
THEOREM WaitingSuffices == Spec => []RetrySuffices
<1>1. ASSUME Inv  PROVE RetrySuffices
  <2> SUFFICES ASSUME NEW u \in Uids, ~Allows(logs[u], limiter.max, limiter.window)
               PROVE  LET wait == (RetrySeconds(u) + 1) * PerSecond - 1
                      IN  Allows([i \in DOMAIN logs[u] |-> logs[u][i] + wait], limiter.max, limiter.window)
    BY DEF RetrySuffices
  <2> DEFINE log == logs[u]
             window == limiter.window
             oldest == Pruned(log, window)[1]
             time == RetryAfter(log, window, PerSecond)
             wait == (RetrySeconds(u) + 1) * PerSecond - 1
  <2>1. limiter.max \in Int /\ window \in Nat \ {0} /\ window \in Nat  BY <1>1, LimitsAreNumbers DEF Inv, LimiterInv
  <2>2. log \in Logs(limiter.max, window) /\ Sorted(log)  BY <1>1 DEF Inv, LimiterInv
  <2>3. PerSecond \in Nat \ {0}  BY GateAssumption
  <2>4. oldest \in Nat /\ oldest < window
    <3>1. /\ Pruned(log, window) \in Logs(limiter.max, window)
          /\ \A i \in 1..Len(Pruned(log, window)) : Pruned(log, window)[i] < window
      BY <2>1, <2>2, PrunedLog
    <3>2. Pruned(log, window) \in Seq(Nat) /\ Len(Pruned(log, window)) \in Nat  BY <2>1, <3>1, LogIsSeq
    <3>3. limiter.max > 0 /\ Len(Pruned(log, window)) >= limiter.max  BY <2>1, <3>2 DEF Allows
    <3>4. 1 \in 1..Len(Pruned(log, window))  BY <2>1, <3>2, <3>3
    <3> QED  BY <3>1, <3>2, <3>4, ElementOfSeq
  <2>5. time = IF window - oldest < PerSecond THEN PerSecond ELSE window - oldest  BY DEF RetryAfter
  <2> HIDE DEF oldest, time
  <2>6. time \in Nat /\ window - oldest <= time  BY <2>1, <2>3, <2>4, <2>5
  <2>7. wait = (time \div PerSecond + 1) * PerSecond - 1  BY DEF RetrySeconds, time
  <2> HIDE DEF wait
  <2>8. wait \in Nat /\ time <= wait  BY <2>3, <2>6, <2>7, WholeSeconds
  <2>9. window - oldest <= wait  BY <2>1, <2>4, <2>6, <2>8
  <2> QED  BY <2>1, <2>2, <2>8, <2>9, WaitedOut DEF oldest, wait
<1> QED  BY Invariant, <1>1, PTL

-----------------------------------------------------------------------------
\* The refinement mapping: the requests that count now.
Recent == [u \in Uids |-> Pruned(logs[u], limiter.window)]

LEMMA PromiseInit == Inv /\ Init => Promise!WInit
<1> SUFFICES ASSUME Inv, Init PROVE Promise!WInit  OBVIOUS
<1>1. limiter \in Limits  BY DEF Inv, LimiterInv
<1>2. limiter.window \in Nat  BY <1>1, LimitsAreNumbers
<1>3. \A u \in Uids : Pruned(logs[u], limiter.window) = << >>  BY <1>2, EmptyLog DEF Init
<1>4. answer = None  BY DEF Init
<1> QED  BY <1>1, <1>3, <1>4 DEF Promise!WInit, Promise!Fresh, Limits

\* Every step of the broker is a step of the abstract limiter or leaves it alone.
LEMMA PromiseStep ==
    ASSUME Inv, Inv', [Next]_vars
    PROVE  [Promise!WNext]_<<Recent, limiter, answer>>
<1>1. limiter.max \in Int /\ limiter.window \in Nat \ {0} /\ limiter.window \in Nat
  BY LimitsAreNumbers DEF Inv, LimiterInv
<1>2. \A u \in Uids : logs[u] \in Logs(limiter.max, limiter.window) /\ Sorted(logs[u])
  BY DEF Inv, LimiterInv
<1>3. CASE UNCHANGED limitVars  BY <1>3 DEF limitVars, Recent
<1>4. CASE Restart
  <2>1. limiter' \in Limits  BY DEF Inv, LimiterInv, Limits
  <2>2. limiter'.window \in Nat  BY <2>1, LimitsAreNumbers
  <2>3. \A u \in Uids : Pruned(logs'[u], limiter'.window) = << >>
    BY <1>4, <2>2, EmptyLog DEF Restart, Started
  <2>4. answer' = None  BY <1>4 DEF Restart, Started
  <2>5. Promise!WRestart  BY <2>1, <2>3, <2>4 DEF Promise!WRestart, Limits
  <2> QED  BY <2>5 DEF Promise!WNext
<1>5. CASE Tick
  <2>1. /\ limiter' = limiter /\ answer' = answer
        /\ logs' = [u \in Uids |-> AgedLog(logs[u], limiter.window)]
    BY <1>5 DEF Tick
  <2>2. \A u \in Uids : Pruned(logs'[u], limiter'.window) = Pruned(AgedLog(logs[u], limiter.window), limiter.window)
    BY <2>1
  <2>3. ASSUME NEW u \in Uids
        PROVE  Promise!Aged(Pruned(logs[u], limiter.window), Pruned(logs'[u], limiter'.window))
    <3> DEFINE before == Pruned(logs[u], limiter.window)
               after == Pruned(AgedLog(logs[u], limiter.window), limiter.window)
    <3>1. \E m \in 0..Len(before) :
             /\ \A i \in DOMAIN before : i <= m <=> before[i] + 1 >= limiter.window
             /\ after = [i \in 1..(Len(before) - m) |-> before[m + i] + 1]
      BY <1>1, <1>2, AgedLogs
    <3>2. Pruned(logs'[u], limiter'.window) = after  BY <2>2
    <3> HIDE DEF before, after
    <3>3. Promise!Aged(before, after)  BY <3>1 DEF Promise!Aged
    <3> QED  BY <3>2, <3>3 DEF before
  <2>4. Promise!WTick  BY <2>1, <2>3 DEF Promise!WTick
  <2> QED  BY <2>4 DEF Promise!WNext
<1>6. ASSUME NEW u \in Uids, Request(u)
      PROVE  Promise!WNext
  <2> DEFINE old == Pruned(logs[u], limiter.window)
             log == Logged(logs[u], limiter.max, limiter.window)
  <2>1. /\ limiter' = limiter /\ logs' = [logs EXCEPT ![u] = log]
        /\ answer' = <<u, IF Allows(logs[u], limiter.max, limiter.window) THEN "admitted" ELSE "refused">>
    BY <1>6 DEF Request
  <2>2. DOMAIN logs = Uids  BY DEF Inv, LimiterInv
  <2>3. \A v \in Uids : Recent'[v] = IF v = u THEN Pruned(log, limiter.window) ELSE Recent[v]
    BY <2>1, <2>2 DEF Recent
  <2>4. Recent' = [Recent EXCEPT ![u] = Pruned(log, limiter.window)]
    BY <2>3 DEF Recent
  <2>5. Recent[u] = old  BY DEF Recent
  <2>6. /\ limiter.max <= 0 => log = logs[u]
        /\ limiter.max > 0 /\ Allows(logs[u], limiter.max, limiter.window) => Pruned(log, limiter.window) = Append(old, 0)
        /\ ~Allows(logs[u], limiter.max, limiter.window) => Pruned(log, limiter.window) = old
    BY <1>1, <1>2, LoggedLog
  <2>7. Len(old) \in Nat /\ (Len(old) = 0 \/ Len(old) <= limiter.max)
    <3>1. old \in Logs(limiter.max, limiter.window)  BY <1>1, <1>2, PrunedLog
    <3> QED  BY <1>1, <3>1, LogIsSeq
  <2>8. Allows(logs[u], limiter.max, limiter.window) <=> limiter.max <= 0 \/ Len(old) < limiter.max
    BY DEF Allows
  <2> HIDE DEF old, log
  <2>9. CASE Allows(logs[u], limiter.max, limiter.window)
    <3>1. Recent' = IF limiter.max <= 0 THEN Recent ELSE [Recent EXCEPT ![u] = Append(Recent[u], 0)]
      <4>1. CASE limiter.max <= 0
        <5>1. Pruned(log, limiter.window) = Recent[u]  BY <2>5, <2>6, <4>1 DEF old
        <5>2. [Recent EXCEPT ![u] = Recent[u]] = Recent  BY DEF Recent
        <5> QED  BY <2>4, <4>1, <5>1, <5>2
      <4>2. CASE ~(limiter.max <= 0)
        <5>1. limiter.max > 0  BY <1>1, <4>2
        <5> QED  BY <2>4, <2>5, <2>6, <2>9, <4>2, <5>1
      <4> QED  BY <4>1, <4>2
    <3>2. answer' = <<u, "admitted">>  BY <2>1, <2>9
    <3>3. limiter.max <= 0 \/ Len(Recent[u]) < limiter.max  BY <2>5, <2>8, <2>9
    <3>4. Promise!Admit(u)  BY <2>1, <3>1, <3>2, <3>3 DEF Promise!Admit, Recent
    <3> QED  BY <3>4 DEF Promise!WNext
  <2>10. CASE ~Allows(logs[u], limiter.max, limiter.window)
    <3>1. Recent' = Recent
      <4>1. Pruned(log, limiter.window) = Recent[u]  BY <2>5, <2>6, <2>10
      <4>2. [Recent EXCEPT ![u] = Recent[u]] = Recent  BY DEF Recent
      <4> QED  BY <2>4, <4>1, <4>2
    <3>2. answer' = <<u, "refused">>  BY <2>1, <2>10
    <3>3. limiter.max > 0 /\ Len(Recent[u]) = limiter.max  BY <1>1, <2>5, <2>7, <2>8, <2>10
    <3>4. Promise!Refuse(u)  BY <2>1, <3>1, <3>2, <3>3 DEF Promise!Refuse, Recent
    <3> QED  BY <3>4 DEF Promise!WNext
  <2> QED  BY <2>9, <2>10
<1> QED  BY <1>3, <1>4, <1>5, <1>6, LimiterSteps

\* The limiter that prunes only when a request arrives implements the sliding window that
\* always knows which requests count.
THEOREM LimiterImplementsWindow == Spec => LimiterKeepsPromise
<1>1. Inv /\ Inv' /\ [Next]_vars => [Promise!WNext]_<<[u \in Uids |-> Pruned(logs[u], limiter.window)], limiter, answer>>
  BY PromiseStep DEF Recent
<1> QED  BY Invariant, PromiseInit, <1>1, PTL DEF Spec, LimiterKeepsPromise, Promise!WSpec

-----------------------------------------------------------------------------
\* The greatest of finitely many positive numbers.
LEMMA MaxOf ==
    ASSUME NEW n \in Nat, NEW s, s \subseteq 1..n, s # {}
    PROVE  Max(s) \in s /\ \A y \in s : y <= Max(s)
<1> DEFINE T == {n - x : x \in s}
<1>1. T \subseteq Nat /\ T # {}
  <2>1. \A x \in s : x \in 1..n  OBVIOUS
  <2>2. \A x \in s : n - x \in Nat  BY <2>1
  <2> QED  BY <2>2
<1>2. PICK t \in T : \A y \in T : t <= y  BY <1>1, LeastNumber
<1>3. PICK x \in s : t = n - x  BY <1>2
<1>4. \A y \in s : n - x <= n - y  BY <1>2, <1>3
<1>5. \A y \in s : x >= y  BY <1>4
<1>6. Max(s) \in s /\ \A y \in s : Max(s) >= y  BY <1>5 DEF Max
<1>7. \A y \in s : y \in Int  OBVIOUS
<1> QED  BY <1>6, <1>7

\* One template of a fold, over those named before it.
Layer(templates, names, f, s) ==
    IF s = {} THEN << >> ELSE mergeTemplatePerms(f[s \ {Max(s)}], templates[names[Max(s)]])

\* What the templates at some positions of a list offer, the first that has an entry first.
Offered(templates, names, s) == UNION {DOMAIN templates[names[i]] : i \in s}
FirstOf(templates, names, s, e) ==
    CHOOSE i \in s : /\ e \in DOMAIN templates[names[i]]
                     /\ \A j \in s : e \in DOMAIN templates[names[j]] => i <= j
FirstWins(templates, names) ==
    [s \in SUBSET DOMAIN names |->
        IF s = {} THEN << >>
        ELSE [e \in Offered(templates, names, s) |-> templates[names[FirstOf(templates, names, s, e)]][e]]]

LEMMA FirstOfIs ==
    ASSUME NEW templates, NEW names, NEW n \in Nat, DOMAIN names = 1..n,
           NEW s \in SUBSET DOMAIN names, NEW e \in Offered(templates, names, s)
    PROVE  LET i == FirstOf(templates, names, s, e)
           IN  /\ i \in s /\ e \in DOMAIN templates[names[i]]
               /\ \A j \in s : e \in DOMAIN templates[names[j]] => i <= j
<1> DEFINE T == {i \in s : e \in DOMAIN templates[names[i]]}
<1>1. T \subseteq Nat /\ T # {}  BY DEF Offered
<1>2. PICK i \in T : \A j \in T : i <= j  BY <1>1, LeastNumber
<1>3. \E k \in s : /\ e \in DOMAIN templates[names[k]]
                   /\ \A j \in s : e \in DOMAIN templates[names[j]] => k <= j
  BY <1>2
<1> QED  BY <1>3 DEF FirstOf

\* It is the only one.
LEMMA FirstOfUnique ==
    ASSUME NEW templates, NEW names, NEW n \in Nat, DOMAIN names = 1..n,
           NEW s \in SUBSET DOMAIN names, NEW e, NEW i \in s, e \in DOMAIN templates[names[i]],
           \A j \in s : e \in DOMAIN templates[names[j]] => i <= j
    PROVE  FirstOf(templates, names, s, e) = i
<1> DEFINE k == FirstOf(templates, names, s, e)
<1>1. e \in Offered(templates, names, s)  BY DEF Offered
<1>2. /\ k \in s /\ e \in DOMAIN templates[names[k]]
      /\ \A j \in s : e \in DOMAIN templates[names[j]] => k <= j
  BY <1>1, FirstOfIs
<1> HIDE DEF k
<1>3. k \in Int /\ i \in Int  BY <1>2
<1>4. k <= i /\ i <= k  BY <1>2
<1>5. k = i  BY <1>3, <1>4
<1> QED  BY <1>5 DEF k

\* The first template wins, whichever positions are taken: this solves the fold's equation.
LEMMA FirstWinsSolves ==
    ASSUME NEW templates, NEW names, NEW n \in Nat, DOMAIN names = 1..n,
           NEW s \in SUBSET DOMAIN names
    PROVE  FirstWins(templates, names)[s] = Layer(templates, names, FirstWins(templates, names), s)
<1> DEFINE f == FirstWins(templates, names)
           O(t) == Offered(templates, names, t)
           First(t, e) == FirstOf(templates, names, t, e)
<1>1. CASE s = {}  BY <1>1 DEF FirstWins, Layer
<1>2. CASE s # {}
  <2> DEFINE m == Max(s)
             r == s \ {m}
             last == templates[names[m]]
  <2>1. m \in s /\ \A y \in s : y <= m  BY <1>2, MaxOf
  <2> HIDE DEF m
  <2>2. r \in SUBSET DOMAIN names /\ s = r \cup {m}  BY <2>1
  <2>3. f[s] = [e \in O(s) |-> templates[names[First(s, e)]][e]]  BY <1>2 DEF FirstWins
  <2>4. DOMAIN f[r] = O(r)
    <3>1. CASE r = {}
      <4>1. f[r] = << >>  BY <2>2, <3>1 DEF FirstWins
      <4>2. O(r) = {}  BY <3>1 DEF Offered
      <4>3. DOMAIN << >> = {}  OBVIOUS
      <4> HIDE DEF f, O
      <4> QED  BY <4>1, <4>2, <4>3
    <3>2. CASE r # {}  BY <2>2, <3>2 DEF FirstWins
    <3> QED  BY <3>1, <3>2
  <2>5. \A e \in O(r) : f[r][e] = templates[names[First(r, e)]][e]
    <3>1. CASE r = {}  BY <3>1 DEF Offered
    <3>2. CASE r # {}  BY <2>2, <3>2 DEF FirstWins
    <3> QED  BY <3>1, <3>2
  <2>6. O(s) = O(r) \cup DOMAIN last  BY <2>2 DEF Offered
  <2>7. ASSUME NEW e \in O(r)  PROVE First(s, e) = First(r, e)
    <3> DEFINE i == First(r, e)
    <3>1. /\ i \in r /\ e \in DOMAIN templates[names[i]]
          /\ \A j \in r : e \in DOMAIN templates[names[j]] => i <= j
      BY <2>2, FirstOfIs
    <3> HIDE DEF i
    <3>2. i \in s /\ i <= m  BY <2>1, <3>1
    <3>3. \A j \in s : e \in DOMAIN templates[names[j]] => i <= j  BY <2>2, <3>1, <3>2
    <3>4. First(s, e) = i  BY <3>1, <3>2, <3>3, FirstOfUnique
    <3> QED  BY <3>4 DEF i
  <2>8. ASSUME NEW e \in DOMAIN last, e \notin O(r)  PROVE First(s, e) = m
    <3>1. \A j \in r : e \notin DOMAIN templates[names[j]]  BY <2>8 DEF Offered
    <3>2. m \in Int /\ m <= m  BY <2>1
    <3>3. \A j \in s : e \in DOMAIN templates[names[j]] => m <= j  BY <2>2, <3>1, <3>2
    <3> QED  BY <2>1, <2>8, <3>3, FirstOfUnique
  <2>9. Layer(templates, names, f, s) =
          [e \in DOMAIN f[r] \cup DOMAIN last |-> IF e \in DOMAIN f[r] THEN f[r][e] ELSE last[e]]
    BY <1>2 DEF Layer, mergeTemplatePerms, Over, m
  <2>10. \A e \in O(s) : templates[names[First(s, e)]][e] = IF e \in O(r) THEN f[r][e] ELSE last[e]
    BY <2>5, <2>6, <2>7, <2>8
  <2> HIDE DEF f, O, First, r, last
  <2>11. f[s] = [e \in O(r) \cup DOMAIN last |-> IF e \in O(r) THEN f[r][e] ELSE last[e]]
    BY <2>3, <2>6, <2>10
  <2>12. f[s] = Layer(templates, names, f, s)  BY <2>4, <2>9, <2>11
  <2> QED  BY <2>12 DEF f
<1> QED  BY <1>1, <1>2

\* What the templates of a list leave together: every entry one of them has, as the first
\* of them has it.  The fold's recursion is solved by FirstWins and by nothing else.
LEMMA InheritedIs ==
    ASSUME NEW templates, NEW names, NEW n \in Nat, DOMAIN names = 1..n
    PROVE  Inherited(templates, names) = FirstWins(templates, names)[DOMAIN names]
<1> DEFINE f == FirstWins(templates, names)
           Eq(g) == g = [s \in SUBSET DOMAIN names |-> Layer(templates, names, g, s)]
           iter == CHOOSE g : Eq(g)
<1>1. Inherited(templates, names) = iter[DOMAIN names]
  BY DEF Inherited, FoldLeft, MapThenFoldSet, Layer
<1>2. Eq(f)
  <2>1. \A s \in SUBSET DOMAIN names : f[s] = Layer(templates, names, f, s)  BY FirstWinsSolves
  <2>2. f = [s \in SUBSET DOMAIN names |-> f[s]]  BY DEF FirstWins
  <2> HIDE DEF f
  <2> QED  BY <2>1, <2>2
<1>3. Eq(iter)
  <2> HIDE DEF Eq
  <2> QED  BY <1>2
<1> HIDE DEF iter
<1>4. \A s \in SUBSET DOMAIN names : iter[s] = Layer(templates, names, iter, s)  BY <1>3
<1>5. \A s \in SUBSET DOMAIN names : f[s] = Layer(templates, names, f, s)  BY FirstWinsSolves
<1> HIDE DEF f, Eq
<1> DEFINE T == {k \in Nat : \E s \in SUBSET DOMAIN names : Cardinality(s) = k /\ iter[s] # f[s]}
<1>6. T = {}
  <2> SUFFICES ASSUME T # {} PROVE FALSE  OBVIOUS
  <2>1. T \subseteq Nat  OBVIOUS
  <2>2. PICK k \in T : \A l \in T : k <= l  BY <2>1, LeastNumber
  <2>3. PICK s \in SUBSET DOMAIN names : Cardinality(s) = k /\ iter[s] # f[s]  BY <2>2
  <2>4. s # {}  BY <1>4, <1>5, <2>3 DEF Layer
  <2> DEFINE m == Max(s)
             r == s \ {m}
  <2>5. m \in s  BY <2>4, MaxOf
  <2> HIDE DEF m
  <2>6. IsFiniteSet(DOMAIN names)  BY Interval
  <2>7. IsFiniteSet(s)  BY <2>6, FS_Subset
  <2>8. IsFiniteSet(r) /\ Cardinality(r) = Cardinality(s) - 1  BY <2>5, <2>7, FS_RemoveElement
  <2>9. Cardinality(r) \in Nat  BY <2>8, FS_CardinalityType
  <2>10. r \in SUBSET DOMAIN names  OBVIOUS
  <2> HIDE DEF r
  <2>11. Cardinality(r) \notin T
    <3>1. k \in Nat /\ Cardinality(r) = k - 1  BY <2>3, <2>8
    <3>2. ~(k <= Cardinality(r))  BY <3>1
    <3> QED  BY <2>2, <3>2
  <2>12. iter[r] = f[r]  BY <2>9, <2>10, <2>11
  <2>13. Layer(templates, names, iter, s) = Layer(templates, names, f, s)
    BY <2>12 DEF Layer, r, m
  <2> QED  BY <1>4, <1>5, <2>3, <2>13
<1>7. IsFiniteSet(DOMAIN names)  BY Interval
<1>8. Cardinality(DOMAIN names) \in Nat  BY <1>7, FS_CardinalityType
<1>9. DOMAIN names \in SUBSET DOMAIN names  OBVIOUS
<1>10. iter[DOMAIN names] = f[DOMAIN names]  BY <1>6, <1>8, <1>9
<1> QED  BY <1>1, <1>10 DEF f

LEMMA InheritedEntries ==
    ASSUME NEW templates, NEW names, NEW n \in Nat, DOMAIN names = 1..n
    PROVE  /\ DOMAIN Inherited(templates, names) = Offered(templates, names, DOMAIN names)
           /\ \A e \in Offered(templates, names, DOMAIN names) :
                 Inherited(templates, names)[e] =
                     templates[names[FirstOf(templates, names, DOMAIN names, e)]][e]
<1> DEFINE all == DOMAIN names
<1>1. Inherited(templates, names) = FirstWins(templates, names)[all]  BY InheritedIs
<1>2. CASE all = {}
  <2>1. Inherited(templates, names) = << >>  BY <1>1, <1>2 DEF FirstWins
  <2>2. Offered(templates, names, all) = {}  BY <1>2 DEF Offered
  <2>3. DOMAIN << >> = {}  OBVIOUS
  <2> QED  BY <2>1, <2>2, <2>3
<1>3. CASE all # {}
  <2>1. Inherited(templates, names) =
          [e \in Offered(templates, names, all) |-> templates[names[FirstOf(templates, names, all, e)]][e]]
    BY <1>1, <1>3 DEF FirstWins
  <2> QED  BY <2>1
<1> QED  BY <1>2, <1>3

\* The list of templates of an agent is a list.
LEMMA InheritsIsSeq ==
    ASSUME NEW cfg \in Loadable, NEW a \in DOMAIN cfg.agents
    PROVE  \E n \in Nat : DOMAIN cfg.agents[a].inherits = 1..n
<1>1. PICK f \in Files : Readable(f) /\ cfg = applyDefaults(f)  BY DEF Loadable
<1>2. f \in (Files \cup Candidates) \ {NoFile}  BY <1>1 DEF Readable
<1>3. cfg.agents = f.agents  BY <1>1, <1>2, DefaultsKeepTypes
<1>4. cfg.agents[a].inherits \in Seq(ToSet(cfg.agents[a].inherits))  BY <1>2, <1>3, GateAssumption
<1> QED  BY <1>4, LenProperties

\* What resolveAgent gives an agent is its own entry or that of the first template.
LEMMA ResolvedAsExpected ==
    ASSUME NEW cfg \in Loadable, NEW a \in DOMAIN cfg.agents
    PROVE  LET perms == resolveAgent(cfg, a)
           IN  /\ DOMAIN perms.entries = EntriesOf(cfg, a)
               /\ \A e \in DOMAIN perms.entries : perms.entries[e] = Expected(cfg, a, e)
<1> DEFINE agent == cfg.agents[a]
           names == agent.inherits
           inherited == Inherited(cfg.templates, names)
           entries == Over(agent.entries, inherited)
           Cut(e) == e[1] = "ssh" /\ e[2] \in DOMAIN cfg.targets
           perms == resolveAgent(cfg, a)
<1>1. PICK n \in Nat : DOMAIN names = 1..n  BY InheritsIsSeq
<1>2. /\ DOMAIN inherited = Offered(cfg.templates, names, DOMAIN names)
      /\ \A e \in DOMAIN inherited :
            inherited[e] = cfg.templates[names[FirstOf(cfg.templates, names, DOMAIN names, e)]][e]
  BY <1>1, InheritedEntries
<1>3. perms.entries = [e \in DOMAIN entries |->
                         IF Cut(e) THEN entries[e] \cap cfg.targets[e[2]].roles ELSE entries[e]]
  BY DEF resolveAgent
<1>4. /\ DOMAIN entries = DOMAIN agent.entries \cup DOMAIN inherited
      /\ \A e \in DOMAIN entries : entries[e] = IF e \in DOMAIN agent.entries THEN agent.entries[e] ELSE inherited[e]
  BY DEF Over
<1>5. DOMAIN inherited = UNION {DOMAIN cfg.templates[name] : name \in ToSet(names)}
  <2> DEFINE D(name) == DOMAIN cfg.templates[name]
  <2>1. Offered(cfg.templates, names, DOMAIN names) = UNION {D(names[i]) : i \in DOMAIN names}
    BY DEF Offered
  <2>2. ToSet(names) = {names[i] : i \in DOMAIN names}  BY DEF ToSet
  <2> HIDE DEF D, names
  <2>3. UNION {D(names[i]) : i \in DOMAIN names} = UNION {D(name) : name \in ToSet(names)}  BY <2>2
  <2> USE DEF names
  <2>4. DOMAIN inherited = UNION {D(name) : name \in ToSet(names)}  BY <1>2, <2>1, <2>3
  <2> QED  BY <2>4 DEF D
<1>6. DOMAIN perms.entries = EntriesOf(cfg, a)
  <2> HIDE DEF entries, inherited, perms
  <2>1. DOMAIN perms.entries = DOMAIN entries  BY <1>3
  <2> QED  BY <1>4, <1>5, <2>1 DEF EntriesOf
<1>7. ASSUME NEW e \in DOMAIN perms.entries  PROVE perms.entries[e] = Expected(cfg, a, e)
  <2> DEFINE Has(i) == e \in DOMAIN cfg.templates[names[i]]
             first == CHOOSE i \in DOMAIN names : Has(i) /\ \A j \in 1..(i - 1) : ~Has(j)
             list == IF e \in DOMAIN agent.entries THEN agent.entries[e] ELSE cfg.templates[names[first]][e]
  <2>1. Expected(cfg, a, e) = {x \in list : Cut(e) => x \in cfg.targets[e[2]].roles}
    BY DEF Expected
  <2>2. e \in DOMAIN entries
    <3> HIDE DEF entries, perms
    <3> QED  BY <1>3
  <2>3. entries[e] = list
    <3>1. CASE e \in DOMAIN agent.entries
      <4> HIDE DEF entries
      <4> QED  BY <1>4, <2>2, <3>1
    <3>2. CASE e \notin DOMAIN agent.entries
      <4> DEFINE i == FirstOf(cfg.templates, names, DOMAIN names, e)
      <4>1. e \in DOMAIN inherited /\ entries[e] = inherited[e]
        <5> HIDE DEF entries, inherited
        <5> QED  BY <1>4, <2>2, <3>2
      <4>2. e \in Offered(cfg.templates, names, DOMAIN names)  BY <1>2, <4>1
      <4>3. inherited[e] = cfg.templates[names[i]][e]  BY <1>2, <4>1
      <4>4. DOMAIN names \in SUBSET DOMAIN names  OBVIOUS
      <4>5. /\ i \in DOMAIN names /\ Has(i)
            /\ \A j \in DOMAIN names : Has(j) => i <= j
        BY <1>1, <4>2, <4>4, FirstOfIs
      <4> HIDE DEF i
      <4>6. \A j \in 1..(i - 1) : ~Has(j)
        <5> SUFFICES ASSUME NEW j \in 1..(i - 1), Has(j) PROVE FALSE  OBVIOUS
        <5>1. i \in 1..n  BY <1>1, <4>5
        <5>2. j \in 1..n /\ ~(i <= j)  BY <5>1
        <5> QED  BY <1>1, <4>5, <5>2
      <4> HIDE DEF Has
      <4>7. first \in DOMAIN names /\ Has(first) /\ \A j \in 1..(first - 1) : ~Has(j)  BY <4>5, <4>6
      <4>8. first = i
        <5> HIDE DEF first
        <5>1. first \in 1..n /\ i \in 1..n  BY <1>1, <4>5, <4>7
        <5>2. i <= first  BY <4>5, <4>7
        <5>3. ~(i < first)
          <6> SUFFICES ASSUME i < first PROVE FALSE  OBVIOUS
          <6>1. i \in 1..(first - 1)  BY <5>1
          <6> QED  BY <4>5, <4>7, <6>1
        <5> QED  BY <5>1, <5>2, <5>3
      <4> HIDE DEF first
      <4> QED  BY <3>2, <4>1, <4>3, <4>8
    <3> QED  BY <3>1, <3>2
  <2>4. perms.entries[e] = IF Cut(e) THEN entries[e] \cap cfg.targets[e[2]].roles ELSE entries[e]
    <3> HIDE DEF entries, perms
    <3> QED  BY <1>3, <2>2
  <2> HIDE DEF list, Cut, perms, entries
  <2> QED  BY <2>1, <2>3, <2>4
<1> QED  BY <1>6, <1>7

\* The entries of every agent are its own and those of its templates, the first of which
\* wins, however many it inherits and however they overlap.
THEOREM PermissionsAsConfigured == Spec => []PermsAsConfigured
<1>1. Inv => PermsAsConfigured
  <2> SUFFICES ASSUME Inv PROVE PermsAsConfigured  OBVIOUS
  <2>1. policy \in Loadable  BY DEF Inv, PlainInv
  <2> QED  BY <2>1, ResolvedAsExpected DEF PermsAsConfigured
<1> QED  BY Invariant, <1>1, PTL

\* A key is taken for agents whose key it is, from the cache as from the hashes.
LEMMA AcceptedMatch ==
    ASSUME Inv, NEW k \in Keys, NEW a \in Accepted(k)
    PROVE  a \in Matching(k)
<1>1. CASE cache[k].left > 0
  <2>1. cache[k] # NoEntry  BY <1>1 DEF NoEntry
  <2>2. registry # None /\ cache[k] \in [left : 1..CacheTTL, agent : Matching(k)]
    BY <2>1 DEF Inv, CacheInv
  <2>3. Accepted(k) = {cache[k].agent}  BY <1>1, <2>2 DEF Accepted
  <2> QED  BY <2>2, <2>3
<1>2. CASE ~(cache[k].left > 0)  BY <1>2 DEF Accepted
<1> QED  BY <1>1, <1>2

\* Access follows from the agent having no restrictions at all or from one entry.
LEMMA AccessNeedsEntry ==
    ASSUME NEW cfg \in Loadable, NEW a \in DOMAIN cfg.agents, NEW t, NEW role,
           CanAccess(resolveAgent(cfg, a), "ssh", t, role)
    PROVE  \/ Legacy(cfg.agents[a])
           \/ \E e \in EntriesOf(cfg, a) :
                 /\ e = <<"ssh", t>> \/ (e = <<"ssh", Star>> /\ <<"ssh", t>> \notin EntriesOf(cfg, a))
                 /\ Expected(cfg, a, e) = {} \/ role \in Expected(cfg, a, e)
<1> DEFINE perms == resolveAgent(cfg, a)
           own == <<"ssh", t>>
           star == <<"ssh", Star>>
<1>1. /\ DOMAIN perms.entries = EntriesOf(cfg, a)
      /\ \A e \in DOMAIN perms.entries : perms.entries[e] = Expected(cfg, a, e)
  BY ResolvedAsExpected
<1>2. perms.legacy => Legacy(cfg.agents[a])
  BY DEF resolveAgent, Legacy
<1>3. perms.legacy \/ \E list \in Applying(perms, "ssh", t) : list = {} \/ role \in list
  BY Zenon DEF CanAccess
<1> HIDE DEF perms
<1>4. CASE perms.legacy  BY <1>2, <1>4
<1>5. CASE \E list \in Applying(perms, "ssh", t) : list = {} \/ role \in list
  <2>1. PICK list \in Applying(perms, "ssh", t) : list = {} \/ role \in list  BY <1>5
  <2>2. CASE own \in DOMAIN perms.entries
    <3>1. list = Expected(cfg, a, own) /\ own \in EntriesOf(cfg, a)  BY <1>1, <2>1, <2>2 DEF Applying
    <3> HIDE DEF own
    <3> QED  BY <2>1, <3>1 DEF own
  <2>3. CASE own \notin DOMAIN perms.entries
    <3>1. star \in DOMAIN perms.entries /\ list = perms.entries[star]  BY <2>1, <2>3 DEF Applying
    <3>2. list = Expected(cfg, a, star) /\ star \in EntriesOf(cfg, a) /\ own \notin EntriesOf(cfg, a)
      BY <1>1, <2>3, <3>1
    <3> QED  BY <2>1, <3>2
  <2> QED  BY <2>2, <2>3
<1> QED  BY <1>3, <1>4, <1>5

\* A key opens a role on a target only if the policy MCP was started with gives the key to
\* an agent that it lets have the role there, and the target of now allows the role.
THEOREM KeysOpenAsConfigured == Spec => []ExecAsConfigured
<1>1. Inv => ExecAsConfigured
  <2> SUFFICES ASSUME Inv, registry # None,
                      NEW k \in Keys, NEW t \in DOMAIN policy.targets, NEW role \in DOMAIN policy.roles,
                      MayExec(k, t, role)
               PROVE  /\ role \in policy.targets[t].roles
                      /\ \E a \in DOMAIN served.agents :
                            /\ served.agents[a].key = k
                            /\ \/ Legacy(served.agents[a])
                               \/ \E e \in EntriesOf(served, a) :
                                     /\ e = <<"ssh", t>> \/ (e = <<"ssh", Star>> /\ <<"ssh", t>> \notin EntriesOf(served, a))
                                     /\ Expected(served, a, e) = {} \/ role \in Expected(served, a, e)
    BY DEF ExecAsConfigured
  <2>1. PICK a \in Accepted(k) : CanAccess(registry[a].perms, "ssh", t, role)  BY DEF MayExec
  <2>2. role \in policy.targets[t].roles  BY DEF MayExec
  <2>3. a \in DOMAIN registry /\ registry[a].key = k  BY <2>1, AcceptedMatch DEF Matching
  <2>4. registry = Registered(served) /\ served \in Loadable  BY DEF Inv, RegistryInv
  <2>5. a \in DOMAIN served.agents /\ served.agents[a].key = k /\ registry[a].perms = resolveAgent(served, a)
    BY <2>3, <2>4 DEF Registered
  <2>6. CanAccess(resolveAgent(served, a), "ssh", t, role)  BY <2>1, <2>5
  <2> QED  BY <2>2, <2>4, <2>5, <2>6, AccessNeedsEntry
<1> QED  BY Invariant, <1>1, PTL

=============================================================================
