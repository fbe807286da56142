----------------------------- MODULE RoomProofs -----------------------------
(***************************************************************************)
(* What holds of the store with any keys and values, and of a room with    *)
(* any number of connections around it, after a few general facts:         *)
(* induction over the natural numbers, and from it over the positions of   *)
(* a sequence, with the inductive claim given as a set, so that the claim  *)
(* a caller has in mind is "n is in T".  It follows from the               *)
(* well-foundedness of strict inclusion between finite sets, applied to    *)
(* the intervals 0 .. n.                                                   *)
(***************************************************************************)
EXTENDS Room, FiniteSetTheorems, SequenceTheorems, TLAPS

-----------------------------------------------------------------------------
(***************************************************************************)
(* Induction.                                                              *)
(***************************************************************************)

\* A nonempty set of naturals has a least element.
LEMMA LeastNatural ==
    ASSUME NEW B \in SUBSET Nat, B # {}
    PROVE  \E m \in B : \A k \in B : m <= k
<1> DEFINE R == StrictSubsetOrdering(Nat)
           F == FiniteSubsetsOf(Nat)
           T == {0 .. n : n \in B}
<1>1. T \subseteq F /\ T # {}
  <2>1. \A n \in Nat : IsFiniteSet(0 .. n)
    BY FS_Interval
  <2>2. \A n \in Nat : 0 .. n \in F
    BY <2>1 DEF FiniteSubsetsOf
  <2> HIDE DEF F
  <2>3. T \subseteq F
    BY <2>2
  <2> QED BY <2>3
<1>2. IsWellFoundedOn(R, F)
  BY FS_StrictSubsetOrderingWellFounded
<1>3. \E x \in T : \A y \in T : ~ (<<y, x>> \in R)
  <2> HIDE DEF R, F, T
  <2> QED BY <1>1, <1>2, WFMin
<1>4. PICK m \in B : \A k \in B : ~ (<<0 .. k, 0 .. m>> \in R)
  BY <1>3
<1>5. ASSUME NEW k \in B, k < m
      PROVE  FALSE
  <2>1. 0 .. k \subseteq 0 .. m /\ m \in 0 .. m /\ m \notin 0 .. k
    BY <1>5
  <2>2. <<0 .. k, 0 .. m>> \in R
    BY <2>1 DEF StrictSubsetOrdering
  <2> QED BY <2>2, <1>4
<1> QED BY <1>5

\* A set with 0 that is closed under successor holds every natural number.
THEOREM NatSetInduction ==
    ASSUME NEW T, 0 \in T, \A n \in Nat : n \in T => n + 1 \in T
    PROVE  Nat \subseteq T
<1> DEFINE B == {n \in Nat : n \notin T}
<1> SUFFICES ASSUME B # {}
             PROVE  FALSE
  OBVIOUS
<1>1. PICK m \in B : \A k \in B : m <= k
  <2> B \in SUBSET Nat
    OBVIOUS
  <2> HIDE DEF B
  <2> QED BY LeastNatural
<1>2. m \in Nat /\ m # 0
  OBVIOUS
<1>3. m - 1 \in Nat /\ m - 1 \notin B
  BY <1>1, <1>2
<1> QED BY <1>1, <1>2, <1>3

\* What holds at 0 and from each number up to n to the next holds up to n; the claim at
\* i is that f[i] is in G[i].
THEOREM IntervalInduction ==
    ASSUME NEW n \in Nat, NEW f, NEW G, f[0] \in G[0],
           \A i \in 1 .. n : f[i - 1] \in G[i - 1] => f[i] \in G[i]
    PROVE  \A i \in 0 .. n : f[i] \in G[i]
<1> DEFINE T == {i \in Nat : i <= n => f[i] \in G[i]}
<1>1. 0 \in T
  OBVIOUS
<1>2. ASSUME NEW i \in Nat, i \in T
      PROVE  i + 1 \in T
  <2>1. CASE i + 1 <= n
    <3>1. i + 1 \in 1 .. n /\ (i + 1) - 1 = i /\ f[i] \in G[i]
      BY <1>2, <2>1
    <3> QED BY <3>1
  <2>2. CASE ~ (i + 1 <= n)
    BY <2>2
  <2> QED BY <2>1, <2>2
<1>3. Nat \subseteq T
  <2> HIDE DEF T
  <2> QED BY <1>1, <1>2, NatSetInduction
<1> QED BY <1>3

\* f begins with `first` and comes from each number up to n - 1 to the next by a step.
Recurs(f, n, first, step) == f[0] = first /\ \A i \in 1 .. n : f[i] = step[i][f[i - 1]]

\* A function may be defined so.
THEOREM IntervalRecursion ==
    ASSUME NEW n \in Nat, NEW S, NEW first \in S, NEW step \in [1 .. n -> [S -> S]]
    PROVE  \E f \in [0 .. n -> S] : Recurs(f, n, first, step)
<1> DEFINE Solves(m, f) == f[0] = first /\ \A i \in 1 .. m : f[i] = step[i][f[i - 1]]
           T == {m \in Nat : m <= n => \E f \in [0 .. m -> S] : Solves(m, f)}
<1>1. 0 \in T
  <2> DEFINE g == [i \in 0 .. 0 |-> first]
  <2>1. g \in [0 .. 0 -> S] /\ Solves(0, g)
    OBVIOUS
  <2> QED BY <2>1
<1>2. ASSUME NEW m \in Nat, m \in T
      PROVE  m + 1 \in T
  <2> SUFFICES ASSUME m + 1 <= n
               PROVE  \E f \in [0 .. m + 1 -> S] : Solves(m + 1, f)
    OBVIOUS
  <2>1. PICK f \in [0 .. m -> S] : Solves(m, f)
    BY <1>2
  <2> DEFINE next == step[m + 1][f[m]]
             g == [i \in 0 .. m + 1 |-> IF i = m + 1 THEN next ELSE f[i]]
  <2>2. next \in S
    <3>1. m + 1 \in 1 .. n /\ f[m] \in S
      OBVIOUS
    <3> QED BY <3>1
  <2>3. g \in [0 .. m + 1 -> S]
    BY <2>2
  <2>4. g[m + 1] = next /\ \A i \in 0 .. m : g[i] = f[i]
    OBVIOUS
  <2> HIDE DEF g
  <2>5. g[0] = first
    BY <2>1, <2>4
  <2>6. ASSUME NEW i \in 1 .. m + 1
        PROVE  g[i] = step[i][g[i - 1]]
    <3>1. CASE i = m + 1
      BY <2>4, <3>1
    <3>2. CASE i \in 1 .. m
      <4>1. i \in 0 .. m /\ i - 1 \in 0 .. m
        BY <3>2
      <4> QED BY <2>1, <2>4, <3>2, <4>1
    <3> QED BY <3>1, <3>2
  <2> QED BY <2>3, <2>5, <2>6
<1>3. Nat \subseteq T
  <2> HIDE DEF T
  <2> QED BY <1>1, <1>2, NatSetInduction
<1>4. PICK f \in [0 .. n -> S] : Solves(n, f)
  BY <1>3
<1> QED BY <1>4 DEF Recurs

-----------------------------------------------------------------------------
(***************************************************************************)
(* Adding one entry at either end of a stream.                             *)
(***************************************************************************)

\* An entry numbered above all others may be appended.
LEMMA AppendFacts ==
    ASSUME NEW log \in Seq(SequenceValue), NEW entry \in SequenceValue
    PROVE  /\ Append(log, entry) \in Seq(SequenceValue)
           /\ Range(Append(log, entry)) = Range(log) \cup {entry}
           /\ (Increasing(log) /\ \A e \in Range(log) : e.seq < entry.seq)
                  => Increasing(Append(log, entry))
<1> DEFINE new == Append(log, entry)
<1>1. /\ new \in Seq(SequenceValue)
      /\ Len(new) = Len(log) + 1
      /\ \A i \in 1 .. Len(log) : new[i] = log[i]
      /\ new[Len(log) + 1] = entry
  BY AppendProperties
<1>2. Len(log) \in Nat /\ DOMAIN log = 1 .. Len(log) /\ DOMAIN new = 1 .. Len(log) + 1
  BY <1>1, LenProperties
<1> HIDE DEF new
<1>3. Range(new) = Range(log) \cup {entry}
  BY <1>1, <1>2 DEF Range
<1>4. ASSUME Increasing(log), \A e \in Range(log) : e.seq < entry.seq
      PROVE  Increasing(new)
  <2> SUFFICES ASSUME NEW i \in 1 .. Len(log) + 1, NEW j \in 1 .. Len(log) + 1, i < j
               PROVE  new[i].seq < new[j].seq
    BY <1>2 DEF Increasing
  <2>1. CASE j = Len(log) + 1
    <3>1. i \in 1 .. Len(log) /\ log[i] \in Range(log)
      BY <1>2, <2>1 DEF Range
    <3> QED BY <3>1, <2>1, <1>1, <1>4
  <2>2. CASE j \in 1 .. Len(log)
    <3>1. i \in 1 .. Len(log)
      BY <1>2, <2>2
    <3> QED BY <3>1, <2>2, <1>1, <1>2, <1>4 DEF Increasing
  <2> QED BY <2>1, <2>2, <1>2
<1> QED BY <1>1, <1>3, <1>4 DEF new

\* An entry numbered below all others may be put in front.
LEMMA PrependFacts ==
    ASSUME NEW log \in Seq(SequenceValue), NEW entry \in SequenceValue
    PROVE  /\ <<entry>> \o log \in Seq(SequenceValue)
           /\ Range(<<entry>> \o log) = {entry} \cup Range(log)
           /\ (Increasing(log) /\ \A e \in Range(log) : entry.seq < e.seq)
                  => Increasing(<<entry>> \o log)
<1> DEFINE new == <<entry>> \o log
<1>1. /\ new \in Seq(SequenceValue)
      /\ Len(new) = Len(log) + 1
      /\ new[1] = entry
      /\ \A i \in 2 .. Len(log) + 1 : new[i] = log[i - 1]
  <2>1. <<entry>> \in Seq(SequenceValue) /\ Len(<<entry>>) = 1 /\ <<entry>>[1] = entry
    OBVIOUS
  <2>2. Len(log) \in Nat
    BY LenProperties
  <2> QED BY <2>1, <2>2, ConcatProperties
<1>2. Len(log) \in Nat /\ DOMAIN log = 1 .. Len(log) /\ DOMAIN new = 1 .. Len(log) + 1
  BY <1>1, LenProperties
<1> HIDE DEF new
<1>3. Range(new) = {entry} \cup Range(log)
  <2>1. \A i \in 1 .. Len(log) : i + 1 \in 2 .. Len(log) + 1 /\ new[i + 1] = log[i]
    BY <1>1, <1>2
  <2>2. \A i \in 1 .. Len(log) + 1 : i = 1 \/ (i \in 2 .. Len(log) + 1 /\ i - 1 \in 1 .. Len(log))
    BY <1>2
  <2>3. Range(new) \subseteq {entry} \cup Range(log)
    BY <1>1, <1>2, <2>2 DEF Range
  <2>4. entry \in Range(new)
    <3>1. 1 \in DOMAIN new
      BY <1>2
    <3> QED BY <1>1, <3>1 DEF Range
  <2>5. ASSUME NEW i \in 1 .. Len(log)
        PROVE  log[i] \in Range(new)
    <3>1. i + 1 \in DOMAIN new /\ new[i + 1] = log[i]
      BY <1>2, <2>1
    <3> QED BY <3>1 DEF Range
  <2>6. Range(log) \subseteq Range(new)
    BY <1>2, <2>5 DEF Range
  <2> QED BY <2>3, <2>4, <2>6
<1>4. ASSUME Increasing(log), \A e \in Range(log) : entry.seq < e.seq
      PROVE  Increasing(new)
  <2> SUFFICES ASSUME NEW i \in 1 .. Len(log) + 1, NEW j \in 1 .. Len(log) + 1, i < j
               PROVE  new[i].seq < new[j].seq
    BY <1>2 DEF Increasing
  <2>1. j \in 2 .. Len(log) + 1 /\ j - 1 \in 1 .. Len(log)
    BY <1>2
  <2>2. CASE i = 1
    <3>1. log[j - 1] \in Range(log)
      BY <1>2, <2>1 DEF Range
    <3> QED BY <3>1, <2>1, <2>2, <1>1, <1>4
  <2>3. CASE i # 1
    <3>1. i \in 2 .. Len(log) + 1 /\ i - 1 \in 1 .. Len(log) /\ i - 1 < j - 1
      BY <1>2, <2>3
    <3> QED BY <3>1, <2>1, <1>1, <1>2, <1>4 DEF Increasing
  <2> QED BY <2>2, <2>3
<1> QED BY <1>1, <1>3, <1>4 DEF new

(***************************************************************************)
(* RetainAfter.                                                            *)
(***************************************************************************)

\* kept is the table that RetainAfter(log, s) reads its answer from.
Keeps(log, s, kept) ==
    kept = [i \in 0 .. Len(log) |->
               IF i = 0 THEN <<>>
               ELSE IF log[i].seq > s THEN Append(kept[i - 1], log[i])
               ELSE kept[i - 1]]

\* The table exists: the recursion is well founded.
LEMMA KeepsExists ==
    ASSUME NEW log \in Seq(SequenceValue), NEW s
    PROVE  \E kept : Keeps(log, s, kept)
<1> DEFINE Upto(n, kept) ==
               kept = [i \in 0 .. n |->
                          IF i = 0 THEN <<>>
                          ELSE IF log[i].seq > s THEN Append(kept[i - 1], log[i])
                          ELSE kept[i - 1]]
           T == {n \in Nat : \E kept : Upto(n, kept)}
<1>1. 0 \in T
  <2> DEFINE g == [i \in 0 .. 0 |-> <<>>]
  <2>1. Upto(0, g)
    OBVIOUS
  <2> QED BY <2>1
<1>2. ASSUME NEW n \in Nat, n \in T
      PROVE  n + 1 \in T
  <2>1. PICK f : Upto(n, f)
    BY <1>2
  <2> DEFINE last == IF log[n + 1].seq > s THEN Append(f[n], log[n + 1]) ELSE f[n]
             g == [i \in 0 .. n + 1 |-> IF i = n + 1 THEN last ELSE f[i]]
  <2>2. g[n + 1] = last /\ \A i \in 0 .. n : g[i] = f[i]
    OBVIOUS
  <2>3. \A i \in 0 .. n :
            f[i] = IF i = 0 THEN <<>>
                   ELSE IF log[i].seq > s THEN Append(f[i - 1], log[i])
                   ELSE f[i - 1]
    BY <2>1
  <2>4. \A i \in 0 .. n + 1 :
            g[i] = IF i = 0 THEN <<>>
                   ELSE IF log[i].seq > s THEN Append(g[i - 1], log[i])
                   ELSE g[i - 1]
    <3> TAKE i \in 0 .. n + 1
    <3> HIDE DEF g
    <3>1. CASE i = n + 1
      <4>1. i - 1 = n /\ n \in 0 .. n /\ i # 0
        BY <3>1
      <4> QED BY <4>1, <3>1, <2>2
    <3>2. CASE i \in 1 .. n
      <4>1. i - 1 \in 0 .. n /\ i \in 0 .. n
        BY <3>2
      <4> QED BY <4>1, <2>2, <2>3
    <3>3. CASE i = 0
      BY <3>3, <2>2, <2>3
    <3> QED BY <3>1, <3>2, <3>3
  <2>5. Upto(n + 1, g)
    <3>1. g = [i \in 0 .. n + 1 |-> g[i]]
      OBVIOUS
    <3> HIDE DEF g
    <3> QED BY <2>4, <3>1
  <2> HIDE DEF g, Upto
  <2> QED BY <2>5
<1>3. Nat \subseteq T
  <2> HIDE DEF T
  <2> QED BY <1>1, <1>2, NatSetInduction
<1>4. Len(log) \in T
  BY <1>3, LenProperties
<1> QED BY <1>4 DEF Keeps

\* RetainAfter keeps exactly the entries numbered above s, and their order.
LEMMA RetainAfterFacts ==
    ASSUME NEW log \in Seq(SequenceValue), NEW s \in Nat
    PROVE  /\ RetainAfter(log, s) \in Seq(SequenceValue)
           /\ Range(RetainAfter(log, s)) = {entry \in Range(log) : entry.seq > s}
           /\ Increasing(log) => Increasing(RetainAfter(log, s))
<1>1. PICK kept : Keeps(log, s, kept) /\ RetainAfter(log, s) = kept[Len(log)]
  BY KeepsExists DEF Keeps, RetainAfter
<1>2. Len(log) \in Nat /\ DOMAIN log = 1 .. Len(log) /\ \A i \in 1 .. Len(log) : log[i] \in SequenceValue
  BY LenProperties, ElementOfSeq
<1> DEFINE Sound(n) ==
               /\ kept[n] \in Seq(SequenceValue)
               /\ Range(kept[n]) = {log[i] : i \in {i \in 1 .. n : log[i].seq > s}}
               /\ Increasing(log) => Increasing(kept[n])
           T == {n \in Nat : n <= Len(log) => Sound(n)}
<1>3. 0 \in T
  <2>1. kept[0] = <<>>
    BY <1>1, <1>2 DEF Keeps
  <2>2. <<>> \in Seq(SequenceValue) /\ Range(<<>>) = {} /\ Increasing(<<>>)
    BY DEF Range, Increasing
  <2>3. {log[i] : i \in {i \in 1 .. 0 : log[i].seq > s}} = {}
    OBVIOUS
  <2>4. Sound(0)
    BY <2>1, <2>2, <2>3
  <2> HIDE DEF Sound
  <2> QED BY <2>4
<1>4. ASSUME NEW n \in Nat, n \in T
      PROVE  n + 1 \in T
  <2> SUFFICES ASSUME n + 1 <= Len(log)
               PROVE  Sound(n + 1)
    OBVIOUS
  <2>1. Sound(n) /\ n + 1 \in 1 .. Len(log) /\ log[n + 1] \in SequenceValue
    BY <1>2, <1>4
  <2>2. kept[n + 1] = IF log[n + 1].seq > s THEN Append(kept[n], log[n + 1]) ELSE kept[n]
    <3>1. n + 1 \in 0 .. Len(log) /\ n + 1 # 0 /\ (n + 1) - 1 = n
      BY <2>1
    <3> QED BY <1>1, <3>1 DEF Keeps
  <2>3. {i \in 1 .. n + 1 : log[i].seq > s} =
            {i \in 1 .. n : log[i].seq > s} \cup (IF log[n + 1].seq > s THEN {n + 1} ELSE {})
    BY <1>2
  <2>4. CASE ~ (log[n + 1].seq > s)
    BY <2>1, <2>2, <2>3, <2>4
  <2>5. CASE log[n + 1].seq > s
    <3>1. Range(kept[n + 1]) = Range(kept[n]) \cup {log[n + 1]}
      BY <2>1, <2>2, <2>5, AppendFacts
    <3>2. Range(kept[n + 1]) = {log[i] : i \in {i \in 1 .. n + 1 : log[i].seq > s}}
      BY <2>1, <2>3, <2>5, <3>1
    <3>3. ASSUME Increasing(log)
          PROVE  Increasing(kept[n + 1])
      <4>1. \A i \in 1 .. n : log[i].seq < log[n + 1].seq
        BY <1>2, <2>1, <3>3 DEF Increasing
      <4>2. \A e \in Range(kept[n]) : e.seq < log[n + 1].seq
        BY <2>1, <4>1
      <4> QED BY <2>1, <2>2, <2>5, <3>3, <4>2, AppendFacts
    <3> QED BY <2>1, <2>2, <2>5, <3>2, <3>3, AppendFacts
  <2> QED BY <2>4, <2>5
<1>5. Sound(Len(log))
  <2>1. Nat \subseteq T
    <3> HIDE DEF T
    <3> QED BY <1>3, <1>4, NatSetInduction
  <2>2. Len(log) \in T
    BY <1>2, <2>1
  <2> HIDE DEF Sound
  <2> QED BY <1>2, <2>2
<1>6. {log[i] : i \in {i \in 1 .. Len(log) : log[i].seq > s}} = {entry \in Range(log) : entry.seq > s}
  BY <1>2 DEF Range
<1> QED BY <1>1, <1>5, <1>6

\* Of two streams in order with the same entries the one begins as the other does.
LEMMA SameBeginning ==
    ASSUME NEW a \in Seq(SequenceValue), NEW b \in Seq(SequenceValue),
           Increasing(a), Increasing(b), Range(a) = Range(b)
    PROVE  Len(a) <= Len(b) /\ \A i \in 1 .. Len(a) : a[i] = b[i]
<1>1. /\ Len(a) \in Nat /\ DOMAIN a = 1 .. Len(a) /\ \A i \in 1 .. Len(a) : a[i] \in SequenceValue
      /\ Len(b) \in Nat /\ DOMAIN b = 1 .. Len(b) /\ \A i \in 1 .. Len(b) : b[i] \in SequenceValue
  BY LenProperties, ElementOfSeq
<1> DEFINE Alike(n) == n <= Len(b) /\ \A i \in 1 .. n : a[i] = b[i]
           T == {n \in Nat : n <= Len(a) => Alike(n)}
<1>2. 0 \in T
  BY <1>1
<1>3. ASSUME NEW n \in Nat, n \in T
      PROVE  n + 1 \in T
  <2> SUFFICES ASSUME n + 1 <= Len(a)
               PROVE  Alike(n + 1)
    OBVIOUS
  <2>1. Alike(n) /\ n + 1 \in 1 .. Len(a)
    BY <1>1, <1>3
  <2>2. PICK j \in 1 .. Len(b) : b[j] = a[n + 1]
    <3>1. a[n + 1] \in Range(b)
      BY <1>1, <2>1 DEF Range
    <3> QED BY <1>1, <3>1 DEF Range
  <2>3. j > n
    <3> SUFFICES ASSUME j \in 1 .. n
                 PROVE  FALSE
      BY <1>1
    <3>1. a[j] = a[n + 1] /\ j \in 1 .. Len(a) /\ j < n + 1
      BY <1>1, <2>1, <2>2
    <3>2. a[j].seq < a[n + 1].seq
      BY <1>1, <2>1, <3>1 DEF Increasing
    <3> QED BY <1>1, <2>1, <3>1, <3>2 DEF SequenceValue
  <2>4. n + 1 \in 1 .. Len(b)
    BY <1>1, <2>3
  <2>5. PICK i \in 1 .. Len(a) : a[i] = b[n + 1]
    <3>1. b[n + 1] \in Range(a)
      BY <1>1, <2>4 DEF Range
    <3> QED BY <1>1, <3>1 DEF Range
  <2>6. i > n
    <3> SUFFICES ASSUME i \in 1 .. n
                 PROVE  FALSE
      BY <1>1
    <3>1. b[i] = b[n + 1] /\ i \in 1 .. Len(b) /\ i < n + 1
      BY <1>1, <2>1, <2>5
    <3>2. b[i].seq < b[n + 1].seq
      BY <1>1, <2>4, <3>1 DEF Increasing
    <3> QED BY <1>1, <2>4, <3>1, <3>2 DEF SequenceValue
  <2>7. /\ a[i].seq \in Nat /\ a[n + 1].seq \in Nat /\ b[j].seq \in Nat /\ b[n + 1].seq \in Nat
        /\ i # n + 1 => a[n + 1].seq < a[i].seq
        /\ j # n + 1 => b[n + 1].seq < b[j].seq
    <3>1. a[i] \in SequenceValue /\ a[n + 1] \in SequenceValue /\ b[j] \in SequenceValue /\ b[n + 1] \in SequenceValue
      BY <1>1, <2>1, <2>4
    <3>2. i # n + 1 => a[n + 1].seq < a[i].seq
      BY <1>1, <2>1, <2>6 DEF Increasing
    <3>3. j # n + 1 => b[n + 1].seq < b[j].seq
      BY <1>1, <2>3, <2>4 DEF Increasing
    <3> QED BY <3>1, <3>2, <3>3 DEF SequenceValue
  <2>8. i = n + 1
    BY <2>2, <2>5, <2>7
  <2> QED BY <2>1, <2>4, <2>5, <2>8
<1>4. Nat \subseteq T
  <2> HIDE DEF T
  <2> QED BY <1>2, <1>3, NatSetInduction
<1> QED BY <1>1, <1>4

\* The order of a stream is determined by its entries.
LEMMA SameStream ==
    ASSUME NEW a \in Seq(SequenceValue), NEW b \in Seq(SequenceValue),
           Increasing(a), Increasing(b), Range(a) = Range(b)
    PROVE  a = b
<1>1. Len(a) \in Nat /\ Len(b) \in Nat
  BY LenProperties
<1>2. Len(a) <= Len(b) /\ \A i \in 1 .. Len(a) : a[i] = b[i]
  BY SameBeginning
<1>3. Len(b) <= Len(a)
  BY SameBeginning
<1>4. Len(a) = Len(b)
  BY <1>1, <1>2, <1>3
<1> QED BY <1>2, <1>4, SeqEqual

\* What is read from the beginning is the whole stream.
LEMMA RetainAll ==
    ASSUME NEW n, NEW log \in Seq(SequenceValue), Sorted(log, n)
    PROVE  RetainAfter(log, 0) = log
<1>1. \A e \in Range(log) : e.seq > 0
  BY DEF Sorted
<1>2. Increasing(log)
  BY DEF Sorted
<1>3. /\ RetainAfter(log, 0) \in Seq(SequenceValue)
      /\ Range(RetainAfter(log, 0)) = Range(log)
      /\ Increasing(RetainAfter(log, 0))
  BY <1>1, <1>2, RetainAfterFacts
<1> QED BY <1>2, <1>3, SameStream

(***************************************************************************)
(* One apply on one stream.                                                *)
(***************************************************************************)

\* The entries a stream holds after an apply.
RangeAfter(log, entry, action) ==
    CASE action.type = "relay"   -> Range(log)
      [] action.type = "append"  -> Range(log) \cup {entry}
      [] action.type = "replace" -> {entry}
      [] action.type = "compact" -> {entry} \cup {e \in Range(log) : e.seq > action.seq}

\* The actions of a client are well typed, whatever it may compact at.
LEMMA ClientActionType ==
    ASSUME NEW n \in Nat, NEW action \in ClientAction(n)
    PROVE  /\ action \in Action
           /\ action.type \in {"relay", "append", "replace", "compact"}
           /\ action.type = "compact" => action.seq \in Nat
           /\ action.type = "compact" /\ ~RawCompaction => action.seq \in 1 .. n
           /\ StampOf(action, n) \in Nat
           /\ SequenceAfter(action, n) \in Nat
BY MaxSeqAssumption, RawCompactionAssumption DEF ClientAction, Action, StampOf, SequenceAfter

\* An apply keeps a stream well typed, and the entries it leaves are those that
\* the instructions name.
LEMMA StreamAfterRange ==
    ASSUME NEW n \in Nat, NEW action \in ClientAction(n),
           NEW log \in Seq(SequenceValue), NEW entry \in SequenceValue
    PROVE  /\ StreamAfter(log, entry, action) \in Seq(SequenceValue)
           /\ Range(StreamAfter(log, entry, action)) = RangeAfter(log, entry, action)
<1>1. CASE action.type = "relay"
  BY <1>1 DEF StreamAfter, RangeAfter
<1>2. CASE action.type = "append"
  BY <1>2, AppendFacts DEF StreamAfter, RangeAfter
<1>3. CASE action.type = "replace"
  <2>1. <<entry>> \in Seq(SequenceValue) /\ Range(<<entry>>) = {entry}
    BY DEF Range
  <2> QED BY <1>3, <2>1 DEF StreamAfter, RangeAfter
<1>4. CASE action.type = "compact"
  <2>1. action.seq \in Nat
    BY <1>4, ClientActionType
  <2> DEFINE rest == RetainAfter(log, action.seq)
  <2>2. rest \in Seq(SequenceValue) /\ Range(rest) = {e \in Range(log) : e.seq > action.seq}
    BY <2>1, RetainAfterFacts
  <2>3. /\ <<entry>> \o rest \in Seq(SequenceValue)
        /\ Range(<<entry>> \o rest) = {entry} \cup Range(rest)
    BY <2>2, PrependFacts
  <2> QED BY <1>4, <2>2, <2>3 DEF StreamAfter, RangeAfter
<1> QED BY <1>1, <1>2, <1>3, <1>4, ClientActionType

\* An apply by a client that compacts at a number it has seen keeps a stream
\* sorted.
LEMMA StreamAfterSorted ==
    ASSUME NEW n \in Nat, NEW action \in ClientAction(n), ~RawCompaction,
           NEW log \in Seq(SequenceValue), Sorted(log, n),
           NEW entry \in SequenceValue, entry.seq = StampOf(action, n)
    PROVE  Sorted(StreamAfter(log, entry, action), SequenceAfter(action, n))
<1> DEFINE new == StreamAfter(log, entry, action)
           m == SequenceAfter(action, n)
<1>1. Range(new) = RangeAfter(log, entry, action)
  BY StreamAfterRange
<1>2. \A e \in Range(log) : e.seq \in 1 .. n
  BY DEF Sorted
<1>3. \A e \in Range(new) : e.seq \in 1 .. m
  BY <1>1, <1>2, ClientActionType DEF RangeAfter, SequenceAfter, StampOf
<1>4. Increasing(new)
  <2>1. CASE action.type = "relay"
    BY <2>1 DEF StreamAfter, Sorted
  <2>2. CASE action.type = "append"
    <3>1. \A e \in Range(log) : e.seq < entry.seq
      BY <1>2, <2>2 DEF StampOf
    <3> QED BY <2>2, <3>1, AppendFacts DEF StreamAfter, Sorted
  <2>3. CASE action.type = "replace"
    <3>1. Increasing(<<entry>>)
      BY DEF Increasing
    <3> QED BY <2>3, <3>1 DEF StreamAfter
  <2>4. CASE action.type = "compact"
    <3>1. action.seq \in Nat /\ entry.seq = action.seq
      BY <2>4, ClientActionType DEF StampOf
    <3> DEFINE rest == RetainAfter(log, action.seq)
    <3>2. /\ rest \in Seq(SequenceValue)
          /\ Increasing(rest)
          /\ \A e \in Range(rest) : entry.seq < e.seq
      BY <1>2, <3>1, RetainAfterFacts DEF Sorted
    <3> QED BY <2>4, <3>2, PrependFacts DEF StreamAfter
  <2> QED BY <2>1, <2>2, <2>3, <2>4, ClientActionType
<1> QED BY <1>3, <1>4 DEF Sorted

(***************************************************************************)
(* The store.                                                              *)
(***************************************************************************)

\* A step of the store applies one action to one stream.
LEMMA StepFacts ==
    ASSUME StoreTypeOK, StoreNext
    PROVE  \E key \in Key, action \in ClientAction(sequence_number), entry \in SequenceValue :
              /\ entry.seq = StampOf(action, sequence_number)
              /\ entry.value \in Value
              /\ sequence_number' = SequenceAfter(action, sequence_number)
              /\ subjects' = [subjects EXCEPT ![key] = StreamAfter(@, entry, action)]
<1>1. PICK key \in Key, value \in Value, action \in ClientAction(sequence_number) :
          ApplyAction(key, value, action)
  BY DEF StoreNext
<1> DEFINE entry == [value |-> value, seq |-> StampOf(action, sequence_number)]
<1>2. entry \in SequenceValue
  BY ClientActionType DEF SequenceValue, StoreTypeOK
<1>3. subjects' = [subjects EXCEPT ![key] = StreamAfter(@, entry, action)]
  BY <1>1 DEF ApplyAction, Stamp
<1>4. sequence_number' = SequenceAfter(action, sequence_number)
  BY <1>1 DEF ApplyAction
<1> QED BY <1>2, <1>3, <1>4

LEMMA StoreTypeStep ==
    ASSUME StoreTypeOK, [StoreNext]_storeVars
    PROVE  StoreTypeOK'
<1>1. CASE StoreNext
  <2>1. PICK key \in Key, action \in ClientAction(sequence_number), entry \in SequenceValue :
            /\ sequence_number' = SequenceAfter(action, sequence_number)
            /\ subjects' = [subjects EXCEPT ![key] = StreamAfter(@, entry, action)]
    BY <1>1, StepFacts
  <2>2. sequence_number' \in Nat
    BY <2>1, ClientActionType DEF StoreTypeOK
  <2>3. StreamAfter(subjects[key], entry, action) \in Seq(SequenceValue)
    BY StreamAfterRange DEF StoreTypeOK
  <2> QED BY <2>1, <2>2, <2>3 DEF StoreTypeOK
<1>2. CASE UNCHANGED storeVars
  BY <1>2 DEF storeVars, StoreTypeOK
<1> QED BY <1>1, <1>2

\* Every stream is a sequence of numbered values and the counter is a natural
\* number, whatever clients compact at (store.rs: Store, apply).
THEOREM StoreTypeCorrect == StoreSpec => []StoreTypeOK
<1>1. StoreInit => StoreTypeOK
  BY DEF StoreInit, StoreTypeOK
<1>2. StoreTypeOK /\ [StoreNext]_storeVars => StoreTypeOK'
  BY StoreTypeStep
<1> QED BY <1>1, <1>2, PTL DEF StoreSpec

\* One step of a room whose clients compact at numbers they have seen keeps the
\* streams sorted.
LEMMA SortedStep ==
    ASSUME ~RawCompaction, StoreTypeOK, StreamsSorted, [StoreNext]_storeVars
    PROVE  StreamsSorted'
<1>1. CASE StoreNext
  <2>1. PICK key \in Key, action \in ClientAction(sequence_number), entry \in SequenceValue :
            /\ entry.seq = StampOf(action, sequence_number)
            /\ sequence_number' = SequenceAfter(action, sequence_number)
            /\ subjects' = [subjects EXCEPT ![key] = StreamAfter(@, entry, action)]
    BY <1>1, StepFacts
  <2>2. sequence_number \in Nat /\ \A k \in Key : subjects[k] \in Seq(SequenceValue)
    BY DEF StoreTypeOK
  <2>3. ASSUME NEW k \in Key
        PROVE  Sorted(subjects'[k], sequence_number')
    <3>1. Sorted(subjects[k], sequence_number)
      BY DEF StreamsSorted
    <3>2. CASE k = key
      <4>1. subjects'[k] = StreamAfter(subjects[k], entry, action)
        BY <2>1, <3>2 DEF StoreTypeOK
      <4>2. Sorted(StreamAfter(subjects[k], entry, action), SequenceAfter(action, sequence_number))
        BY <2>1, <2>2, <3>1, StreamAfterSorted
      <4> QED BY <2>1, <4>1, <4>2
    <3>3. CASE k # key
      <4>1. subjects'[k] = subjects[k]
        BY <2>1, <3>3 DEF StoreTypeOK
      <4>2. sequence_number' \in Nat /\ sequence_number <= sequence_number'
        BY <2>1, <2>2, ClientActionType DEF SequenceAfter
      <4> QED BY <2>2, <3>1, <4>1, <4>2 DEF Sorted
    <3> QED BY <3>2, <3>3
  <2> QED BY <2>3 DEF StreamsSorted
<1>2. CASE UNCHANGED storeVars
  BY <1>2 DEF storeVars, StreamsSorted
<1> QED BY <1>1, <1>2

\* Streams stay in increasing order of sequence number, without a number twice
\* and without a number the room has not handed out (store.rs: apply), as long
\* as clients compact at numbers they have seen.
THEOREM StreamsStaySorted ==
    ASSUME ~RawCompaction
    PROVE  StoreSpec => []StreamsSorted
<1>1. StoreInit => StreamsSorted
  <2> SUFFICES ASSUME StoreInit
               PROVE  StreamsSorted
    OBVIOUS
  <2>1. Range(<<>>) = {} /\ Increasing(<<>>)
    BY DEF Range, Increasing
  <2> QED BY <2>1 DEF StoreInit, StreamsSorted, Sorted
<1>2. StoreTypeOK /\ StreamsSorted /\ [StoreNext]_storeVars => StreamsSorted'
  BY SortedStep
<1> QED BY <1>1, <1>2, StoreTypeCorrect, PTL DEF StoreSpec

(***************************************************************************)
(* The store implements the map.                                           *)
(***************************************************************************)

\* In a sorted stream the number determines the entry.
LEMMA NumberDeterminesEntry ==
    ASSUME NEW n, NEW log \in Seq(SequenceValue), Sorted(log, n),
           NEW d \in Range(log), NEW e \in Range(log), d.seq = e.seq
    PROVE  d = e
<1>1. DOMAIN log = 1 .. Len(log) /\ Len(log) \in Nat /\ \A i \in 1 .. Len(log) : log[i] \in SequenceValue
  BY LenProperties, ElementOfSeq
<1>2. PICK i \in 1 .. Len(log), j \in 1 .. Len(log) : d = log[i] /\ e = log[j]
  BY <1>1 DEF Range
<1>3. log[i].seq \in Nat /\ log[j].seq \in Nat
  BY <1>1 DEF SequenceValue
<1>4. ~ (i < j) /\ ~ (j < i)
  BY <1>1, <1>2, <1>3 DEF Sorted, Increasing
<1> QED BY <1>2, <1>4

\* So its map gives each entry's number the entry's value.
LEMMA ImageEntries ==
    ASSUME NEW n, NEW log \in Seq(SequenceValue), Sorted(log, n)
    PROVE  /\ DOMAIN ImageOf(log) = Numbers(log)
           /\ \A e \in Range(log) : ImageOf(log)[e.seq] = e.value
<1>1. DOMAIN ImageOf(log) = Numbers(log)
  BY DEF ImageOf
<1>2. ASSUME NEW e \in Range(log)
      PROVE  ImageOf(log)[e.seq] = e.value
  <2> DEFINE chosen == CHOOSE d \in Range(log) : d.seq = e.seq
  <2>1. e.seq \in Numbers(log)
    BY DEF Numbers
  <2>2. ImageOf(log)[e.seq] = chosen.value
    BY <2>1 DEF ImageOf
  <2>3. chosen \in Range(log) /\ chosen.seq = e.seq
    OBVIOUS
  <2> HIDE DEF chosen
  <2> QED BY <2>2, <2>3, NumberDeterminesEntry
<1> QED BY <1>1, <1>2

\* And it is the only function that does.
LEMMA ImageUnique ==
    ASSUME NEW n, NEW log \in Seq(SequenceValue), Sorted(log, n),
           NEW f, f = [m \in Numbers(log) |-> f[m]],
           \A entry \in Range(log) : f[entry.seq] = entry.value
    PROVE  ImageOf(log) = f
<1>1. ImageOf(log) = [m \in Numbers(log) |-> ImageOf(log)[m]]
  BY DEF ImageOf
<1>2. \A m \in Numbers(log) : ImageOf(log)[m] = f[m]
  BY ImageEntries DEF Numbers
<1> QED BY <1>1, <1>2

\* f is the map of a set of entries.
IsMapOf(f, entries) ==
    /\ f = [m \in {e.seq : e \in entries} |-> f[m]]
    /\ \A e \in entries : f[e.seq] = e.value

\* Writing one entry into the map of the others gives the map of the stream.
LEMMA ImageByPut ==
    ASSUME NEW n, NEW new \in Seq(SequenceValue), Sorted(new, n),
           NEW entries, NEW entry, Range(new) = entries \cup {entry},
           NEW f, IsMapOf(f, entries),
           \A e \in entries : e.seq # entry.seq
    PROVE  ImageOf(new) = Abstract!Put(f, entry.seq, entry.value)
<1> DEFINE g == Abstract!Put(f, entry.seq, entry.value)
<1>1. g = [m \in {e.seq : e \in entries} \cup {entry.seq} |-> IF m = entry.seq THEN entry.value ELSE f[m]]
  BY DEF Abstract!Put, IsMapOf
<1>2. {e.seq : e \in entries} \cup {entry.seq} = Numbers(new)
  BY DEF Numbers
<1>3. \A e \in Range(new) : g[e.seq] = e.value
  BY <1>1 DEF IsMapOf
<1> HIDE DEF g
<1>4. g = [m \in Numbers(new) |-> g[m]]
  BY <1>1, <1>2
<1> QED BY <1>3, <1>4, ImageUnique DEF g

\* What an apply does to a stream is what the map's operations do to its map.
LEMMA ImageAfter ==
    ASSUME NEW n \in Nat, NEW action \in ClientAction(n), ~RawCompaction,
           NEW log \in Seq(SequenceValue), Sorted(log, n),
           NEW entry \in SequenceValue, entry.seq = StampOf(action, n)
    PROVE  ImageOf(StreamAfter(log, entry, action)) =
               CASE action.type = "relay"   -> ImageOf(log)
                 [] action.type = "append"  -> Abstract!Put(ImageOf(log), entry.seq, entry.value)
                 [] action.type = "replace" -> Abstract!Put(Abstract!NoEntries, entry.seq, entry.value)
                 [] action.type = "compact" ->
                        Abstract!Put(Abstract!DeleteUpTo(ImageOf(log), entry.seq), entry.seq, entry.value)
<1> DEFINE new == StreamAfter(log, entry, action)
           old == ImageOf(log)
<1>1. /\ new \in Seq(SequenceValue)
      /\ Sorted(new, SequenceAfter(action, n))
      /\ Range(new) = RangeAfter(log, entry, action)
  BY StreamAfterRange, StreamAfterSorted
<1>2. IsMapOf(old, Range(log))
  BY ImageEntries DEF IsMapOf, ImageOf, Numbers
<1> HIDE DEF new, old
<1>3. CASE action.type = "relay"
  <2>1. new = log
    BY <1>3 DEF StreamAfter, new
  <2> QED BY <1>3, <2>1 DEF new
<1>4. CASE action.type = "append"
  <2>1. Range(new) = Range(log) \cup {entry} /\ \A e \in Range(log) : e.seq # entry.seq
    BY <1>1, <1>4 DEF RangeAfter, Sorted, StampOf
  <2>2. ImageOf(new) = Abstract!Put(old, entry.seq, entry.value)
    BY <1>1, <1>2, <2>1, ImageByPut
  <2> QED BY <1>4, <2>2 DEF new, old
<1>5. CASE action.type = "replace"
  <2>1. Range(new) = {} \cup {entry}
    BY <1>1, <1>5 DEF RangeAfter
  <2>2. IsMapOf(Abstract!NoEntries, {})
    BY DEF Abstract!NoEntries, IsMapOf
  <2>3. ImageOf(new) = Abstract!Put(Abstract!NoEntries, entry.seq, entry.value)
    BY <1>1, <2>1, <2>2, ImageByPut
  <2> QED BY <1>5, <2>3 DEF new
<1>6. CASE action.type = "compact"
  <2> DEFINE rest == {e \in Range(log) : e.seq > entry.seq}
             f == Abstract!DeleteUpTo(old, entry.seq)
  <2>1. Range(new) = rest \cup {entry} /\ entry.seq \in Nat
    BY <1>1, <1>6, ClientActionType DEF RangeAfter, StampOf
  <2>2. f = [m \in {m \in DOMAIN old : m > entry.seq} |-> old[m]]
    BY DEF Abstract!DeleteUpTo
  <2>3. {m \in DOMAIN old : m > entry.seq} = {e.seq : e \in rest}
    BY <1>2 DEF IsMapOf
  <2>4. IsMapOf(f, rest)
    <3> HIDE DEF f
    <3> QED BY <1>2, <2>2, <2>3 DEF IsMapOf
  <2>5. \A e \in rest : e.seq # entry.seq
    BY <2>1 DEF Sorted
  <2> HIDE DEF f, rest
  <2>6. ImageOf(new) = Abstract!Put(f, entry.seq, entry.value)
    BY <1>1, <2>1, <2>4, <2>5, ImageByPut
  <2> QED BY <1>6, <2>6 DEF f, new, old
<1> QED BY <1>3, <1>4, <1>5, <1>6, ClientActionType

\* The store implements the map of stream entries: every apply is one map
\* operation on the stream's key (store.rs: apply; state.rs: the replica
\* callback's deletes and puts).
THEOREM StoreImplementsMap ==
    ASSUME ~RawCompaction
    PROVE  StoreSpec => ImplementsStreamMap
<1>1. StoreInit => Abstract!MapInit
  <2> SUFFICES ASSUME StoreInit
               PROVE  Abstract!MapInit
    OBVIOUS
  <2>1. ImageOf(<<>>) = Abstract!NoEntries
    <3>1. Range(<<>>) = {}
      BY DEF Range
    <3> QED BY <3>1 DEF ImageOf, Numbers, Abstract!NoEntries
  <2> QED BY <2>1 DEF StoreInit, Abstract!MapInit
<1>2. ASSUME StoreTypeOK, StreamsSorted, [StoreNext]_storeVars
      PROVE  [Abstract!MapNext]_(Abstract!mapVars)
  <2>1. CASE UNCHANGED storeVars
    BY <2>1 DEF storeVars, Abstract!mapVars
  <2>2. CASE StoreNext
    <3>1. PICK key \in Key, action \in ClientAction(sequence_number), entry \in SequenceValue :
              /\ entry.seq = StampOf(action, sequence_number)
              /\ entry.value \in Value
              /\ sequence_number' = SequenceAfter(action, sequence_number)
              /\ subjects' = [subjects EXCEPT ![key] = StreamAfter(@, entry, action)]
      BY <1>2, <2>2, StepFacts
    <3> DEFINE image == [k \in Key |-> ImageOf(subjects[k])]
               after == ImageOf(StreamAfter(subjects[key], entry, action))
    <3>2. [k \in Key |-> ImageOf(subjects'[k])] = [image EXCEPT ![key] = after]
      BY <1>2, <3>1 DEF StoreTypeOK
    <3>3. /\ sequence_number \in Nat
          /\ subjects[key] \in Seq(SequenceValue)
          /\ Sorted(subjects[key], sequence_number)
      BY <1>2 DEF StoreTypeOK, StreamsSorted
    <3>4. after = CASE action.type = "relay"   -> image[key]
                    [] action.type = "append"  -> Abstract!Put(image[key], entry.seq, entry.value)
                    [] action.type = "replace" -> Abstract!Put(Abstract!NoEntries, entry.seq, entry.value)
                    [] action.type = "compact" ->
                           Abstract!Put(Abstract!DeleteUpTo(image[key], entry.seq), entry.seq, entry.value)
      BY <3>1, <3>3, ImageAfter
    <3> HIDE DEF after
    <3>5. CASE action.type = "relay"
      <4>1. [image EXCEPT ![key] = after] = image
        BY <3>4, <3>5
      <4> QED BY <3>1, <3>2, <3>5, <4>1 DEF Abstract!MapNext, Abstract!Relay, SequenceAfter
    <3>6. CASE action.type = "append"
      <4>1. Abstract!AppendTo(key, entry.value)
        BY <3>1, <3>2, <3>4, <3>6 DEF Abstract!AppendTo, SequenceAfter, StampOf
      <4> QED BY <3>1, <4>1 DEF Abstract!MapNext
    <3>7. CASE action.type = "replace"
      <4>1. Abstract!ReplaceAll(key, entry.value)
        BY <3>1, <3>2, <3>4, <3>7 DEF Abstract!ReplaceAll, SequenceAfter, StampOf
      <4> QED BY <3>1, <4>1 DEF Abstract!MapNext
    <3>8. CASE action.type = "compact"
      <4>1. entry.seq \in 1 .. sequence_number
        BY <3>1, <3>3, <3>8, ClientActionType DEF StampOf
      <4>2. Abstract!Compact(key, entry.seq, entry.value)
        BY <3>1, <3>2, <3>4, <3>8 DEF Abstract!Compact, SequenceAfter
      <4> QED BY <3>1, <4>1, <4>2 DEF Abstract!MapNext
    <3> QED BY <3>3, <3>5, <3>6, <3>7, <3>8, ClientActionType
  <2> QED BY <1>2, <2>1, <2>2
<1>3. StoreTypeOK /\ StreamsSorted /\ [StoreNext]_storeVars => [Abstract!MapNext]_(Abstract!mapVars)
  BY <1>2
<1> QED BY <1>1, <1>3, StoreTypeCorrect, StreamsStaySorted, PTL
        DEF StoreSpec, ImplementsStreamMap, Abstract!MapSpec

-----------------------------------------------------------------------------
(***************************************************************************)
(* The room as a store.                                                    *)
(***************************************************************************)

LEMMA RoomStepsStore ==
    ASSUME [RoomNext]_roomVars
    PROVE  [StoreNext]_storeVars
<1>1. CASE UNCHANGED roomVars
  BY <1>1 DEF roomVars
<1>2. ASSUME NEW conn \in Conn,
             Connect(conn) \/ ConnectDebug(conn) \/ Drop(conn) \/ Ping(conn)
      PROVE  UNCHANGED storeVars
  BY <1>2 DEF Connect, ConnectDebug, Drop, Ping
<1>3. ASSUME NEW conn \in Conn, NEW key \in Key, NEW seq, Get(conn, key, seq)
      PROVE  UNCHANGED storeVars
  BY <1>3 DEF Get
<1>4. ASSUME NEW conn \in Conn, NEW key \in Key, NEW value \in Value,
             NEW action \in ClientAction(sequence_number), Push(conn, key, value, action)
      PROVE  StoreNext
  BY <1>4 DEF Push, StoreNext
<1> QED BY <1>1, <1>2, <1>3, <1>4 DEF RoomNext

\* Whatever the connections do, they do to the store one action at a time
\* (connection.rs: send_message holds the mutex throughout).
THEOREM RoomImplementsStore == RoomSpec => StoreSpec
<1>1. RoomInit => StoreInit
  BY DEF RoomInit
<1> QED BY <1>1, RoomStepsStore, PTL DEF RoomSpec, StoreSpec

\* So the streams of a room stay sorted (api.md: "Data will be in increasing
\* order of sequence number").
THEOREM RoomStreamsSorted ==
    ASSUME ~RawCompaction
    PROVE  RoomSpec => []StreamsSorted
BY RoomImplementsStore, StreamsStaySorted, PTL

\* And well typed.
LEMMA RoomStoreTypeOK == RoomSpec => []StoreTypeOK
BY RoomImplementsStore, StoreTypeCorrect, PTL

(***************************************************************************)
(* Messages.                                                               *)
(***************************************************************************)

\* The messages that one push hands to one connection are well typed, and the
\* broadcasts among them carry the number that the push has drawn.
LEMMA PushDeliveriesFacts ==
    ASSUME RoomTypeOK, NEW conn \in Conn, NEW sender \in Conn, NEW key \in Key,
           NEW value \in Value, NEW action \in ClientAction(sequence_number),
           NEW stream \in Seq(SequenceValue)
    PROVE  LET new == PushDeliveries(conn, sender, key, value, action, stream)
           IN  /\ new \in Seq(Message)
               /\ \A i \in DOMAIN new : new[i].type = "push" =>
                     new[i].seq = Stamp(action) /\ Broadcasts(action)
<1> DEFINE message == PushMessage(key, [value |-> value, seq |-> Stamp(action)])
           debug   == IF conn \notin debug_connections THEN <<>>
                      ELSE IF Mutates(action) THEN <<InitMessage(key, RetainAfter(stream, 0))>>
                      ELSE <<message>>
           copies  == IF Broadcasts(action) THEN Copies(subscriptions[key][conn], message) ELSE <<>>
           answer  == IF conn = sender /\ Len(stream) > 1
                      THEN <<StreamSizeMessage(key, Len(stream))>> ELSE <<>>
           Good(s) == /\ s \in Seq(Message)
                      /\ \A i \in 1 .. Len(s) : s[i].type = "push" =>
                            s[i].seq = Stamp(action) /\ Broadcasts(action)
<1>1. message \in Message /\ message.type = "push" /\ message.seq = Stamp(action)
  BY ClientActionType DEF PushMessage, Message, Stamp, RoomTypeOK, StoreTypeOK
<1>2. InitMessage(key, RetainAfter(stream, 0)) \in Message
  BY RetainAfterFacts DEF InitMessage, Message
<1>3. StreamSizeMessage(key, Len(stream)) \in Message
  BY LenProperties DEF StreamSizeMessage, Message
<1> HIDE DEF message
<1>4. Good(debug)
  <2>1. ~Mutates(action) => Broadcasts(action)
    BY DEF Mutates, Broadcasts
  <2>2. Good(<<>>)
    OBVIOUS
  <2>3. Good(<<InitMessage(key, RetainAfter(stream, 0))>>)
    BY <1>2 DEF InitMessage
  <2>4. Broadcasts(action) => Good(<<message>>)
    BY <1>1
  <2> QED BY <2>1, <2>2, <2>3, <2>4
<1>5. Good(copies)
  <2>1. subscriptions[key][conn] \in Nat
    BY DEF RoomTypeOK
  <2> DEFINE c == Copies(subscriptions[key][conn], message)
  <2>2. c \in Seq(Message) /\ Len(c) = subscriptions[key][conn] /\ \A i \in 1 .. Len(c) : c[i] = message
    BY <1>1, <2>1, IsASeq DEF Copies
  <2> HIDE DEF c
  <2>3. Broadcasts(action) => Good(c)
    BY <1>1, <2>2
  <2>4. Good(<<>>)
    OBVIOUS
  <2> QED BY <2>3, <2>4 DEF c
<1>6. Good(answer)
  <2>1. Good(<<StreamSizeMessage(key, Len(stream))>>)
    BY <1>3 DEF StreamSizeMessage
  <2>2. Good(<<>>)
    OBVIOUS
  <2> QED BY <2>1, <2>2
<1>7. ASSUME NEW s, NEW t, Good(s), Good(t)
      PROVE  Good(s \o t)
  <2>1. /\ s \o t \in Seq(Message)
        /\ Len(s \o t) = Len(s) + Len(t)
        /\ Len(s) \in Nat /\ Len(t) \in Nat
        /\ \A i \in 1 .. Len(s) + Len(t) :
              (s \o t)[i] = IF i <= Len(s) THEN s[i] ELSE t[i - Len(s)]
    BY <1>7, ConcatProperties, LenProperties
  <2>2. ASSUME NEW i \in 1 .. Len(s) + Len(t)
        PROVE  (i \in 1 .. Len(s) /\ (s \o t)[i] = s[i])
               \/ (i - Len(s) \in 1 .. Len(t) /\ (s \o t)[i] = t[i - Len(s)])
    BY <2>1
  <2> QED BY <1>7, <2>1, <2>2
<1> HIDE DEF debug, copies, answer
<1>8. Good(debug \o copies \o answer) /\ Good(<<>>)
  BY <1>4, <1>5, <1>6, <1>7
<1>9. PushDeliveries(conn, sender, key, value, action, stream) =
          IF Live(conn) THEN debug \o copies \o answer ELSE <<>>
  BY DEF PushDeliveries, debug, copies, answer, message
<1>10. Good(PushDeliveries(conn, sender, key, value, action, stream))
  BY <1>8, <1>9
<1> QED BY <1>10, LenProperties

-----------------------------------------------------------------------------
(***************************************************************************)
(* The type invariant.                                                     *)
(***************************************************************************)

\* The streams a debug connection is shown first make well typed messages, none
\* of them a broadcast.
LEMMA FirstStreamsFacts ==
    ASSUME RoomTypeOK, NEW order \in SetToSeqs({key \in Key : subjects[key] # <<>>})
    PROVE  LET first == [i \in DOMAIN order |-> InitMessage(order[i], subjects[order[i]])]
           IN  /\ first \in Seq(Message)
               /\ \A i \in DOMAIN first : first[i].type = "init"
               /\ \A i \in DOMAIN first : \E key \in Key : first[i] = InitMessage(key, subjects[key])
<1> DEFINE shown == {key \in Key : subjects[key] # <<>>}
           n == Cardinality(shown)
           first == [i \in DOMAIN order |-> InitMessage(order[i], subjects[order[i]])]
<1>1. n \in Nat
  BY KeyAssumption, FS_Subset, FS_CardinalityType
<1>2. order \in [1 .. n -> shown]
  BY DEF SetToSeqs
<1> HIDE DEF n
<1>3. first \in [1 .. n -> Message] /\ \A i \in 1 .. n : first[i].type = "init"
  <2>1. ASSUME NEW i \in 1 .. n
        PROVE  InitMessage(order[i], subjects[order[i]]) \in Message
    <3>1. order[i] \in Key
      BY <1>2
    <3> QED BY <3>1 DEF RoomTypeOK, StoreTypeOK, InitMessage, Message
  <2> QED BY <1>2, <2>1 DEF InitMessage
<1>5. \A i \in DOMAIN first : \E key \in Key : first[i] = InitMessage(key, subjects[key])
  BY <1>2
<1> HIDE DEF first
<1>4. first \in Seq(Message) /\ DOMAIN first = 1 .. n
  BY <1>1, <1>3, IsASeq
<1> QED BY <1>3, <1>4, <1>5 DEF first

\* What a callback leaves in a channel fits, and is the beginning of what was
\* there and what is offered.
LEMMA OfferFacts ==
    ASSUME NEW queue \in Seq(Message), NEW messages \in Seq(Message)
    PROVE  /\ Offer(queue, messages) \in Seq(Message)
           /\ Len(Offer(queue, messages)) <= Capacity
           /\ \A i \in DOMAIN Offer(queue, messages) :
                 /\ i \in DOMAIN (queue \o messages)
                 /\ Offer(queue, messages)[i] = (queue \o messages)[i]
<1> DEFINE all == queue \o messages
<1>1. all \in Seq(Message) /\ Len(all) \in Nat /\ DOMAIN all = 1 .. Len(all)
  BY ConcatProperties, LenProperties
<1> HIDE DEF all
<1>2. CASE Len(all) <= Capacity
  <2>1. Offer(queue, messages) = all
    BY <1>2 DEF Offer, all
  <2> QED BY <1>1, <1>2, <2>1 DEF all
<1>3. CASE ~(Len(all) <= Capacity)
  <2>1. Offer(queue, messages) = SubSeq(all, 1, Capacity)
    BY <1>3 DEF Offer, all
  <2>2. Capacity \in Nat /\ Capacity < Len(all)
    BY <1>1, <1>3, CapacityAssumption
  <2>3. /\ SubSeq(all, 1, Capacity) \in Seq(Message)
        /\ Len(SubSeq(all, 1, Capacity)) = Capacity
        /\ \A i \in 1 .. Capacity : SubSeq(all, 1, Capacity)[i] = all[i]
    BY <1>1, <2>2, SubSeqProperties
  <2>4. DOMAIN SubSeq(all, 1, Capacity) = 1 .. Capacity
    BY <2>3, LenProperties
  <2>5. \A i \in 1 .. Capacity : i \in DOMAIN all
    BY <1>1, <2>2
  <2> QED BY <2>1, <2>2, <2>3, <2>4, <2>5 DEF all
<1> QED BY <1>2, <1>3

\* What does not fill a channel has all gone into it.
LEMMA OfferAll ==
    ASSUME NEW queue \in Seq(Message), NEW messages \in Seq(Message),
           Len(Offer(queue, messages)) < Capacity
    PROVE  Offer(queue, messages) = queue \o messages
<1> DEFINE all == queue \o messages
<1>1. all \in Seq(Message) /\ Len(all) \in Nat
  BY ConcatProperties, LenProperties
<1> HIDE DEF all
<1>2. ASSUME ~(Len(all) <= Capacity)
      PROVE  FALSE
  <2>1. Offer(queue, messages) = SubSeq(all, 1, Capacity)
    BY <1>2 DEF Offer, all
  <2>2. Capacity \in Nat /\ Capacity < Len(all)
    BY <1>1, <1>2, CapacityAssumption
  <2>3. Len(SubSeq(all, 1, Capacity)) = Capacity
    BY <1>1, <2>2, SubSeqProperties
  <2> QED BY <2>1, <2>2, <2>3
<1> QED BY <1>2 DEF Offer, all

LEMMA RoomTypeInit == RoomInit => RoomTypeOK
BY CapacityAssumption DEF RoomInit, RoomTypeOK, StoreInit, StoreTypeOK

InboxTypeOK ==
    /\ inbox \in [Conn -> Seq(Message)]
    /\ \A conn \in Conn : Len(inbox[conn]) <= Capacity

\* The inboxes keep their type when one of them is offered messages.
LEMMA InboxOffered ==
    ASSUME InboxTypeOK, NEW conn \in Conn, NEW queue \in Seq(Message), NEW messages \in Seq(Message),
           inbox' = [inbox EXCEPT ![conn] = Offer(queue, messages)]
    PROVE  InboxTypeOK'
BY OfferFacts DEF InboxTypeOK

\* One step keeps the types; that the store keeps its own is StoreTypeCorrect.
LEMMA RoomTypeStep ==
    ASSUME RoomTypeOK, StoreTypeOK', [RoomNext]_roomVars
    PROVE  RoomTypeOK'
<1>0. InboxTypeOK
  BY DEF RoomTypeOK, InboxTypeOK
<1>1. CASE UNCHANGED roomVars
  BY <1>1 DEF roomVars, connVars, RoomTypeOK
<1>2. ASSUME NEW conn \in Conn, Connect(conn)
      PROVE  RoomTypeOK'
  BY <1>2 DEF Connect, RoomTypeOK
<1>3. ASSUME NEW conn \in Conn, ConnectDebug(conn)
      PROVE  RoomTypeOK'
  <2>1. PICK order \in SetToSeqs({key \in Key : subjects[key] # <<>>}) :
            inbox' = [inbox EXCEPT ![conn] =
                         Offer(<<>>, [i \in DOMAIN order |->
                                         InitMessage(order[i], subjects[order[i]])])]
    BY <1>3 DEF ConnectDebug
  <2>2. [i \in DOMAIN order |-> InitMessage(order[i], subjects[order[i]])] \in Seq(Message)
    BY FirstStreamsFacts
  <2>3. InboxTypeOK'
    BY <1>0, <2>1, <2>2, InboxOffered, EmptySeq
  <2> QED BY <1>3, <2>3 DEF ConnectDebug, RoomTypeOK, InboxTypeOK
<1>4. ASSUME NEW conn \in Conn, Drop(conn)
      PROVE  RoomTypeOK'
  <2>1. Len(<<>>) <= Capacity
    BY CapacityAssumption
  <2> QED BY <1>4, <2>1 DEF Drop, RoomTypeOK
<1>5. ASSUME NEW conn \in Conn, Ping(conn)
      PROVE  RoomTypeOK'
  <2>1. <<PongMessage>> \in Seq(Message) /\ inbox[conn] \in Seq(Message)
    BY DEF Message, RoomTypeOK
  <2>2. InboxTypeOK'
    BY <1>0, <1>5, <2>1, InboxOffered DEF Ping
  <2> QED BY <1>5, <2>2 DEF Ping, RoomTypeOK, InboxTypeOK
<1>6. ASSUME NEW conn \in Conn, NEW key \in Key, NEW seq \in {NoSeq} \cup 0 .. sequence_number,
             Get(conn, key, seq)
      PROVE  RoomTypeOK'
  <2>1. subscriptions' \in [Key -> [Conn -> Nat]]
    BY <1>6 DEF Get, RoomTypeOK
  <2>2. InboxTypeOK'
    <3>1. CASE seq = NoSeq
      BY <1>0, <1>6, <3>1 DEF Get, InboxTypeOK
    <3>2. CASE seq # NoSeq
      <4>1. seq \in Nat /\ subjects[key] \in Seq(SequenceValue)
        BY <1>6, <3>2 DEF RoomTypeOK, StoreTypeOK
      <4>2. Read(key, seq) \in Seq(SequenceValue)
        BY <4>1, RetainAfterFacts DEF Read
      <4>3. InitMessage(key, Read(key, seq)) \in Message
        BY <4>2 DEF InitMessage, Message
      <4>4. <<InitMessage(key, Read(key, seq))>> \in Seq(Message) /\ inbox[conn] \in Seq(Message)
        BY <4>3 DEF RoomTypeOK
      <4>5. inbox' = [inbox EXCEPT ![conn] = Offer(inbox[conn], <<InitMessage(key, Read(key, seq))>>)]
        BY <1>6, <3>2 DEF Get
      <4> QED BY <1>0, <4>4, <4>5, InboxOffered
    <3> QED BY <3>1, <3>2
  <2> QED BY <1>6, <2>1, <2>2 DEF Get, RoomTypeOK, InboxTypeOK
<1>7. ASSUME NEW sender \in Conn, NEW key \in Key, NEW value \in Value,
             NEW action \in ClientAction(sequence_number), Push(sender, key, value, action)
      PROVE  RoomTypeOK'
  <2>1. subscriptions' \in [Key -> [Conn -> Nat]]
    BY <1>7 DEF Push, RoomTypeOK
  <2>2. InboxTypeOK'
    <3>1. subjects'[key] \in Seq(SequenceValue)
      BY DEF StoreTypeOK
    <3>2. ASSUME NEW conn \in Conn
          PROVE  LET after == Offer(inbox[conn], PushDeliveries(conn, sender, key, value, action, subjects'[key]))
                 IN  after \in Seq(Message) /\ Len(after) <= Capacity
      <4>1. PushDeliveries(conn, sender, key, value, action, subjects'[key]) \in Seq(Message)
        BY <3>1, PushDeliveriesFacts
      <4>2. inbox[conn] \in Seq(Message)
        BY DEF RoomTypeOK
      <4> QED BY <4>1, <4>2, OfferFacts
    <3> QED BY <1>7, <3>2 DEF Push, InboxTypeOK
  <2>3. debug_connections' \subseteq Conn
    BY <1>7 DEF Push, RoomTypeOK
  <2> QED BY <1>7, <2>1, <2>2, <2>3 DEF Push, RoomTypeOK, InboxTypeOK
<1> QED BY <1>1, <1>2, <1>3, <1>4, <1>5, <1>6, <1>7 DEF RoomNext

\* Every variable of a room keeps its type, and so does every message on its
\* way to a client (db.rs: push, subscribe, get, connect_debug).
THEOREM RoomTypeCorrect == RoomSpec => []RoomTypeOK
<1>1. RoomInit => RoomTypeOK
  BY RoomTypeInit
<1>2. RoomTypeOK /\ StoreTypeOK' /\ [RoomNext]_roomVars => RoomTypeOK'
  BY RoomTypeStep
<1> QED BY <1>1, <1>2, RoomStoreTypeOK, PTL DEF RoomSpec

-----------------------------------------------------------------------------
(***************************************************************************)
(* The order of broadcasts.  It is inductive together with a bound: every  *)
(* broadcast on its way carries a number the room has handed out, so the   *)
(* next one, numbered above all of them, may go behind them.               *)
(***************************************************************************)

InOrder(messages) ==
    \A i, j \in DOMAIN messages :
        (i < j /\ messages[i].type = "push" /\ messages[j].type = "push") =>
            messages[i].seq <= messages[j].seq

UpTo(messages, n) ==
    \A i \in DOMAIN messages : messages[i].type = "push" => messages[i].seq <= n

OrderInv ==
    /\ RoomTypeOK
    /\ \A conn \in Conn : InOrder(inbox[conn]) /\ UpTo(inbox[conn], sequence_number)

\* Messages whose broadcasts all carry one new number may follow older ones, as
\* many of them as fit.
LEMMA OrderKept ==
    ASSUME NEW old \in Seq(Message), NEW new \in Seq(Message), NEW n \in Nat, NEW m \in Nat,
           InOrder(old), UpTo(old, n), n <= m,
           \A i \in DOMAIN new : new[i].type = "push" => new[i].seq = m
    PROVE  InOrder(Offer(old, new)) /\ UpTo(Offer(old, new), m)
<1> DEFINE both == old \o new
<1>1. /\ both \in Seq(Message)
      /\ Len(both) = Len(old) + Len(new)
      /\ Len(old) \in Nat /\ Len(new) \in Nat
      /\ \A i \in 1 .. Len(old) + Len(new) :
            both[i] = IF i <= Len(old) THEN old[i] ELSE new[i - Len(old)]
  BY ConcatProperties, LenProperties
<1>2. /\ DOMAIN both = 1 .. Len(old) + Len(new)
      /\ DOMAIN old = 1 .. Len(old)
      /\ DOMAIN new = 1 .. Len(new)
  BY <1>1, LenProperties
<1> HIDE DEF both
<1>3. ASSUME NEW i \in DOMAIN both
      PROVE  \/ i \in DOMAIN old /\ both[i] = old[i]
             \/ i > Len(old) /\ i - Len(old) \in DOMAIN new /\ both[i] = new[i - Len(old)]
  BY <1>1, <1>2
<1>4. ASSUME NEW i \in DOMAIN old, old[i].type = "push"
      PROVE  old[i].seq \in Nat /\ old[i].seq <= m
  <2>1. old[i] \in Message
    BY ElementOfSeq, <1>2
  <2>2. old[i].seq \in Nat
    BY <2>1, <1>4 DEF Message, PongMessage
  <2> QED BY <1>4, <2>2 DEF UpTo
<1>5. UpTo(both, m)
  BY <1>3, <1>4 DEF UpTo
<1>6. ASSUME NEW i \in DOMAIN both, NEW j \in DOMAIN both,
             i < j, both[i].type = "push", both[j].type = "push"
      PROVE  both[i].seq <= both[j].seq
  <2>1. CASE j \in DOMAIN old /\ both[j] = old[j]
    <3>1. i \in DOMAIN old /\ both[i] = old[i]
      BY <1>1, <1>2, <1>3, <1>6, <2>1
    <3> QED BY <1>6, <2>1, <3>1 DEF InOrder
  <2>2. CASE j > Len(old) /\ j - Len(old) \in DOMAIN new /\ both[j] = new[j - Len(old)]
    <3>1. both[j].seq = m
      BY <1>6, <2>2
    <3> QED BY <1>3, <1>4, <1>6, <3>1
  <2> QED BY <1>3, <2>1, <2>2
<1>7. \A i \in DOMAIN Offer(old, new) : i \in DOMAIN both /\ Offer(old, new)[i] = both[i]
  BY OfferFacts DEF both
<1> QED BY <1>5, <1>6, <1>7 DEF InOrder, UpTo

\* Messages that are no broadcasts disturb nothing.
LEMMA OrderKeptByOthers ==
    ASSUME NEW old \in Seq(Message), NEW new \in Seq(Message), NEW n \in Nat,
           InOrder(old), UpTo(old, n), \A i \in DOMAIN new : new[i].type # "push"
    PROVE  InOrder(Offer(old, new)) /\ UpTo(Offer(old, new), n)
<1>1. n <= n
  OBVIOUS
<1>2. \A i \in DOMAIN new : new[i].type = "push" => new[i].seq = n
  OBVIOUS
<1> QED BY <1>1, <1>2, OrderKept

LEMMA OrderStep ==
    ASSUME OrderInv, RoomTypeOK', [RoomNext]_roomVars
    PROVE  OrderInv'
<1> SUFFICES ASSUME NEW c \in Conn
             PROVE  InOrder(inbox'[c]) /\ UpTo(inbox'[c], sequence_number')
  BY DEF OrderInv
<1>1. /\ InOrder(inbox[c]) /\ UpTo(inbox[c], sequence_number)
      /\ inbox[c] \in Seq(Message) /\ sequence_number \in Nat
  BY DEF OrderInv, RoomTypeOK, StoreTypeOK
<1>2. inbox[c] = inbox'[c] /\ sequence_number = sequence_number'
      => InOrder(inbox'[c]) /\ UpTo(inbox'[c], sequence_number')
  BY <1>1
<1>3. CASE UNCHANGED roomVars
  BY <1>2, <1>3 DEF roomVars, connVars, storeVars
<1>4. ASSUME NEW conn \in Conn, Connect(conn)
      PROVE  InOrder(inbox'[c]) /\ UpTo(inbox'[c], sequence_number')
  BY <1>2, <1>4 DEF Connect, storeVars
<1>5. ASSUME NEW conn \in Conn, ConnectDebug(conn)
      PROVE  InOrder(inbox'[c]) /\ UpTo(inbox'[c], sequence_number')
  <2>1. PICK order \in SetToSeqs({key \in Key : subjects[key] # <<>>}) :
            inbox' = [inbox EXCEPT ![conn] =
                         Offer(<<>>, [i \in DOMAIN order |->
                                         InitMessage(order[i], subjects[order[i]])])]
    BY <1>5 DEF ConnectDebug
  <2> DEFINE first == [i \in DOMAIN order |-> InitMessage(order[i], subjects[order[i]])]
  <2>2. first \in Seq(Message) /\ \A i \in DOMAIN first : first[i].type = "init"
    BY FirstStreamsFacts DEF OrderInv
  <2>3. inbox'[c] = IF c = conn THEN Offer(<<>>, first) ELSE inbox[c]
    BY <2>1 DEF OrderInv, RoomTypeOK
  <2> HIDE DEF first
  <2>4. InOrder(<<>>) /\ UpTo(<<>>, sequence_number)
    BY DEF InOrder, UpTo
  <2>5. \A i \in DOMAIN first : first[i].type # "push"
    BY <2>2
  <2>6. InOrder(Offer(<<>>, first)) /\ UpTo(Offer(<<>>, first), sequence_number)
    BY <1>1, <2>2, <2>4, <2>5, EmptySeq, OrderKeptByOthers
  <2>7. sequence_number' = sequence_number
    BY <1>5 DEF ConnectDebug, storeVars
  <2> QED BY <1>1, <2>3, <2>6, <2>7
<1>6. ASSUME NEW conn \in Conn, Drop(conn)
      PROVE  InOrder(inbox'[c]) /\ UpTo(inbox'[c], sequence_number')
  <2>1. inbox'[c] = (IF c = conn THEN <<>> ELSE inbox[c]) /\ sequence_number' = sequence_number
    BY <1>6 DEF Drop, storeVars, OrderInv, RoomTypeOK
  <2> QED BY <1>1, <2>1 DEF InOrder, UpTo
\* An answer that is no broadcast disturbs nothing.
<1>7. ASSUME NEW conn \in Conn, NEW answer \in Message, answer.type # "push",
             inbox' = [inbox EXCEPT ![conn] = Offer(@, <<answer>>)],
             sequence_number' = sequence_number
      PROVE  InOrder(inbox'[c]) /\ UpTo(inbox'[c], sequence_number')
  <2>1. inbox'[c] = IF c = conn THEN Offer(inbox[c], <<answer>>) ELSE inbox[c]
    BY <1>7 DEF OrderInv, RoomTypeOK
  <2> DEFINE new == <<answer>>
  <2>2. new \in Seq(Message) /\ \A i \in DOMAIN new : new[i].type # "push"
    BY <1>7
  <2> HIDE DEF new
  <2>3. InOrder(Offer(inbox[c], new)) /\ UpTo(Offer(inbox[c], new), sequence_number)
    BY <1>1, <2>2, OrderKeptByOthers
  <2> QED BY <1>1, <1>7, <2>1, <2>3 DEF new
<1>8. ASSUME NEW conn \in Conn, Ping(conn)
      PROVE  InOrder(inbox'[c]) /\ UpTo(inbox'[c], sequence_number')
  <2>1. PongMessage \in Message /\ PongMessage.type # "push"
    BY DEF Message, PongMessage
  <2>2. inbox' = [inbox EXCEPT ![conn] = Offer(@, <<PongMessage>>)] /\ sequence_number' = sequence_number
    BY <1>8 DEF Ping, storeVars
  <2> QED BY <1>7, <2>1, <2>2
<1>9. ASSUME NEW conn \in Conn, NEW key \in Key, NEW seq \in {NoSeq} \cup 0 .. sequence_number,
             Get(conn, key, seq)
      PROVE  InOrder(inbox'[c]) /\ UpTo(inbox'[c], sequence_number')
  <2> DEFINE answer == InitMessage(key, Read(key, seq))
  <2>1. sequence_number' = sequence_number
    BY <1>9 DEF Get, storeVars
  <2>2. CASE seq = NoSeq
    BY <1>2, <1>9, <2>1, <2>2 DEF Get
  <2>3. CASE seq # NoSeq
    <3>1. seq \in Nat /\ subjects[key] \in Seq(SequenceValue)
      BY <1>1, <1>9, <2>3 DEF OrderInv, RoomTypeOK, StoreTypeOK
    <3>2. answer \in Message /\ answer.type # "push"
      BY <3>1, RetainAfterFacts DEF Read, InitMessage, Message
    <3>3. inbox' = [inbox EXCEPT ![conn] = Offer(@, <<answer>>)]
      BY <1>9, <2>3 DEF Get
    <3> QED BY <1>7, <2>1, <3>2, <3>3
  <2> QED BY <2>2, <2>3
<1>10. ASSUME NEW sender \in Conn, NEW key \in Key, NEW value \in Value,
              NEW action \in ClientAction(sequence_number), Push(sender, key, value, action)
       PROVE  InOrder(inbox'[c]) /\ UpTo(inbox'[c], sequence_number')
  <2> DEFINE new == PushDeliveries(c, sender, key, value, action, subjects'[key])
  <2>1. subjects'[key] \in Seq(SequenceValue)
    BY DEF RoomTypeOK, StoreTypeOK
  <2>2. new \in Seq(Message) /\ \A i \in DOMAIN new : new[i].type = "push" =>
            new[i].seq = Stamp(action) /\ Broadcasts(action)
    BY <2>1, PushDeliveriesFacts DEF OrderInv
  <2>3. inbox'[c] = Offer(inbox[c], new)
    BY <1>10 DEF Push
  <2> HIDE DEF new
  <2>4. sequence_number' = SequenceAfter(action, sequence_number)
    BY <1>10 DEF Push, ApplyAction
  <2>5. sequence_number' \in Nat /\ sequence_number <= sequence_number'
    BY <1>1, <2>4 DEF SequenceAfter
  <2>6. Broadcasts(action) => Stamp(action) = sequence_number'
    BY <2>4 DEF Broadcasts, Stamp, StampOf, SequenceAfter
  <2>7. \A i \in DOMAIN new : new[i].type = "push" => new[i].seq = sequence_number'
    BY <2>2, <2>6
  <2> QED BY <1>1, <2>2, <2>3, <2>5, <2>7, OrderKept
<1> QED BY <1>3, <1>4, <1>5, <1>6, <1>8, <1>9, <1>10 DEF RoomNext

LEMMA OrderInvariant == RoomSpec => []OrderInv
<1>1. RoomInit => OrderInv
  <2>1. InOrder(<<>>) /\ \A n : UpTo(<<>>, n)
    BY DEF InOrder, UpTo
  <2> QED BY <2>1, RoomTypeInit DEF OrderInv, RoomInit
<1>2. OrderInv /\ RoomTypeOK' /\ [RoomNext]_roomVars => OrderInv'
  BY OrderStep
<1> QED BY <1>1, <1>2, RoomTypeCorrect, PTL DEF RoomSpec

\* Broadcasts wait for each connection in the order of their numbers, however
\* many connections push, relay, subscribe or come and go, and however small
\* the channel (data-model.md: "Each client will receive every message sent in
\* a room while they are connected, in the same order"; of the first half this
\* says nothing).
THEOREM PushesStayInOrder == RoomSpec => []PushesInOrder
<1>1. OrderInv => PushesInOrder
  BY DEF OrderInv, InOrder, PushesInOrder
<1> QED BY <1>1, OrderInvariant, PTL
=============================================================================
