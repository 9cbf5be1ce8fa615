---------------------------- MODULE DataInduction ----------------------------
(***************************************************************************)
(* Induction over data, in the form a first-order prover can use.  The     *)
(* library's induction theorems take the induction hypothesis as an        *)
(* operator; here it is a set, and "P holds of every n" is                 *)
(* Nat \subseteq {n \in Nat : P(n)}.  Everything rests on the library's    *)
(* WFMin, which speaks of sets already.                                    *)
(*                                                                         *)
(* Recursion gives that a recursive function is what its definition says:  *)
(* TLA+ takes it for the function CHOOSEn to satisfy its equation, so a    *)
(* proof about it begins with a function that does.                        *)
(***************************************************************************)
EXTENDS Integers, Sequences, SequencesExt, SequenceTheorems, WellFoundedInduction, TLAPS

LessPairs == {p \in Nat \X Nat : p[1] < p[2]}

(* A set of naturals that is not empty has a least element *)
LEMMA LeastOf ==
  ASSUME NEW T, T \subseteq Nat, T # {}
  PROVE  \E x \in T : \A y \in T : x <= y
<1>1. IsWellFoundedOn(LessPairs, Nat)
  BY NatLessThanWellFounded DEF OpToRel, LessPairs
<1>2. \E x \in T : \A y \in T : ~(<<y, x>> \in LessPairs)
  BY <1>1, WFMin
<1>3. \A x, y \in T : ~(<<y, x>> \in LessPairs) => x <= y
  BY DEF LessPairs
<1>4. QED BY <1>2, <1>3

(* Induction over the naturals *)
LEMMA SetInduction ==
  ASSUME NEW T, 0 \in T, \A n \in Nat : n \in T => n + 1 \in T
  PROVE  Nat \subseteq T
<1> SUFFICES ASSUME ~(Nat \subseteq T) PROVE FALSE
  OBVIOUS
<1>1. PICK x \in Nat \ T : \A y \in Nat \ T : x <= y
  <2>1. Nat \ T \subseteq Nat /\ Nat \ T # {}
    OBVIOUS
  <2>2. QED BY <2>1, LeastOf
<1>2. x - 1 \in Nat /\ x - 1 \in T
  BY <1>1
<1>3. QED BY <1>1, <1>2

(* Induction over sequences, from the front *)
LEMMA AppendInduction ==
  ASSUME NEW S, NEW T, << >> \in T,
         \A s \in Seq(S), e \in S : s \in T => Append(s, e) \in T
  PROVE  Seq(S) \subseteq T
<1> DEFINE Good == {n \in Nat : \A s \in Seq(S) : Len(s) = n => s \in T}
<1>1. 0 \in Good
  <2>1. \A s \in Seq(S) : Len(s) = 0 => s = << >>
    BY EmptySeq
  <2>2. QED BY <2>1
<1>2. ASSUME NEW n \in Nat, n \in Good PROVE n + 1 \in Good
  <2> SUFFICES ASSUME NEW s \in Seq(S), Len(s) = n + 1 PROVE s \in T
    OBVIOUS
  <2>1. s # << >>
    OBVIOUS
  <2>2. PICK r \in Seq(S), e \in S : s = Append(r, e)
    BY <2>1, SequenceEmptyOrAppend
  <2>3. Len(r) = n
    BY <2>2, AppendProperties, LenProperties
  <2>4. QED BY <1>2, <2>2, <2>3
<1> HIDE DEF Good
<1>3. Nat \subseteq Good
  BY <1>1, <1>2, SetInduction
<1>4. QED BY <1>3, LenProperties DEF Good

-----------------------------------------------------------------------------
(* A function that is defined at d from its value at next[d], a step nearer *)
(* to `done', exists; rank counts the steps                                 *)
Descends(D, V, done, base, next, step, rank, N) ==
  /\ base \in [D -> V] /\ next \in [D -> D] /\ step \in [D -> [V -> V]]
  /\ rank \in [D -> Nat] /\ N \in Nat /\ \A d \in D : rank[d] <= N
  /\ \A d \in D \ done : rank[next[d]] < rank[d]

LEMMA Recursion ==
  ASSUME NEW D, NEW V, NEW done, NEW base, NEW next, NEW step, NEW rank, NEW N,
         Descends(D, V, done, base, next, step, rank, N)
  PROVE  \E f \in [D -> V] :
           \A d \in D : f[d] = IF d \in done THEN base[d] ELSE step[d][f[next[d]]]
<1> DEFINE Body(f, d) == IF d \in done THEN base[d] ELSE step[d][f[next[d]]]
           Good == {n \in Nat : \E f \in [D -> V] :
                                  \A d \in D : rank[d] < n => f[d] = Body(f, d)}
<1> USE DEF Descends
<1>1. 0 \in Good
  <2>1. base \in [D -> V] /\ \A d \in D : ~(rank[d] < 0)
    OBVIOUS
  <2>2. QED BY <2>1
<1>2. ASSUME NEW n \in Nat, n \in Good PROVE n + 1 \in Good
  <2>1. PICK f \in [D -> V] : \A d \in D : rank[d] < n => f[d] = Body(f, d)
    BY <1>2
  <2> DEFINE g == [d \in D |-> Body(f, d)]
  <2>2. \A d \in D : g[d] = Body(f, d) /\ g[d] \in V
    OBVIOUS
  <2>3. g \in [D -> V]
    BY <2>2
  <2>4. ASSUME NEW d \in D, rank[d] < n + 1 PROVE g[d] = Body(g, d)
    <3>1. CASE d \in done
      BY <3>1, <2>2
    <3>2. CASE d \notin done
      <4>1. next[d] \in D /\ rank[next[d]] < n
        BY <3>2, <2>4
      <4>2. g[next[d]] = f[next[d]]
        BY <4>1, <2>1, <2>2
      <4>3. QED BY <3>2, <2>2, <4>2
    <3>3. QED BY <3>1, <3>2
  <2> HIDE DEF g
  <2>5. QED BY <2>3, <2>4
<1> HIDE DEF Good
<1>3. N + 1 \in Good
  BY <1>1, <1>2, SetInduction
<1>4. PICK f \in [D -> V] : \A d \in D : rank[d] < N + 1 => f[d] = Body(f, d)
  BY <1>3 DEF Good
<1>5. \A d \in D : f[d] = Body(f, d)
  BY <1>4
<1>6. QED BY <1>5

(* A function that hands d on to next[d], over any set of states, as long as *)
(* rank falls at each step                                                  *)
Descent(D, V, stop, base, next, rank, N) ==
  /\ base \in [D -> V] /\ next \in [D -> D] /\ rank \in [D -> Nat] /\ N \in Nat
  /\ \A d \in D : rank[d] <= N
  /\ \A d \in D : d \notin stop => rank[next[d]] < rank[d]

LEMMA DescentExists ==
  ASSUME NEW D, NEW V, NEW stop, NEW base, NEW next, NEW rank, NEW N,
         Descent(D, V, stop, base, next, rank, N)
  PROVE  \E f \in [D -> V] : \A d \in D : f[d] = IF d \in stop THEN base[d] ELSE f[next[d]]
<1> DEFINE step == [d \in D |-> [v \in V |-> v]]
<1>1. step \in [D -> [V -> V]]
  OBVIOUS
<1>2. \A d \in D, v \in V : step[d][v] = v
  OBVIOUS
<1> HIDE DEF step
<1>3. Descends(D, V, stop, base, next, step, rank, N)
  BY <1>1 DEF Descends, Descent
<1>4. PICK f \in [D -> V] : \A d \in D : f[d] = IF d \in stop THEN base[d] ELSE step[d][f[next[d]]]
  BY ONLY <1>3, Recursion
<1>5. \A d \in D : step[d][f[next[d]]] = f[next[d]]
  BY <1>2, <1>4 DEF Descent
<1>6. \A d \in D : f[d] = IF d \in stop THEN base[d] ELSE f[next[d]]
  BY ONLY <1>4, <1>5, Zenon
<1>7. QED BY ONLY <1>4, <1>6, Zenon

(* A function that is defined at i from its value at i - 1 *)
Forth(m, V, v0, step) == m \in Nat /\ v0 \in V /\ step \in [1..m -> [V -> V]]

LEMMA ForthExists ==
  ASSUME NEW m, NEW V, NEW v0, NEW step, Forth(m, V, v0, step)
  PROVE  \E f \in [1..m -> V] : \A i \in 1..m : f[i] = IF i = 1 THEN v0 ELSE step[i][f[i - 1]]
<1> DEFINE D == 1..m
           base == [i \in D |-> v0]
           next == [i \in D |-> IF i = 1 THEN 1 ELSE i - 1]
           rank == [i \in D |-> i]
<1>0. m \in Nat /\ v0 \in V /\ step \in [1..m -> [V -> V]]
  BY DEF Forth
<1>1. base \in [D -> V] /\ (\A i \in D : base[i] = v0)
  BY <1>0
<1>2. next \in [D -> D] /\ (\A i \in D : i # 1 => next[i] = i - 1)
  BY <1>0
<1>3. rank \in [D -> Nat] /\ (\A i \in D : rank[i] <= m) /\ \A i \in D \ {1} : rank[next[i]] < rank[i]
  <2>1. \A i \in D : rank[i] = i
    BY <1>0
  <2>2. \A i \in D \ {1} : next[i] \in D /\ next[i] < i
    BY <1>0, <1>2
  <2> HIDE DEF next
  <2>3. QED BY <1>0, <2>1, <2>2
<1>4. step \in [D -> [V -> V]]
  BY <1>0
<1> HIDE DEF base, next, rank, D
<1>5. Descends(D, V, {1}, base, next, step, rank, m)
  BY ONLY <1>0, <1>1, <1>2, <1>3, <1>4 DEF Descends
<1>6. PICK f \in [D -> V] : \A i \in D : f[i] = IF i \in {1} THEN base[i] ELSE step[i][f[next[i]]]
  BY ONLY <1>5, Recursion
<1>7. \A i \in D : f[i] = IF i = 1 THEN v0 ELSE step[i][f[i - 1]]
  BY ONLY <1>0, <1>1, <1>2, <1>6
<1>8. QED BY ONLY <1>6, <1>7, Zenon DEF D

(* From j back to i, and from i on to j *)
LEMMA StepBack ==
  ASSUME NEW i \in Nat, NEW j \in Nat, i <= j, NEW T, j \in T, \A k \in i..(j - 1) : k + 1 \in T => k \in T
  PROVE  \A k \in i..j : k \in T
<1> DEFINE S == {d \in Nat : d <= j - i => j - d \in T}
<1>1. 0 \in S
  OBVIOUS
<1>2. ASSUME NEW d \in Nat, d \in S PROVE d + 1 \in S
  <2> SUFFICES ASSUME d + 1 <= j - i PROVE j - (d + 1) \in T
    OBVIOUS
  <2>1. j - (d + 1) \in i..(j - 1) /\ (j - (d + 1)) + 1 = j - d /\ j - d \in T
    BY <1>2
  <2>2. QED BY <2>1
<1> HIDE DEF S
<1>3. Nat \subseteq S
  BY ONLY <1>1, <1>2, SetInduction
<1>4. \A k \in i..j : j - k \in Nat /\ j - k <= j - i /\ j - (j - k) = k
  OBVIOUS
<1>5. QED BY <1>3, <1>4 DEF S

LEMMA StepOn ==
  ASSUME NEW i \in Nat, NEW j \in Nat, i <= j, NEW T, i \in T, \A k \in i..(j - 1) : k \in T => k + 1 \in T
  PROVE  \A k \in i..j : k \in T
<1> DEFINE S == {d \in Nat : d <= j - i => i + d \in T}
<1>1. 0 \in S
  OBVIOUS
<1>2. ASSUME NEW d \in Nat, d \in S PROVE d + 1 \in S
  <2> SUFFICES ASSUME d + 1 <= j - i PROVE i + (d + 1) \in T
    OBVIOUS
  <2>1. i + d \in i..(j - 1) /\ (i + d) + 1 = i + (d + 1) /\ i + d \in T
    BY <1>2
  <2>2. QED BY <2>1
<1> HIDE DEF S
<1>3. Nat \subseteq S
  BY ONLY <1>1, <1>2, SetInduction
<1>4. \A k \in i..j : k - i \in Nat /\ k - i <= j - i /\ i + (k - i) = k
  OBVIOUS
<1>5. QED BY <1>3, <1>4 DEF S

(* Induction from n down to 1, where all that lies behind i may be used *)
LEMMA DownInduction ==
  ASSUME NEW n \in Nat, NEW T,
         \A i \in 1..n : (\A j \in 1..n : j > i => j \in T) => i \in T
  PROVE  1..n \subseteq T
<1> DEFINE Good == {m \in Nat : \A i \in 1..n : n - i < m => i \in T}
<1>1. 0 \in Good
  OBVIOUS
<1>2. ASSUME NEW m \in Nat, m \in Good PROVE m + 1 \in Good
  <2> SUFFICES ASSUME NEW i \in 1..n, n - i < m + 1 PROVE i \in T
    OBVIOUS
  <2>1. \A j \in 1..n : j > i => j \in T
    BY <1>2
  <2>2. QED BY <2>1
<1> HIDE DEF Good
<1>3. n \in Good
  BY <1>1, <1>2, SetInduction
<1>4. QED BY <1>3 DEF Good

(* A walk over the places 1..n: at i it is over and gives base[i], or it    *)
(* gives item[i] and goes on at a later place.  This is how the codecs and  *)
(* scanners read their input.                                               *)
Walk(n, S, stop, base, item, next) ==
  /\ n \in Nat /\ base \in [1..n -> Seq(S)] /\ item \in [1..n -> Seq(S)]
  /\ next \in [1..n -> Int]
  /\ \A i \in (1..n) \ stop : next[i] \in 1..n /\ next[i] > i

LEMMA WalkExists ==
  ASSUME NEW n, NEW S, NEW stop, NEW base, NEW item, NEW next,
         Walk(n, S, stop, base, item, next)
  PROVE  \E f \in [1..n -> Seq(S)] :
           \A i \in 1..n : f[i] = IF i \in stop THEN base[i] ELSE item[i] \o f[next[i]]
<1> DEFINE D    == 1..n
           V    == Seq(S)
           to   == [i \in D |-> IF i \in stop THEN i ELSE next[i]]
           step == [i \in D |-> [v \in V |-> item[i] \o v]]
           rank == [i \in D |-> n - i]
<1> USE DEF Walk
<1>1. base \in [D -> V] /\ to \in [D -> D] /\ rank \in [D -> Nat] /\ n \in Nat /\ \A i \in D : rank[i] <= n
  OBVIOUS
<1>2. step \in [D -> [V -> V]]
  BY ConcatProperties
<1>3. \A i \in D \ stop : rank[to[i]] < rank[i]
  <2> SUFFICES ASSUME NEW i \in D \ stop PROVE rank[to[i]] < rank[i]
    OBVIOUS
  <2>1. to[i] = next[i] /\ next[i] \in D /\ next[i] > i
    OBVIOUS
  <2>2. QED BY <2>1
<1>4. PICK f \in [D -> V] :
        \A i \in D : f[i] = IF i \in stop THEN base[i] ELSE step[i][f[to[i]]]
  <2> HIDE DEF D, V, to, step, rank, Walk
  <2>1. Descends(D, V, stop, base, to, step, rank, n)
    BY <1>1, <1>2, <1>3 DEF Descends
  <2>2. QED BY <2>1, Recursion
<1>5. ASSUME NEW i \in D, i \notin stop PROVE f[i] = item[i] \o f[next[i]]
  <2>1. to[i] = next[i] /\ f[next[i]] \in V
    BY <1>5
  <2>2. f[i] = step[i][f[next[i]]]
    BY <1>4, <1>5, <2>1
  <2>3. \A v \in V : step[i][v] = item[i] \o v
    OBVIOUS
  <2>4. QED BY <2>1, <2>2, <2>3
<1>6. QED BY <1>4, <1>5

(* Whatever satisfies the equation of a walk gives sequences *)
LEMMA WalkType ==
  ASSUME NEW n, NEW S, NEW stop, NEW base, NEW item, NEW next,
         Walk(n, S, stop, base, item, next), NEW f,
         \A i \in 1..n : f[i] = IF i \in stop THEN base[i] ELSE item[i] \o f[next[i]]
  PROVE  \A i \in 1..n : f[i] \in Seq(S)
<1> DEFINE T == {i \in 1..n : f[i] \in Seq(S)}
<1> USE DEF Walk
<1>1. ASSUME NEW i \in 1..n, \A j \in 1..n : j > i => j \in T PROVE i \in T
  <2>1. CASE i \in stop
    BY <2>1
  <2>2. CASE i \notin stop
    <3>1. next[i] \in 1..n /\ next[i] > i
      BY <2>2
    <3>2. f[next[i]] \in Seq(S)
      BY <1>1, <3>1
    <3>3. f[i] = item[i] \o f[next[i]] /\ item[i] \in Seq(S)
      BY <2>2
    <3>4. f[i] \in Seq(S)
      <4> HIDE DEF Walk
      <4>1. QED BY <3>2, <3>3, ConcatProperties
    <3>5. QED BY <3>4
  <2>3. QED BY <2>1, <2>2
<1>2. n \in Nat
  OBVIOUS
<1> HIDE DEF T, Walk
<1>3. 1..n \subseteq T
  BY <1>1, <1>2, DownInduction
<1>4. QED BY <1>3 DEF T

(* Max of some of the numbers 1..n is one of them, and the greatest *)
LEMMA MaxOf ==
  ASSUME NEW n \in Nat, NEW P \in SUBSET (1..n), P # {}
  PROVE  Max(P) \in P /\ \A x \in P : x <= Max(P)
<1> DEFINE T == {n - x : x \in P}
<1>1. T \subseteq Nat /\ T # {}
  <2>1. \A x \in P : x \in Int /\ x <= n
    OBVIOUS
  <2>2. \A x \in P : n - x \in Nat
    BY <2>1
  <2>3. PICK x \in P : TRUE
    OBVIOUS
  <2>4. n - x \in T
    OBVIOUS
  <2>5. QED BY <2>2, <2>4
<1> HIDE DEF T
<1>2. PICK t \in T : \A u \in T : t <= u
  BY <1>1, LeastOf
<1>3. PICK m \in P : t = n - m
  BY <1>2 DEF T
<1>4. \A x \in P : m >= x
  <2> SUFFICES ASSUME NEW x \in P PROVE m >= x
    OBVIOUS
  <2>1. n - x \in T
    BY DEF T
  <2>2. QED BY <1>2, <1>3, <2>1
<1>5. QED BY <1>3, <1>4 DEF Max

-----------------------------------------------------------------------------
(***************************************************************************)
(* FlattenSeq, by its last sequence and by its parts.                      *)
(***************************************************************************)

(* The function inside FlattenSeq: the first i sequences, one behind the    *)
(* other                                                                    *)
Flat(seqs) ==
  CHOOSE flatten : flatten = [i \in 1..Len(seqs) |->
    IF i = 1 THEN seqs[i] ELSE flatten[i-1] \o seqs[i]]

LEMMA FlattenIsFlat ==
  ASSUME NEW seqs, Len(seqs) # 0
  PROVE  FlattenSeq(seqs) = Flat(seqs)[Len(seqs)]
  BY DEF FlattenSeq, Flat

LEMMA FlattenNothing == FlattenSeq(<< >>) = << >>
  BY DEF FlattenSeq

(* Flat satisfies its equation *)
LEMMA FlatEquation ==
  ASSUME NEW S, NEW seqs \in Seq(Seq(S))
  PROVE  /\ Flat(seqs) \in [1..Len(seqs) -> Seq(S)]
         /\ \A i \in 1..Len(seqs) :
              Flat(seqs)[i] = IF i = 1 THEN seqs[i] ELSE Flat(seqs)[i - 1] \o seqs[i]
<1> DEFINE D    == 1..Len(seqs)
           V    == Seq(S)
           base == [i \in D |-> seqs[i]]
           next == [i \in D |-> IF i = 1 THEN 1 ELSE i - 1]
           step == [i \in D |-> [v \in V |-> v \o seqs[i]]]
           rank == [i \in D |-> i]
           done == {1}
<1>1. Len(seqs) \in Nat /\ \A i \in D : seqs[i] \in V
  BY LenProperties
<1>2. base \in [D -> V] /\ next \in [D -> D] /\ rank \in [D -> Nat]
  BY <1>1
<1>3. step \in [D -> [V -> V]]
  BY <1>1, ConcatProperties
<1>4. \A i \in D : rank[i] <= Len(seqs)
  BY <1>1
<1>5. \A i \in D \ done : rank[next[i]] < rank[i]
  BY <1>1
<1>6. PICK f \in [D -> V] :
        \A i \in D : f[i] = IF i \in done THEN base[i] ELSE step[i][f[next[i]]]
  <2> HIDE DEF D, V, base, next, step, rank, done
  <2>1. Descends(D, V, done, base, next, step, rank, Len(seqs))
    BY <1>1, <1>2, <1>3, <1>4, <1>5 DEF Descends
  <2>2. QED BY <2>1, Recursion
<1>7. \A i \in D : f[i] = IF i = 1 THEN seqs[i] ELSE f[i - 1] \o seqs[i]
  <2>1. ASSUME NEW i \in D, i # 1 PROVE f[i] = f[i - 1] \o seqs[i]
    <3>1. next[i] = i - 1 /\ i - 1 \in D
      BY <2>1, <1>1
    <3>2. f[i] = step[i][f[next[i]]]
      BY <1>6, <2>1
    <3>3. QED BY <3>1, <3>2
  <2>2. QED BY <1>6, <2>1
<1>8. f = [i \in D |-> IF i = 1 THEN seqs[i] ELSE f[i - 1] \o seqs[i]]
  BY <1>7
<1>9. Flat(seqs) = [i \in D |-> IF i = 1 THEN seqs[i] ELSE Flat(seqs)[i - 1] \o seqs[i]]
  BY <1>8 DEF Flat
<1>10. \A i \in D : Flat(seqs)[i] = IF i = 1 THEN seqs[i] ELSE Flat(seqs)[i - 1] \o seqs[i]
  BY <1>9
<1> DEFINE Good == {n \in Nat : \A i \in D : i <= n => Flat(seqs)[i] \in V}
<1>11. 0 \in Good
  BY <1>1
<1>12. ASSUME NEW n \in Nat, n \in Good PROVE n + 1 \in Good
  <2> SUFFICES ASSUME n + 1 \in D PROVE Flat(seqs)[n + 1] \in V
    BY <1>12
  <2>1. CASE n = 0
    <3>1. n + 1 = 1
      BY <2>1
    <3>2. QED BY <3>1, <1>1, <1>10
  <2>2. CASE n # 0
    <3>1. n \in D /\ Flat(seqs)[n] \in V
      BY <1>12, <2>2
    <3>2. Flat(seqs)[n + 1] = Flat(seqs)[n] \o seqs[n + 1]
      <4>1. (n + 1) - 1 = n /\ n + 1 # 1
        BY <2>2
      <4>2. QED BY <4>1, <1>10
    <3>3. QED BY <3>1, <3>2, <1>1, ConcatProperties
  <2>3. QED BY <2>1, <2>2
<1> HIDE DEF Good
<1>13. Nat \subseteq Good
  BY <1>11, <1>12, SetInduction
<1>14. \A i \in D : Flat(seqs)[i] \in V
  <2>1. Len(seqs) \in Good
    BY <1>1, <1>13
  <2>2. QED BY <2>1 DEF Good
<1>15. QED BY <1>9, <1>10, <1>14

(* The first sequences of a longer sequence flatten alike *)
LEMMA FlatAppend ==
  ASSUME NEW S, NEW seqs \in Seq(Seq(S)), NEW s \in Seq(S)
  PROVE  \A i \in 1..Len(seqs) : Flat(Append(seqs, s))[i] = Flat(seqs)[i]
<1> DEFINE more == Append(seqs, s)
           Good == {n \in Nat : \A i \in 1..Len(seqs) : i <= n => Flat(more)[i] = Flat(seqs)[i]}
<1>1. /\ more \in Seq(Seq(S)) /\ Len(more) = Len(seqs) + 1 /\ Len(seqs) \in Nat
      /\ \A i \in 1..Len(seqs) : more[i] = seqs[i]
  BY AppendProperties, LenProperties
<1>2. \A i \in 1..Len(seqs) :
        /\ Flat(more)[i] = IF i = 1 THEN seqs[i] ELSE Flat(more)[i - 1] \o seqs[i]
        /\ Flat(seqs)[i] = IF i = 1 THEN seqs[i] ELSE Flat(seqs)[i - 1] \o seqs[i]
  <2> HIDE DEF more
  <2>1. 1..Len(seqs) \subseteq 1..Len(more)
    BY <1>1
  <2>2. \A i \in 1..Len(more) :
          Flat(more)[i] = IF i = 1 THEN more[i] ELSE Flat(more)[i - 1] \o more[i]
    BY <1>1, FlatEquation
  <2>3. \A i \in 1..Len(seqs) :
          Flat(seqs)[i] = IF i = 1 THEN seqs[i] ELSE Flat(seqs)[i - 1] \o seqs[i]
    BY FlatEquation
  <2>4. ASSUME NEW i \in 1..Len(seqs)
        PROVE  Flat(more)[i] = IF i = 1 THEN seqs[i] ELSE Flat(more)[i - 1] \o seqs[i]
    <3>1. i \in 1..Len(more) /\ more[i] = seqs[i]
      BY <1>1, <2>1
    <3>2. QED BY ONLY <2>2, <3>1
  <2>5. QED BY ONLY <2>3, <2>4
<1>3. 0 \in Good
  BY <1>1
<1>4. ASSUME NEW n \in Nat, n \in Good PROVE n + 1 \in Good
  <2> HIDE DEF more
  <2> SUFFICES ASSUME n + 1 \in 1..Len(seqs) PROVE Flat(more)[n + 1] = Flat(seqs)[n + 1]
    <3>1. ASSUME NEW i \in 1..Len(seqs), i <= n + 1 PROVE i <= n \/ i = n + 1
      BY <1>1, <3>1
    <3>2. \A i \in 1..Len(seqs) : i <= n => Flat(more)[i] = Flat(seqs)[i]
      BY <1>4
    <3>3. QED BY <3>1, <3>2
  <2>1. CASE n = 0
    BY <2>1, <1>2
  <2>2. CASE n # 0
    <3>1. n \in 1..Len(seqs) /\ Flat(more)[n] = Flat(seqs)[n]
      BY <1>4, <2>2
    <3>2. (n + 1) - 1 = n /\ n + 1 # 1
      BY <2>2
    <3>3. QED BY <3>1, <3>2, <1>2
  <2>3. QED BY <2>1, <2>2
<1> HIDE DEF Good
<1>5. Nat \subseteq Good
  BY <1>3, <1>4, SetInduction
<1>6. Len(seqs) \in Good
  BY <1>1, <1>5
<1>7. QED BY <1>6 DEF Good

(* One sequence more *)
LEMMA FlattenAppend ==
  ASSUME NEW S, NEW seqs \in Seq(Seq(S)), NEW s \in Seq(S)
  PROVE  /\ FlattenSeq(seqs) \in Seq(S)
         /\ FlattenSeq(Append(seqs, s)) = FlattenSeq(seqs) \o s
<1> DEFINE more == Append(seqs, s)
<1>1. more \in Seq(Seq(S)) /\ Len(more) = Len(seqs) + 1 /\ Len(seqs) \in Nat /\ more[Len(seqs) + 1] = s
  BY AppendProperties, LenProperties
<1>2. FlattenSeq(seqs) \in Seq(S)
  <2>1. CASE Len(seqs) = 0
    BY <2>1, FlattenNothing, EmptySeq
  <2>2. CASE Len(seqs) # 0
    BY <2>2, <1>1, FlattenIsFlat, FlatEquation
  <2>3. QED BY <2>1, <2>2
<1>3. FlattenSeq(more) = Flat(more)[Len(seqs) + 1]
  <2> HIDE DEF more
  <2>1. Len(more) # 0
    BY <1>1
  <2>2. QED BY <1>1, <2>1, FlattenIsFlat
<1>4. CASE Len(seqs) = 0
  <2>1. seqs = << >>
    BY <1>4, EmptySeq
  <2>2. Flat(more)[1] = s
    <3> HIDE DEF more
    <3>1. QED BY <1>1, <1>4, FlatEquation
  <2>3. FlattenSeq(seqs) \o s = s
    BY <2>1, FlattenNothing, ConcatEmptySeq
  <2>4. QED BY <1>2, <1>3, <1>4, <2>2, <2>3
<1>5. CASE Len(seqs) # 0
  <2>1. Flat(more)[Len(seqs) + 1] = Flat(more)[Len(seqs)] \o s
    <3> HIDE DEF more
    <3>1. Len(seqs) + 1 \in 1..Len(more) /\ (Len(seqs) + 1) - 1 = Len(seqs) /\ Len(seqs) + 1 # 1
      BY <1>1, <1>5
    <3>2. QED BY <1>1, <3>1, FlatEquation
  <2>2. Flat(more)[Len(seqs)] = Flat(seqs)[Len(seqs)]
    BY <1>1, <1>5, FlatAppend
  <2>3. QED BY <1>2, <1>3, <1>5, <2>1, <2>2, FlattenIsFlat
<1>6. QED BY <1>4, <1>5

LEMMA FlattenType ==
  ASSUME NEW S, NEW seqs \in Seq(Seq(S))
  PROVE  FlattenSeq(seqs) \in Seq(S)
  BY FlattenAppend, EmptySeq

(* Two halves *)
LEMMA FlattenConcat ==
  ASSUME NEW S, NEW a \in Seq(Seq(S)), NEW b \in Seq(Seq(S))
  PROVE  FlattenSeq(a \o b) = FlattenSeq(a) \o FlattenSeq(b)
<1> DEFINE T == {t \in Seq(Seq(S)) : FlattenSeq(a \o t) = FlattenSeq(a) \o FlattenSeq(t)}
<1>1. << >> \in T
  BY FlattenNothing, FlattenType, ConcatEmptySeq, EmptySeq
<1>2. ASSUME NEW t \in Seq(Seq(S)), NEW s \in Seq(S), t \in T PROVE Append(t, s) \in T
  <2>1. a \o t \in Seq(Seq(S)) /\ Append(t, s) \in Seq(Seq(S))
    BY ConcatProperties, AppendProperties
  <2>2. a \o Append(t, s) = Append(a \o t, s)
    OBVIOUS
  <2>3. FlattenSeq(Append(a \o t, s)) = FlattenSeq(a \o t) \o s
    BY <2>1, FlattenAppend
  <2>4. FlattenSeq(Append(t, s)) = FlattenSeq(t) \o s
    BY FlattenAppend
  <2>5. FlattenSeq(a \o t) = FlattenSeq(a) \o FlattenSeq(t)
    BY <1>2
  <2>6. (FlattenSeq(a) \o FlattenSeq(t)) \o s = FlattenSeq(a) \o (FlattenSeq(t) \o s)
    <3> DEFINE x == FlattenSeq(a)
               y == FlattenSeq(t)
    <3>1. x \in Seq(S) /\ y \in Seq(S) /\ s \in Seq(S)
      BY FlattenType
    <3> HIDE DEF x, y
    <3>2. (x \o y) \o s = x \o (y \o s)
      BY ONLY <3>1, ConcatAssociative
    <3>3. QED BY <3>2 DEF x, y
  <2>7. QED BY <2>1, <2>2, <2>3, <2>4, <2>5, <2>6
<1> HIDE DEF T
<1>3. Seq(Seq(S)) \subseteq T
  BY <1>1, <1>2, AppendInduction
<1>4. QED BY <1>3 DEF T

(* What is left of s when the places before and behind m + 1 .. m + n give nothing *)
LEMMA FlattenWindow ==
  ASSUME NEW S, NEW s \in Seq(S), NEW m \in Nat, NEW n \in Nat, m + n <= Len(s),
         NEW q \in Seq(Seq(S)), Len(q) = Len(s),
         \A i \in 1..Len(s) : q[i] = IF i <= m \/ i > m + n THEN <<>> ELSE <<s[i]>>
  PROVE  FlattenSeq(q) = SubSeq(s, m + 1, m + n)
<1> DEFINE L    == Len(s)
           to(i) == IF i < m THEN m ELSE IF i <= m + n THEN i ELSE m + n
           Good == {j \in Nat : \A i \in 1..L : i <= j => Flat(q)[i] = SubSeq(s, m + 1, to(i))}
<1>1. L \in Nat /\ DOMAIN s = 1..L /\ \A i \in 1..L : s[i] \in S
  OBVIOUS
<1>2. q \in Seq(Seq(S)) /\ Len(q) = L /\ \A i \in 1..L : q[i] = IF i <= m \/ i > m + n THEN <<>> ELSE <<s[i]>>
  OBVIOUS
<1>13. m \in Nat /\ n \in Nat /\ m + n <= L
  OBVIOUS
<1>3. \A i \in 1..L : Flat(q)[i] = IF i = 1 THEN q[i] ELSE Flat(q)[i - 1] \o q[i]
  BY <1>2, FlatEquation
<1>4. SubSeq(s, m + 1, m) = <<>>
  BY SubSeqEmpty
<1>5. \A i \in m..(m + n) : SubSeq(s, m + 1, i) \in Seq(S) /\ Len(SubSeq(s, m + 1, i)) = i - m
  BY <1>1
<1>6. ASSUME NEW i \in 1..L
      PROVE  SubSeq(s, m + 1, to(i)) = SubSeq(s, m + 1, to(i - 1)) \o q[i]
  <2>1. CASE i <= m
    <3>1. to(i) = m /\ to(i - 1) = m
      BY <1>1, <2>1
    <3> HIDE DEF to
    <3>2. q[i] = <<>>
      BY <1>2, <2>1
    <3>3. <<>> \o <<>> = <<>>
      BY EmptySeq, ConcatEmptySeq
    <3>4. QED BY <1>4, <3>1, <3>2, <3>3
  <2>2. CASE i > m /\ i <= m + n
    <3>1. to(i) = i /\ to(i - 1) = i - 1 /\ ~(i <= m \/ i > m + n) /\ i \in Nat /\ i - 1 \in m..(m + n)
      BY <1>1, <2>2
    <3> HIDE DEF to
    <3>2. q[i] = <<s[i]>>
      BY <1>2, <3>1
    <3>3. SubSeq(s, m + 1, i) = SubSeq(s, m + 1, i - 1) \o <<s[i]>>
      BY ONLY <1>13, <2>2, s \in Seq(S), i \in Nat, i <= Len(s)
    <3>4. QED BY <3>1, <3>2, <3>3
  <2>3. CASE i > m + n
    <3>1. to(i) = m + n /\ to(i - 1) = m + n
      BY <1>1, <2>3
    <3> HIDE DEF to
    <3>2. m + n \in m..(m + n)
      OBVIOUS
    <3>3. q[i] = <<>> /\ SubSeq(s, m + 1, m + n) \in Seq(S)
      BY <1>2, <1>5, <2>3, <3>2
    <3>4. QED BY <3>1, <3>3, ConcatEmptySeq
  <2>4. i <= m \/ (i > m /\ i <= m + n) \/ i > m + n
    BY <1>1
  <2> HIDE DEF to
  <2>5. QED BY <2>1, <2>2, <2>3, <2>4
<1>7. 0 \in Good
  OBVIOUS
<1>8. ASSUME NEW j \in Nat, j \in Good PROVE j + 1 \in Good
  <2> SUFFICES ASSUME NEW i \in 1..L, i <= j + 1 PROVE Flat(q)[i] = SubSeq(s, m + 1, to(i))
    OBVIOUS
  <2>1. CASE i = 1
    <3>1. to(0) = m
      BY <1>1
    <3>2. Flat(q)[1] = q[1]
      BY <1>3, <2>1
    <3>3. SubSeq(s, m + 1, to(1)) = SubSeq(s, m + 1, to(0)) \o q[1]
      <4>1. 1 \in 1..L /\ 1 - 1 = 0
        BY <2>1
      <4> HIDE DEF to
      <4>2. QED BY <1>6, <4>1
    <3>4. q[1] \in Seq(S)
      BY <1>2, <2>1
    <3> HIDE DEF to
    <3>5. QED BY <1>4, <2>1, <3>1, <3>2, <3>3, <3>4, ConcatEmptySeq
  <2>2. CASE i # 1
    <3>1. i - 1 \in 1..L /\ i - 1 <= j
      BY <1>1, <2>2
    <3>2. Flat(q)[i - 1] = SubSeq(s, m + 1, to(i - 1))
      BY <1>8, <3>1
    <3>3. Flat(q)[i] = Flat(q)[i - 1] \o q[i]
      BY <1>3, <2>2
    <3> HIDE DEF to
    <3>4. QED BY <1>6, <3>2, <3>3
  <2>3. QED BY <2>1, <2>2
<1>9. L \in Good
  <2> HIDE DEF Good
  <2>1. QED BY <1>1, <1>7, <1>8, SetInduction
<1>10. CASE L = 0
  <2>1. m = 0 /\ n = 0 /\ q = <<>>
    BY <1>1, <1>2, <1>10, EmptySeq
  <2>2. SubSeq(s, m + 1, m + n) = <<>>
    BY <1>4, <2>1
  <2>3. FlattenSeq(q) = <<>>
    BY <2>1, FlattenNothing
  <2>4. QED BY <2>2, <2>3
<1>11. CASE L # 0
  <2>1. FlattenSeq(q) = Flat(q)[L]
    BY <1>2, <1>11, FlattenIsFlat
  <2>2. Flat(q)[L] = SubSeq(s, m + 1, to(L))
    BY <1>1, <1>9, <1>11
  <2>3. to(L) = m + n
    <3> HIDE DEF L
    <3>1. QED BY ONLY <1>1, <1>13
  <2> HIDE DEF to
  <2>4. QED BY <2>1, <2>2, <2>3
<1>12. QED BY <1>10, <1>11

-----------------------------------------------------------------------------
(* The places of two sequences one behind the other *)
LEMMA ConcatPlaces ==
  ASSUME NEW S, NEW s \in Seq(S), NEW t \in Seq(S)
  PROVE  /\ s \o t \in Seq(S) /\ Len(s \o t) = Len(s) + Len(t)
         /\ \A i \in 1..Len(s) : (s \o t)[i] = s[i]
         /\ \A i \in 1..Len(t) : (s \o t)[Len(s) + i] = t[i]
<1>1. Len(s) \in Nat /\ Len(t) \in Nat
  OBVIOUS
<1>2. \A i \in 1..Len(t) : ~(Len(s) + i <= Len(s)) /\ Len(s) + i - Len(s) = i
                           /\ Len(s) + i \in 1..(Len(s) + Len(t))
  BY <1>1
<1>3. \A i \in 1..Len(s) : i <= Len(s) /\ i \in 1..(Len(s) + Len(t))
  BY <1>1
<1>4. QED BY <1>2, <1>3, ConcatProperties

(* One element in front of a sequence *)
LEMMA ConsPlaces ==
  ASSUME NEW S, NEW x \in S, NEW q \in Seq(S)
  PROVE  /\ <<x>> \o q \in Seq(S) /\ Len(<<x>> \o q) = Len(q) + 1 /\ (<<x>> \o q)[1] = x
         /\ \A i \in 1..Len(q) : (<<x>> \o q)[1 + i] = q[i]
  OBVIOUS

LEMMA IsCons ==
  ASSUME NEW S, NEW x \in S, NEW q \in Seq(S), NEW r \in Seq(S),
         Len(r) = Len(q) + 1, r[1] = x, \A i \in 1..Len(q) : r[1 + i] = q[i]
  PROVE  r = <<x>> \o q
<1> DEFINE c == <<x>> \o q
<1>1. c \in Seq(S) /\ Len(c) = Len(q) + 1 /\ c[1] = x /\ \A i \in 1..Len(q) : c[1 + i] = q[i]
  BY ConsPlaces
<1>2. Len(q) \in Nat
  OBVIOUS
<1> HIDE DEF c
<1>3. ASSUME NEW i \in 1..(Len(q) + 1) PROVE c[i] = r[i]
  <2>1. CASE i = 1
    BY <1>1, <2>1
  <2>2. CASE i # 1
    <3>1. PICK k \in 1..Len(q) : i = 1 + k
      <4>1. i - 1 \in 1..Len(q) /\ i = 1 + (i - 1)
        BY <1>2, <2>2
      <4>2. QED BY <4>1
    <3>2. QED BY <1>1, <3>1
  <2>3. QED BY <2>1, <2>2
<1>4. c = r
  BY <1>1, <1>3, SeqEqual
<1>5. QED BY <1>4 DEF c

LEMMA FlattenCons ==
  ASSUME NEW S, NEW x \in Seq(S), NEW q \in Seq(Seq(S))
  PROVE  FlattenSeq(<<x>> \o q) = x \o FlattenSeq(q)
<1>1. <<x>> \in Seq(Seq(S)) /\ <<>> \in Seq(Seq(S)) /\ Append(<<>>, x) = <<x>>
  BY EmptySeq
<1>2. FlattenSeq(Append(<<>>, x)) = FlattenSeq(<<>>) \o x
  BY <1>1, FlattenAppend
<1>3. FlattenSeq(<<x>>) = x
  BY <1>1, <1>2, FlattenNothing, ConcatEmptySeq
<1>4. FlattenSeq(<<x>> \o q) = FlattenSeq(<<x>>) \o FlattenSeq(q)
  BY <1>1, FlattenConcat
<1>5. QED BY <1>3, <1>4

-----------------------------------------------------------------------------
(* A sequence without the elements at the places P: g says where the others *)
(* come to stand, in their order, with nothing between them                 *)
KeptAt(g, s, P, w) ==
  /\ g \in [DOMAIN s \ P -> 1..Len(w)]
  /\ \A i, j \in DOMAIN s \ P : i < j => g[i] < g[j]
  /\ \A k \in 1..Len(w) : \E i \in DOMAIN s \ P : g[i] = k
  /\ \A i \in DOMAIN s \ P : w[g[i]] = s[i]

Pick(s, P) == [i \in DOMAIN s |-> IF i \in P THEN <<>> ELSE <<s[i]>>]

LEMMA KeptExists ==
  ASSUME NEW S, NEW P
  PROVE  \A s \in Seq(S) : /\ Pick(s, P) \in Seq(Seq(S))
                           /\ FlattenSeq(Pick(s, P)) \in Seq(S)
                           /\ \E g : KeptAt(g, s, P, FlattenSeq(Pick(s, P)))
<1> DEFINE T == {s \in Seq(S) : /\ Pick(s, P) \in Seq(Seq(S))
                                /\ FlattenSeq(Pick(s, P)) \in Seq(S)
                                /\ \E g : KeptAt(g, s, P, FlattenSeq(Pick(s, P)))}
<1>1. << >> \in T
  <2>1. << >> \in Seq(S) /\ << >> \in Seq(Seq(S)) /\ DOMAIN << >> = {} /\ Len(<< >>) = 0
    BY EmptySeq
  <2>2. Pick(<< >>, P) = << >>
    BY <2>1 DEF Pick
  <2>3. FlattenSeq(Pick(<< >>, P)) = << >>
    BY <2>2, FlattenNothing
  <2>4. KeptAt([i \in {} |-> 1], << >>, P, << >>)
    BY <2>1 DEF KeptAt
  <2>5. QED BY <2>1, <2>2, <2>3, <2>4
<1>2. ASSUME NEW s \in Seq(S), NEW e \in S, s \in T PROVE Append(s, e) \in T
  <2> DEFINE n   == Len(s)
             t   == Append(s, e)
             one == IF n + 1 \in P THEN <<>> ELSE <<e>>
             q   == Pick(s, P)
             w   == FlattenSeq(q)
             v   == FlattenSeq(Pick(t, P))
  <2>1. /\ n \in Nat /\ DOMAIN s = 1..n /\ t \in Seq(S) /\ Len(t) = n + 1 /\ DOMAIN t = 1..(n + 1)
        /\ (\A i \in 1..n : t[i] = s[i]) /\ t[n + 1] = e
    BY AppendProperties, LenProperties
  <2>2. q \in Seq(Seq(S)) /\ w \in Seq(S) /\ one \in Seq(S) /\ Len(q) = n
    <3>1. Len(q) = n
      BY <2>1 DEF Pick
    <3>2. one \in Seq(S)
      BY EmptySeq
    <3>3. QED BY <1>2, <3>1, <3>2
  <2>3. Pick(t, P) = Append(q, one)
    <3>1. Append(q, one) \in Seq(Seq(S)) /\ Len(Append(q, one)) = n + 1
          /\ (\A i \in 1..n : Append(q, one)[i] = q[i]) /\ Append(q, one)[n + 1] = one
      BY <2>2, AppendProperties
    <3>2. \A i \in 1..n : q[i] = IF i \in P THEN <<>> ELSE <<s[i]>>
      BY <2>1 DEF Pick
    <3> HIDE DEF q, one
    <3>3. ASSUME NEW i \in 1..(n + 1)
          PROVE  Append(q, one)[i] = IF i \in P THEN <<>> ELSE <<t[i]>>
      <4>1. CASE i \in 1..n
        BY <2>1, <3>1, <3>2, <4>1
      <4>2. CASE i = n + 1
        BY <2>1, <3>1, <4>2 DEF one
      <4>3. i \in 1..n \/ i = n + 1
        BY <2>1
      <4>4. QED BY ONLY <4>1, <4>2, <4>3
    <3> DEFINE r == Append(q, one)
    <3>4. r = [i \in 1..(n + 1) |-> r[i]]
      BY <3>1, LenProperties
    <3> HIDE DEF r, t
    <3>5. QED BY <2>1, <3>3, <3>4 DEF Pick, r
  <2>4. Pick(t, P) \in Seq(Seq(S)) /\ v = w \o one /\ v \in Seq(S)
    <3>1. Append(q, one) \in Seq(Seq(S))
      BY <2>2, AppendProperties
    <3> HIDE DEF q, one
    <3>2. FlattenSeq(Append(q, one)) = FlattenSeq(q) \o one
      BY ONLY <2>2, FlattenAppend
    <3>3. QED BY <2>2, <2>3, <3>1, <3>2, ConcatProperties
  <2>5. PICK g : KeptAt(g, s, P, w)
    BY <1>2
  <2> HIDE DEF t, q, w, v
  <2>6. \E h : KeptAt(h, t, P, v)
    <3>1. CASE n + 1 \in P
      <4>1. v = w
        BY <2>2, <2>4, <3>1, ConcatEmptySeq
      <4>2. DOMAIN t \ P = DOMAIN s \ P
        BY <2>1, <3>1
      <4>3. KeptAt(g, t, P, v)
        BY <2>1, <2>5, <4>1, <4>2 DEF KeptAt
      <4>4. QED BY <4>3
    <3>2. CASE n + 1 \notin P
      <4> DEFINE l == Len(w)
                 D == 1..n \ P
                 h == [i \in DOMAIN t \ P |-> IF i = n + 1 THEN l + 1 ELSE g[i]]
      <4>1. l \in Nat /\ v \in Seq(S) /\ Len(v) = l + 1 /\ (\A k \in 1..l : v[k] = w[k]) /\ v[l + 1] = e
        <5>1. one = <<e>> /\ one \in Seq(S) /\ Len(one) = 1 /\ one[1] = e
          BY <3>2
        <5> HIDE DEF one
        <5>2. w \in Seq(S) /\ v = w \o one
          BY <2>2, <2>4
        <5>3. Len(v) = Len(w) + Len(one)
          BY ONLY <5>1, <5>2, ConcatPlaces
        <5>4. \A k \in 1..Len(w) : v[k] = w[k]
          BY ONLY <5>1, <5>2, ConcatPlaces
        <5>5. \A k \in 1..Len(one) : v[Len(w) + k] = one[k]
          BY ONLY <5>1, <5>2, ConcatPlaces
        <5>6. v[l + 1] = one[1]
          BY <5>1, <5>5
        <5>7. QED BY <2>2, <2>4, <5>1, <5>3, <5>4, <5>6, LenProperties
      <4> HIDE DEF l
      <4>2. DOMAIN t \ P = D \cup {n + 1} /\ n + 1 \notin D /\ \A i \in D : i < n + 1
        BY <2>1, <3>2
      <4>3. /\ g \in [D -> 1..l] /\ \A i, j \in D : i < j => g[i] < g[j]
            /\ \A k \in 1..l : \E i \in D : g[i] = k
            /\ \A i \in D : w[g[i]] = s[i]
        BY <2>1, <2>5 DEF KeptAt, l
      <4>4. h[n + 1] = l + 1 /\ \A i \in D : h[i] = g[i]
        BY <4>2
      <4>5. h \in [D \cup {n + 1} -> 1..(l + 1)]
        <5>1. ASSUME NEW i \in D \cup {n + 1} PROVE h[i] \in 1..(l + 1)
          <6>1. CASE i \in D
            <7>1. h[i] = g[i] /\ g[i] \in 1..l
              BY <4>3, <4>4, <6>1
            <7> HIDE DEF h, D
            <7>2. QED BY <4>1, <7>1
          <6>2. CASE i = n + 1
            BY <4>1, <4>4, <6>2
          <6>3. QED BY <6>1, <6>2
        <5>2. QED BY <4>2, <5>1
      <4> HIDE DEF h
      <4>6. ASSUME NEW i \in D \cup {n + 1}, NEW j \in D \cup {n + 1}, i < j PROVE h[i] < h[j]
        <5>1. i \in D
          BY <2>1, <4>2, <4>6
        <5>2. CASE j \in D
          BY <4>3, <4>4, <4>6, <5>1, <5>2
        <5>3. CASE j = n + 1
          BY <4>1, <4>3, <4>4, <5>1, <5>3
        <5>4. QED BY <5>2, <5>3
      <4>7. ASSUME NEW k \in 1..(l + 1) PROVE \E i \in D \cup {n + 1} : h[i] = k
        <5>1. CASE k \in 1..l
          BY <4>3, <4>4, <5>1
        <5>2. CASE k = l + 1
          BY <4>4, <5>2
        <5>3. QED BY <4>1, <5>1, <5>2
      <4>8. ASSUME NEW i \in D \cup {n + 1} PROVE v[h[i]] = t[i]
        <5>1. CASE i \in D
          <6>1. g[i] \in 1..l /\ w[g[i]] = s[i]
            BY <4>3, <5>1
          <6>2. QED BY <2>1, <4>1, <4>4, <5>1, <6>1
        <5>2. CASE i = n + 1
          BY <2>1, <4>1, <4>4, <5>2
        <5>3. QED BY <5>1, <5>2
      <4> HIDE DEF D
      <4>9. KeptAt(h, t, P, v)
        BY <4>1, <4>2, <4>5, <4>6, <4>7, <4>8 DEF KeptAt
      <4>10. QED BY <4>9
    <3>3. QED BY <3>1, <3>2
  <2>7. QED BY <2>1, <2>4, <2>6 DEF t, v
<1> HIDE DEF T
<1>3. Seq(S) \subseteq T
  BY <1>1, <1>2, AppendInduction
<1>4. QED BY <1>3 DEF T

(* Neighbours among the kept *)
LEMMA KeptNext ==
  ASSUME NEW S, NEW s \in Seq(S), NEW P, NEW w \in Seq(S), NEW g, KeptAt(g, s, P, w),
         NEW i \in DOMAIN s \ P, NEW j \in DOMAIN s \ P
  PROVE  g[j] = g[i] + 1 <=> i < j /\ \A k \in (i + 1)..(j - 1) : k \in P
<1> DEFINE D == DOMAIN s \ P
<1>1. D \subseteq Nat /\ Len(w) \in Nat /\ i \in D /\ j \in D /\ DOMAIN s = 1..Len(s) /\ Len(s) \in Nat
  BY LenProperties
<1>2. /\ \A a \in D : g[a] \in 1..Len(w)
      /\ \A a, b \in D : a < b => g[a] < g[b]
      /\ \A k \in 1..Len(w) : \E a \in D : g[a] = k
  BY DEF KeptAt
<1>0. /\ i \in Nat /\ j \in Nat /\ g[i] \in Nat /\ g[j] \in Nat
      /\ g[i] \in 1..Len(w) /\ g[j] \in 1..Len(w)
  <2>1. g[i] \in 1..Len(w) /\ g[j] \in 1..Len(w)
    BY <1>1, <1>2
  <2>2. QED BY <1>1, <2>1
<1> HIDE DEF D
<1>3. ASSUME g[j] = g[i] + 1 PROVE i < j /\ \A k \in (i + 1)..(j - 1) : k \in P
  <2>1. i < j
    <3>1. j # i
      BY <1>0, <1>3
    <3>2. ASSUME j < i PROVE FALSE
      <4>1. g[j] < g[i]
        BY ONLY <1>1, <1>2, <3>2
      <4>2. QED BY ONLY <1>0, <1>3, <4>1
    <3>3. QED BY <1>0, <3>1, <3>2
  <2>2. ASSUME NEW k \in (i + 1)..(j - 1), k \notin P PROVE FALSE
    <3>1. k \in D /\ i < k /\ k < j
      BY <1>0, <1>1, <2>2 DEF D
    <3>2. g[i] < g[k] /\ g[k] < g[j]
      BY ONLY <1>1, <1>2, <3>1
    <3>3. g[k] \in Nat
      <4>1. g[k] \in 1..Len(w)
        BY <1>2, <3>1
      <4>2. QED BY <1>1, <4>1
    <3>4. QED BY ONLY <1>0, <1>3, <3>2, <3>3
  <2>3. QED BY <2>1, <2>2
<1>4. ASSUME i < j, \A k \in (i + 1)..(j - 1) : k \in P PROVE g[j] = g[i] + 1
  <2>0. g[i] < g[j]
    BY <1>1, <1>2, <1>4
  <2>1. PICK k \in D : g[k] = g[i] + 1
    <3>1. g[i] + 1 \in 1..Len(w)
      BY <1>0, <1>1, <2>0
    <3>2. QED BY <1>2, <3>1
  <2>2. k \in Nat /\ k \notin P
    BY <1>1, <2>1 DEF D
  <2>3. ASSUME k < i PROVE FALSE
    <3>1. g[k] < g[i]
      BY <1>1, <1>2, <2>1, <2>3
    <3>2. QED BY <1>0, <2>1, <3>1
  <2>4. ASSUME j < k PROVE FALSE
    <3>1. g[j] < g[k]
      BY <1>1, <1>2, <2>1, <2>4
    <3>2. QED BY <1>0, <2>0, <2>1, <3>1
  <2>5. k # i
    BY <1>0, <2>1
  <2>6. ASSUME i < k, k < j PROVE FALSE
    <3>1. k \in (i + 1)..(j - 1)
      BY <1>0, <2>2, <2>6
    <3>2. QED BY <1>4, <2>2, <3>1
  <2>7. k = j
    BY <1>0, <2>2, <2>3, <2>4, <2>5, <2>6
  <2>8. QED BY <2>1, <2>7
<1>5. QED BY <1>3, <1>4

=============================================================================
