---------------------------- MODULE ProbePlanProofs ----------------------------
(***************************************************************************)
(* The plan of generate_plan (engines/testing/planner.py) is sound for any *)
(* package, findings, examples and number of slots.                        *)
(***************************************************************************)
EXTENDS MCAssurance, FiniteSetTheorems, SequenceTheorems, WellFoundedInduction, TLAPS

-----------------------------------------------------------------------------
(* Folds over the indices of a list, which the community modules define by *)
(* recursion over sets of indices.                                         *)

\* Induction over the natural numbers, with the set of those that have it.
LEMMA Counting ==
    ASSUME NEW S, 0 \in S, \A n \in Nat : n \in S => n + 1 \in S
    PROVE  Nat \subseteq S
<1> DEFINE rest == Nat \ S
<1>1. SUFFICES ASSUME rest # {} PROVE FALSE
    OBVIOUS
<1>2. PICK x \in rest : \A y \in rest : ~ (<<y, x>> \in OpToRel(<, Nat))
    BY <1>1, NatLessThanWellFounded, WFMin
<1>3. x \in Nat /\ x # 0 /\ x - 1 \in Nat
    OBVIOUS
<1>4. <<x - 1, x>> \in OpToRel(<, Nat)
    BY <1>3 DEF OpToRel
<1>5. x - 1 \in S
    BY <1>2, <1>3, <1>4
<1>6. x - 1 + 1 = x
    BY <1>3
<1> QED
    BY <1>3, <1>5, <1>6

Top(s) == IF s = {} THEN 0 ELSE Max(s)

\* The largest index of a set, or 0, and what is left without it.
LEMMA TopOf ==
    ASSUME NEW n \in Nat, NEW s \in SUBSET (1 .. n)
    PROVE  /\ Top(s) \in 0 .. n
           /\ s # {} => /\ Max(s) = Top(s) /\ Max(s) \in s
                        /\ s \ {Max(s)} \in SUBSET (1 .. Max(s) - 1)
           /\ s = 1 .. n => Top(s) = n
<1>1. CASE s = {}
    BY <1>1 DEF Top
<1>2. CASE s # {}
    <2>1. \A x \in s : x \in Nat /\ x <= n
        OBVIOUS
    <2> DEFINE bounds == {b \in Nat : \E x \in s : b + x = n}
    <2>2. PICK m \in s : \A x \in s : m >= x
        <3>1. bounds \in SUBSET Nat /\ bounds # {}
            <4>1. PICK x \in s : TRUE
                BY <1>2
            <4>2. n - x \in bounds
                BY <2>1
            <4> QED
                BY <4>2
        <3>2. PICK b \in bounds : \A y \in bounds : ~ (<<y, b>> \in OpToRel(<, Nat))
            BY <3>1, NatLessThanWellFounded, WFMin
        <3>3. PICK m \in s : b + m = n
            OBVIOUS
        <3>4. ASSUME NEW x \in s, m < x PROVE FALSE
            <4>1. n - x \in bounds /\ n - x < b /\ b \in Nat /\ n - x \in Nat
                BY <2>1, <3>3, <3>4
            <4>2. <<n - x, b>> \in OpToRel(<, Nat)
                BY <4>1 DEF OpToRel
            <4> QED
                BY <3>2, <4>1, <4>2
        <3> QED
            BY <2>1, <3>4
    <2>3. Max(s) \in s /\ \A x \in s : Max(s) >= x
        BY <2>2 DEF Max
    <2> DEFINE top == Max(s)
    <2>4. top \in 1 .. n /\ Top(s) = top
        BY <1>2, <2>3 DEF Top
    <2>5. top \in s /\ \A x \in s : top >= x
        BY <2>3
    <2> HIDE DEF top
    <2>6. s \ {top} \in SUBSET (1 .. top - 1)
        BY <2>1, <2>4, <2>5
    <2>7. ASSUME s = 1 .. n PROVE top = n
        BY <2>4, <2>5, <2>7
    <2> QED
        BY <2>4, <2>5, <2>6, <2>7 DEF top
<1> QED
    BY <1>1, <1>2

\* What is left without the largest index ends below it.
LEMMA BelowTop ==
    ASSUME NEW n \in Nat, NEW s \in SUBSET (1 .. n), s # {}
    PROVE  /\ Max(s) = Top(s) /\ Max(s) \in 1 .. n
           /\ s \ {Max(s)} \in SUBSET (1 .. n)
           /\ Top(s \ {Max(s)}) \in 0 .. Max(s) - 1
<1>1. /\ Max(s) = Top(s) /\ Max(s) \in 1 .. n
      /\ s \ {Max(s)} \in SUBSET (1 .. Max(s) - 1)
    BY TopOf
<1>2. Max(s) - 1 \in Nat
    BY <1>1
<1> QED
    BY <1>1, <1>2, TopOf

\* What holds before a fold and is kept by its steps holds after it.
LEMMA Stays ==
    ASSUME NEW n \in Nat, NEW Inv, NEW g, g[{}] \in Inv[0],
           \A s \in SUBSET (1 .. n) :
               s # {} /\ g[s \ {Max(s)}] \in Inv[Top(s \ {Max(s)})] => g[s] \in Inv[Top(s)]
    PROVE  \A s \in SUBSET (1 .. n) : g[s] \in Inv[Top(s)]
<1> DEFINE good == {k \in Nat : k <= n => \A s \in SUBSET (1 .. k) : g[s] \in Inv[Top(s)]}
<1>1. 0 \in good
    <2>1. \A s \in SUBSET (1 .. 0) : s = {}
        OBVIOUS
    <2> QED
        BY <2>1 DEF Top
<1>2. ASSUME NEW k \in Nat, k \in good PROVE k + 1 \in good
    <2> SUFFICES ASSUME k + 1 <= n, NEW s \in SUBSET (1 .. k + 1) PROVE g[s] \in Inv[Top(s)]
        OBVIOUS
    <2>1. CASE s = {}
        BY <2>1 DEF Top
    <2>2. CASE s # {}
        <3>1. s \in SUBSET (1 .. n)
            OBVIOUS
        <3>2. Max(s) <= k + 1 /\ Max(s) \in Nat /\ s \ {Max(s)} \in SUBSET (1 .. Max(s) - 1)
            BY <2>2, TopOf
        <3>3. s \ {Max(s)} \in SUBSET (1 .. k)
            BY <3>2
        <3>4. \A t \in SUBSET (1 .. k) : g[t] \in Inv[Top(t)]
            BY <1>2
        <3> QED
            BY <2>2, <3>1, <3>3, <3>4
    <2> QED
        BY <2>1, <2>2
<1>3. n \in good
    <2> HIDE DEF good
    <2> QED
        BY <1>1, <1>2, Counting
<1> QED
    BY <1>3

\* A fold, largest index first.
IsFold(g, n, base, step) ==
    g = [s \in SUBSET (1 .. n) |-> IF s = {} THEN base ELSE step[<<Max(s), g[s \ {Max(s)}]>>]]

\* There is such a fold, for steps that keep to the sets.
LEMMA Recursion ==
    ASSUME NEW n \in Nat, NEW Inv, NEW base \in Inv[0], NEW step,
           \A k \in 1 .. n : \A j \in 0 .. k - 1 : \A r \in Inv[j] : step[<<k, r>>] \in Inv[k]
    PROVE  \E g : /\ IsFold(g, n, base, step)
                  /\ \A s \in SUBSET (1 .. n) : g[s] \in Inv[Top(s)]
<1> DEFINE Fold(g, k) == IsFold(g, k, base, step)
           good == {k \in Nat : \E g : Fold(g, k)}
<1>1. 0 \in good
    <2> DEFINE g == [s \in SUBSET (1 .. 0) |-> base]
    <2>1. \A s \in SUBSET (1 .. 0) : s = {}
        OBVIOUS
    <2>2. Fold(g, 0)
        BY <2>1 DEF IsFold
    <2> QED
        BY <2>2
<1>2. ASSUME NEW k \in Nat, k \in good PROVE k + 1 \in good
    <2>1. PICK f : Fold(f, k)
        BY <1>2
    <2> DEFINE g == [s \in SUBSET (1 .. k + 1) |->
                        IF s \in SUBSET (1 .. k) THEN f[s] ELSE step[<<Max(s), f[s \ {Max(s)}]>>]]
    <2>2. ASSUME NEW s \in SUBSET (1 .. k + 1), s # {}
          PROVE  g[s] = step[<<Max(s), g[s \ {Max(s)}]>>]
        <3>1. /\ Max(s) \in 1 .. k + 1
              /\ s \ {Max(s)} \in SUBSET (1 .. Max(s) - 1)
            BY <2>2, TopOf
        <3>2. s \ {Max(s)} \in SUBSET (1 .. k)
            BY <3>1
        <3>3. g[s \ {Max(s)}] = f[s \ {Max(s)}]
            BY <3>2
        <3> QED
            BY <2>1, <2>2, <3>3 DEF IsFold
    <2>3. g[{}] = base
        BY <2>1 DEF IsFold
    <2>4. g = [s \in SUBSET (1 .. k + 1) |->
                    IF s = {} THEN base ELSE step[<<Max(s), g[s \ {Max(s)}]>>]]
        BY <2>2, <2>3
    <2> HIDE DEF g
    <2>5. \E h : Fold(h, k + 1)
        BY <2>4 DEF IsFold
    <2> HIDE DEF Fold
    <2> QED
        BY <2>5
<1>3. n \in good
    <2> HIDE DEF good
    <2> QED
        BY <1>1, <1>2, Counting
<1>4. PICK g : Fold(g, n)
    BY <1>3
<1>5. \A s \in SUBSET (1 .. n) : g[s] \in Inv[Top(s)]
    <2>1. g[{}] \in Inv[0]
        BY <1>4 DEF IsFold
    <2>2. ASSUME NEW s \in SUBSET (1 .. n), s # {}, g[s \ {Max(s)}] \in Inv[Top(s \ {Max(s)})]
          PROVE  g[s] \in Inv[Top(s)]
        <3>1. /\ Max(s) = Top(s) /\ Max(s) \in 1 .. n
              /\ s \ {Max(s)} \in SUBSET (1 .. Max(s) - 1)
            BY <2>2, TopOf
        <3>2. Max(s) - 1 \in Nat
            BY <3>1
        <3>3. Top(s \ {Max(s)}) \in 0 .. Max(s) - 1
            BY <3>1, <3>2, TopOf
        <3> QED
            BY <1>4, <2>2, <3>1, <3>3 DEF IsFold
    <2> HIDE DEF Fold
    <2> QED
        BY <2>1, <2>2, Stays
<1> QED
    BY <1>4, <1>5

\* Adding what is new, one after the other.
LEMMA UniqueStays ==
    ASSUME NEW n \in Nat, NEW list, DOMAIN list = 1 .. n, NEW Inv, NEW known \in Inv[0],
           \A k \in 1 .. n : \A j \in 0 .. k - 1 : \A r \in Inv[j] : AddNew(r, list[k]) \in Inv[k]
    PROVE  Unique(known, list) \in Inv[n]
<1> DEFINE Add(r, c) == Using(r, LAMBDA v : AddNew(v, c))
           Fold(g) == g = [s \in SUBSET (1 .. n) |->
                              IF s = {} THEN known ELSE Add(g[s \ {Max(s)}], list[Max(s)])]
           step == [x \in (1 .. n) \X UNION {Inv[j] : j \in 0 .. n} |-> AddNew(x[2], list[x[1]])]
<1>1. Unique(known, list) = (CHOOSE g : Fold(g))[1 .. n]
    BY DEF Unique, Through, Using, FoldLeft, MapThenFoldSet
<1>2. \A r, c : Add(r, c) = AddNew(r, c)
    BY DEF Using
<1> HIDE DEF Add
<1>3. \A k \in 1 .. n : \A j \in 0 .. k - 1 : \A r \in Inv[j] :
          step[<<k, r>>] = AddNew(r, list[k])
    <2>1. ASSUME NEW k \in 1 .. n, NEW j \in 0 .. k - 1, NEW r \in Inv[j]
          PROVE  step[<<k, r>>] = AddNew(r, list[k])
        <3>1. j \in 0 .. n
            OBVIOUS
        <3>2. r \in UNION {Inv[i] : i \in 0 .. n}
            BY <3>1, Zenon
        <3> QED
            BY <3>2
    <2> HIDE DEF step
    <2> QED
        BY <2>1
<1> HIDE DEF step, Fold
<1>4. \A k \in 1 .. n : \A j \in 0 .. k - 1 : \A r \in Inv[j] : step[<<k, r>>] \in Inv[k]
    BY <1>3
<1>5. PICK f : /\ IsFold(f, n, known, step)
               /\ \A s \in SUBSET (1 .. n) : f[s] \in Inv[Top(s)]
    BY <1>4, Recursion
<1>6. Fold(f)
    <2>1. \A s \in SUBSET (1 .. n) : s # {} =>
              step[<<Max(s), f[s \ {Max(s)}]>>] = Add(f[s \ {Max(s)}], list[Max(s)])
        BY <1>2, <1>3, <1>5, BelowTop
    <2> QED
        BY <1>5, <2>1 DEF Fold, IsFold
<1>7. ASSUME NEW g, Fold(g) PROVE g[1 .. n] \in Inv[n]
    <2>1. g[{}] \in Inv[0]
        BY <1>7 DEF Fold
    <2>2. ASSUME NEW s \in SUBSET (1 .. n), s # {}, g[s \ {Max(s)}] \in Inv[Top(s \ {Max(s)})]
          PROVE  g[s] \in Inv[Top(s)]
        <3>1. g[s] = AddNew(g[s \ {Max(s)}], list[Max(s)])
            BY <1>2, <1>7, <2>2 DEF Fold
        <3> QED
            BY <2>2, <3>1, BelowTop
    <2>3. \A s \in SUBSET (1 .. n) : g[s] \in Inv[Top(s)]
        BY <2>1, <2>2, Stays
    <2> QED
        BY <2>3, TopOf
<1>8. Fold(CHOOSE g : Fold(g))
    BY <1>6
<1> QED
    BY <1>1, <1>7, <1>8

\* Taking what is worth it, one after the other.
LEMMA TakeStays ==
    ASSUME NEW n \in Nat, NEW order, DOMAIN order = 1 .. n, NEW probes, NEW quota,
           NEW Inv, <<>> \in Inv[0],
           \A k \in 1 .. n : \A j \in 0 .. k - 1 : \A r \in Inv[j] :
               Take(quota, r, probes[order[k]]) \in Inv[k]
    PROVE  Greedy(probes, quota, order) \in Inv[n]
<1> DEFINE Add(r, c) == Using(r, LAMBDA v : Take(quota, v, probes[c]))
           Fold(g) == g = [s \in SUBSET (1 .. n) |->
                              IF s = {} THEN <<>> ELSE Add(g[s \ {Max(s)}], order[Max(s)])]
           step == [x \in (1 .. n) \X UNION {Inv[j] : j \in 0 .. n} |-> Take(quota, x[2], probes[order[x[1]]])]
<1>1. Greedy(probes, quota, order) = (CHOOSE g : Fold(g))[1 .. n]
    BY DEF Greedy, Through, Using, FoldLeft, MapThenFoldSet
<1>2. \A r, c : Add(r, c) = Take(quota, r, probes[c])
    BY DEF Using
<1> HIDE DEF Add
<1>3. \A k \in 1 .. n : \A j \in 0 .. k - 1 : \A r \in Inv[j] :
          step[<<k, r>>] = Take(quota, r, probes[order[k]])
    <2>1. ASSUME NEW k \in 1 .. n, NEW j \in 0 .. k - 1, NEW r \in Inv[j]
          PROVE  step[<<k, r>>] = Take(quota, r, probes[order[k]])
        <3>1. j \in 0 .. n
            OBVIOUS
        <3>2. r \in UNION {Inv[i] : i \in 0 .. n}
            BY <3>1, Zenon
        <3> QED
            BY <3>2
    <2> HIDE DEF step
    <2> QED
        BY <2>1
<1> HIDE DEF step, Fold
<1>4. \A k \in 1 .. n : \A j \in 0 .. k - 1 : \A r \in Inv[j] : step[<<k, r>>] \in Inv[k]
    BY <1>3
<1>5. PICK f : /\ IsFold(f, n, <<>>, step)
               /\ \A s \in SUBSET (1 .. n) : f[s] \in Inv[Top(s)]
    BY <1>4, Recursion
<1>6. Fold(f)
    <2>1. \A s \in SUBSET (1 .. n) : s # {} =>
              step[<<Max(s), f[s \ {Max(s)}]>>] = Add(f[s \ {Max(s)}], order[Max(s)])
        BY <1>2, <1>3, <1>5, BelowTop
    <2> QED
        BY <1>5, <2>1 DEF Fold, IsFold
<1>7. ASSUME NEW g, Fold(g) PROVE g[1 .. n] \in Inv[n]
    <2>1. g[{}] \in Inv[0]
        BY <1>7 DEF Fold
    <2>2. ASSUME NEW s \in SUBSET (1 .. n), s # {}, g[s \ {Max(s)}] \in Inv[Top(s \ {Max(s)})]
          PROVE  g[s] \in Inv[Top(s)]
        <3>1. g[s] = Take(quota, g[s \ {Max(s)}], probes[order[Max(s)]])
            BY <1>2, <1>7, <2>2 DEF Fold
        <3> QED
            BY <2>2, <3>1, BelowTop
    <2>3. \A s \in SUBSET (1 .. n) : g[s] \in Inv[Top(s)]
        BY <2>1, <2>2, Stays
    <2> QED
        BY <2>3, TopOf
<1>8. Fold(CHOOSE g : Fold(g))
    BY <1>6
<1> QED
    BY <1>1, <1>7, <1>8

\* A list of lists, one after the other.
LEMMA Flattened ==
    ASSUME NEW E, NEW n \in Nat, NEW lists \in [1 .. n -> Seq(E)]
    PROVE  FlattenSeq(lists) \in Seq(E) /\ (n = 0 => FlattenSeq(lists) = <<>>)
<1>1. lists \in Seq(Seq(E)) /\ Len(lists) = n
    OBVIOUS
<1>2. CASE n = 0
    <2>1. lists = <<>>
        BY <1>1, <1>2, EmptySeq
    <2> QED
        BY <1>1, <1>2, <2>1 DEF FlattenSeq
<1>3. CASE n # 0
    <2> DEFINE Flat(g) == g = [i \in 1 .. n |-> IF i = 1 THEN lists[i] ELSE g[i - 1] \o lists[i]]
               step == [x \in (1 .. n) \X Seq(E) |-> x[2] \o lists[x[1]]]
               Inv == [k \in 0 .. n |-> Seq(E)]
    <2>1. FlattenSeq(lists) = (CHOOSE g : Flat(g))[n]
        BY <1>1, <1>3 DEF FlattenSeq
    <2>2. ASSUME NEW k \in 1 .. n, NEW r \in Seq(E)
          PROVE  step[<<k, r>>] = r \o lists[k] /\ r \o lists[k] \in Seq(E)
        <3>1. <<k, r>> \in (1 .. n) \X Seq(E) /\ lists[k] \in Seq(E)
            OBVIOUS
        <3>2. step[<<k, r>>] = r \o lists[k]
            BY <3>1
        <3> HIDE DEF step
        <3> QED
            BY <3>1, <3>2, ConcatProperties
    <2>3. <<>> \in Inv[0] /\ \A j \in 0 .. n : Inv[j] = Seq(E)
        OBVIOUS
    <2> HIDE DEF Inv, step
    <2>4. ASSUME NEW k \in 1 .. n, NEW j \in 0 .. k - 1, NEW r \in Inv[j]
          PROVE  step[<<k, r>>] \in Inv[k]
        <3>1. j \in 0 .. n /\ k \in 0 .. n
            OBVIOUS
        <3>2. r \in Seq(E) /\ Inv[k] = Seq(E)
            BY <2>3, <3>1, Zenon
        <3> QED
            BY <2>2, <3>2
    <2>5. PICK f : /\ IsFold(f, n, <<>>, step)
                   /\ \A s \in SUBSET (1 .. n) : f[s] \in Inv[Top(s)]
        BY <2>3, <2>4, Recursion
    <2> DEFINE g == [i \in 1 .. n |-> f[1 .. i]]
    <2>6. ASSUME NEW i \in 1 .. n
          PROVE  f[1 .. i] = f[1 .. i - 1] \o lists[i]
        <3>1. i \in Nat /\ i \in 1 .. i
            OBVIOUS
        <3>2. \A x \in 1 .. i : x \in 1 .. n
            OBVIOUS
        <3>3. 1 .. i \in SUBSET (1 .. n) /\ 1 .. i # {}
            BY <3>1, <3>2, Zenon
        <3>4. Max(1 .. i) = i
            BY <3>1, <3>3, TopOf
        <3>5. (1 .. i) \ {i} = 1 .. i - 1
            BY <3>1
        <3>6. 1 .. i - 1 \in SUBSET (1 .. n)
            BY <3>3, <3>5, Zenon
        <3>7. f[1 .. i - 1] \in Seq(E)
            <4>1. Top(1 .. i - 1) \in 0 .. n
                BY <3>6, TopOf
            <4> QED
                BY <2>3, <2>5, <3>6, <4>1
        <3>8. f[1 .. i] = step[<<i, f[1 .. i - 1]>>]
            BY <2>5, <3>3, <3>4, <3>5 DEF IsFold
        <3> QED
            BY <2>2, <3>7, <3>8
    <2>7. f[1 .. 1] = lists[1]
        <3>1. 1 .. 0 = {} /\ {} \in SUBSET (1 .. n)
            OBVIOUS
        <3>2. f[1 .. 0] = <<>>
            BY <2>5, <3>1 DEF IsFold
        <3>3. 1 \in 1 .. n /\ 1 - 1 = 0
            BY <1>3
        <3>4. f[1 .. 1] = <<>> \o lists[1] /\ lists[1] \in Seq(E)
            BY <2>6, <3>2, <3>3
        <3> QED
            BY <3>4, ConcatEmptySeq
    <2>8. \A i \in 1 .. n : g[i] = IF i = 1 THEN lists[i] ELSE g[i - 1] \o lists[i]
        <3> SUFFICES ASSUME NEW i \in 1 .. n PROVE g[i] = IF i = 1 THEN lists[i] ELSE g[i - 1] \o lists[i]
            BY Zenon
        <3>1. g[i] = f[1 .. i]
            OBVIOUS
        <3>2. ASSUME i # 1 PROVE g[i - 1] = f[1 .. i - 1]
            <4>1. i - 1 \in 1 .. n
                BY <3>2
            <4> QED
                BY <4>1
        <3> HIDE DEF g
        <3> QED
            BY <2>6, <2>7, <3>1, <3>2
    <2>9. Flat(g)
        BY <2>8
    <2>10. ASSUME NEW h, Flat(h) PROVE h[n] \in Seq(E)
        <3> DEFINE good == {k \in Nat : k \in 1 .. n => h[k] \in Seq(E)}
        <3>1. 0 \in good
            OBVIOUS
        <3>2. ASSUME NEW k \in Nat, k \in good PROVE k + 1 \in good
            <4> SUFFICES ASSUME k + 1 \in 1 .. n PROVE h[k + 1] \in Seq(E)
                OBVIOUS
            <4>1. lists[k + 1] \in Seq(E)
                OBVIOUS
            <4>2. CASE k = 0
                BY <2>10, <4>1, <4>2
            <4>3. CASE k # 0
                <5>1. h[k + 1] = h[k] \o lists[k + 1] /\ h[k] \in Seq(E)
                    <6>1. k \in 1 .. n /\ (k + 1) - 1 = k /\ k + 1 # 1
                        BY <4>3
                    <6>2. h[k] \in Seq(E)
                        BY <3>2, <6>1
                    <6> HIDE DEF good
                    <6> QED
                        BY <2>10, <6>1, <6>2
                <5> QED
                    BY <4>1, <5>1, ConcatProperties
            <4> QED
                BY <4>2, <4>3
        <3>3. n \in good
            <4> HIDE DEF good
            <4> QED
                BY <3>1, <3>2, Counting
        <3> QED
            BY <1>3, <3>3
    <2> HIDE DEF Flat
    <2>11. Flat(CHOOSE h : Flat(h))
        BY <2>9
    <2> QED
        BY <1>3, <2>1, <2>10, <2>11
<1> QED
    BY <1>2, <1>3

\* The numbers from 1 to n are n.
LEMMA UpTo ==
    ASSUME NEW n \in Nat
    PROVE  IsFiniteSet(1 .. n) /\ Cardinality(1 .. n) = n
<1>1. Cardinality(1 .. n) = IF 1 > n THEN 0 ELSE n - 1 + 1
    BY FS_Interval
<1> QED
    BY <1>1, FS_Interval

\* In a strict order of n things there is one at every place.
LEMMA EveryPlace ==
    ASSUME NEW n \in Nat, NEW R,
           \A x \in 1 .. n : <<x, x>> \notin R,
           \A x, y, z \in 1 .. n : <<x, y>> \in R /\ <<y, z>> \in R => <<x, z>> \in R,
           \A x, y \in 1 .. n : x # y => <<x, y>> \in R \/ <<y, x>> \in R
    PROVE  \A k \in 1 .. n : \E x \in 1 .. n : Cardinality({y \in 1 .. n : <<y, x>> \in R}) = k - 1
<1> DEFINE S == 1 .. n
           below(x) == {y \in S : <<y, x>> \in R}
           place == [x \in S |-> Cardinality(below(x)) + 1]
<1>1. IsFiniteSet(S) /\ Cardinality(S) = n
    BY UpTo
<1>2. ASSUME NEW x \in S
      PROVE  IsFiniteSet(below(x)) /\ Cardinality(below(x)) \in Nat /\ Cardinality(below(x)) <= n - 1
    <2>1. IsFiniteSet(S \ {x}) /\ Cardinality(S \ {x}) = n - 1
        BY <1>1, FS_RemoveElement
    <2>2. \A y \in below(x) : y \in S \ {x}
        OBVIOUS
    <2>3. below(x) \in SUBSET (S \ {x})
        BY <2>2, Zenon
    <2> HIDE DEF below
    <2> QED
        BY <2>1, <2>3, FS_Subset, FS_CardinalityType
<1>3. ASSUME NEW x \in S, NEW y \in S, <<x, y>> \in R
      PROVE  Cardinality(below(x)) # Cardinality(below(y))
    <2>1. \A z \in below(x) : z \in below(y)
        BY <1>3
    <2>2. x \in below(y) /\ x \notin below(x)
        BY <1>3
    <2> HIDE DEF below
    <2>3. below(x) \in SUBSET below(y) /\ below(x) # below(y)
        BY <2>1, <2>2, Zenon
    <2> QED
        BY <1>2, <2>3, FS_Subset
<1> HIDE DEF below
<1>4. place \in [S -> S]
    BY <1>2
<1>5. \A x, y \in S : place[x] = place[y] => x = y
    <2> SUFFICES ASSUME NEW x \in S, NEW y \in S, x # y PROVE place[x] # place[y]
        OBVIOUS
    <2>1. <<x, y>> \in R \/ <<y, x>> \in R
        OBVIOUS
    <2>2. Cardinality(below(x)) # Cardinality(below(y))
        BY <1>3, <2>1
    <2> QED
        BY <1>2, <2>2
<1>6. place \in Injection(S, S)
    BY <1>4, <1>5 DEF Injection, IsInjective
<1>7. place \in Surjection(S, S)
    BY <1>1, <1>6, FS_Injection
<1>8. \A k \in S : \E x \in S : place[x] = k
    BY <1>7 DEF Surjection
<1>9. \A k \in S : \E x \in S : Cardinality(below(x)) = k - 1
    <2>1. ASSUME NEW k \in S, NEW x \in S, place[x] = k PROVE Cardinality(below(x)) = k - 1
        BY <1>2, <2>1
    <2> QED
        BY <1>8, <2>1
<1> QED
    BY <1>9 DEF below

-----------------------------------------------------------------------------
(* What the parts of the plan are *)

Unrepeated(probes) ==
    \A i, j \in 1 .. Len(probes) : SameProbe(probes[i], probes[j]) => i = j

\* What is added differs from what was known, and comes from the list.
LEMMA UniqueAdds ==
    ASSUME NEW E, NEW known \in Seq(E), Unrepeated(known), NEW F \in SUBSET E, NEW more \in Seq(F)
    PROVE  LET all == Unique(known, more)
           IN  /\ all \in Seq(E) /\ Unrepeated(all) /\ Len(known) <= Len(all)
               /\ \A i \in 1 .. Len(known) : all[i] = known[i]
               /\ \A i \in Len(known) + 1 .. Len(all) : all[i] \in F
<1> DEFINE Good == {r \in Seq(E) : /\ Unrepeated(r) /\ Len(known) <= Len(r)
                                   /\ \A i \in 1 .. Len(known) : r[i] = known[i]
                                   /\ \A i \in Len(known) + 1 .. Len(r) : r[i] \in F}
           n == Len(more)
           Inv == [k \in 0 .. n |-> Good]
<1>1. n \in Nat /\ DOMAIN more = 1 .. n /\ \A k \in 1 .. n : more[k] \in F
    BY LenProperties, ElementOfSeq
<1>2. known \in Good
    BY LenProperties
<1>3. ASSUME NEW r \in Good, NEW p \in F PROVE AddNew(r, p) \in Good
    <2>1. CASE New(r, p)
        <3>1. p \in E
            OBVIOUS
        <3> DEFINE q == Append(r, p)
        <3>2. /\ q \in Seq(E) /\ Len(r) \in Nat /\ Len(q) = Len(r) + 1
              /\ \A i \in 1 .. Len(r) : q[i] = r[i]
              /\ q[Len(r) + 1] = p
            BY <3>1, AppendProperties, LenProperties
        <3> HIDE DEF q
        <3>3. Unrepeated(q)
            <4>1. \A i \in 1 .. Len(r) : ~SameProbe(r[i], p) /\ ~SameProbe(p, r[i])
                BY <2>1, LenProperties DEF New, SameProbe
            <4>2. Unrepeated(r)
                OBVIOUS
            <4>3. \A i \in 1 .. Len(q) : i \in 1 .. Len(r) \/ i = Len(r) + 1
                BY <3>2
            <4> QED
                BY <3>2, <4>1, <4>2, <4>3 DEF Unrepeated
        <3>4. Len(known) \in Nat
            BY LenProperties
        <3>5. \A i \in Len(known) + 1 .. Len(q) : i \in Len(known) + 1 .. Len(r) \/ i = Len(r) + 1
            BY <3>2, <3>4
        <3>6. \A i \in Len(known) + 1 .. Len(q) : q[i] \in F
            BY <3>2, <3>4, <3>5
        <3>7. AddNew(r, p) = q
            BY <2>1 DEF AddNew, q
        <3> QED
            BY <3>2, <3>3, <3>4, <3>6, <3>7
    <2>2. CASE ~New(r, p)
        BY <2>2 DEF AddNew
    <2> QED
        BY <2>1, <2>2
<1> HIDE DEF Good
<1>4. \A j \in 0 .. n : Inv[j] = Good
    OBVIOUS
<1>5. 0 \in 0 .. n /\ n \in 0 .. n
    BY <1>1
<1> HIDE DEF Inv
<1>6. ASSUME NEW k \in 1 .. n, NEW j \in 0 .. k - 1, NEW r \in Inv[j]
      PROVE  AddNew(r, more[k]) \in Inv[k]
    <2>1. k \in 0 .. n /\ j \in 0 .. n
        BY <1>1
    <2> QED
        BY <1>1, <1>3, <1>4, <2>1
<1>7. Unique(known, more) \in Inv[n]
    BY <1>1, <1>2, <1>4, <1>5, <1>6, UniqueStays
<1>8. Unique(known, more) \in Good
    BY <1>4, <1>5, <1>7
<1> QED
    BY <1>8 DEF Good

\* Some of a list, none of its places twice: at most as many as there is room
\* for, and some if there is room.
ChosenFrom(chosen, E, probes, quota) ==
    /\ chosen \in Seq(E) /\ Len(chosen) <= quota
    /\ \E at \in [1 .. Len(chosen) -> 1 .. Len(probes)] :
           /\ \A i \in 1 .. Len(chosen) : chosen[i] = probes[at[i]]
           /\ \A i, j \in 1 .. Len(chosen) : at[i] = at[j] => i = j
    /\ probes # <<>> /\ quota # 0 => Len(chosen) # 0

\* That is what taking the best scores first yields.
LEMMA Chosen ==
    ASSUME NEW E, NEW probes \in Seq(E), NEW quota \in Nat,
           \A p \in E : p.tags # {}
    PROVE  ChosenFrom(Optimize(probes, quota), E, probes, quota)
<1> DEFINE n == Len(probes)
           S == 1 .. n
           before(i, j) == \/ Score(probes[i]) > Score(probes[j])
                           \/ Score(probes[i]) = Score(probes[j]) /\ i < j
           R == {p \in S \X S : before(p[1], p[2])}
           D == DOMAIN probes
           order == [k \in 1 .. Cardinality(D) |->
                        CHOOSE x \in D : Cardinality({y \in D : before(y, x)}) = k - 1]
<1>1. n \in Nat /\ DOMAIN probes = S /\ \A k \in S : probes[k] \in E
    BY LenProperties, ElementOfSeq
<1>2. Cardinality(S) = n
    <2> HIDE DEF n
    <2> QED
        BY <1>1, UpTo
<1>3. Optimize(probes, quota) = Greedy(probes, quota, order)
    BY DEF Optimize, Ranked
<1>4. \A i \in S : Score(probes[i]) \in Nat
    BY DEF Score
<1> HIDE DEF D
<1>5. \A k \in S : \E x \in D : Cardinality({y \in D : before(y, x)}) = k - 1
    <2>1. \A x, y \in S : <<x, y>> \in R <=> before(x, y)
        OBVIOUS
    <2>2. \A x \in S : ~before(x, x)
        BY <1>4
    <2>3. \A x, y, z \in S : before(x, y) /\ before(y, z) => before(x, z)
        BY <1>4
    <2>4. \A x, y \in S : x # y => before(x, y) \/ before(y, x)
        BY <1>1, <1>4
    <2>5. D = S
        BY <1>1 DEF D
    <2>6. \A x \in S : {y \in S : <<y, x>> \in R} = {y \in D : before(y, x)}
        BY <2>1, <2>5
    <2> HIDE DEF R, before
    <2>7. \A k \in 1 .. n : \E x \in 1 .. n : Cardinality({y \in 1 .. n : <<y, x>> \in R}) = k - 1
        BY <1>1, <2>1, <2>2, <2>3, <2>4, EveryPlace
    <2> QED
        BY <2>5, <2>6, <2>7
<1> HIDE DEF before
<1>6. DOMAIN order = S
    BY <1>1, <1>2 DEF D
<1>7. \A k \in S : order[k] \in S /\ Cardinality({y \in D : before(y, order[k])}) = k - 1
    <2>1. D = S
        BY <1>1 DEF D
    <2> SUFFICES ASSUME NEW k \in S
                 PROVE  order[k] \in D /\ Cardinality({y \in D : before(y, order[k])}) = k - 1
        BY <2>1
    <2>2. order[k] = CHOOSE x \in D : Cardinality({y \in D : before(y, x)}) = k - 1
        BY <1>2, <2>1
    <2> HIDE DEF order
    <2> QED
        BY <1>5, <2>2
<1> HIDE DEF order
<1>8. \A k, l \in S : order[k] = order[l] => k = l
    <2> SUFFICES ASSUME NEW k \in S, NEW l \in S, order[k] = order[l] PROVE k = l
        OBVIOUS
    <2>1. k - 1 = l - 1
        BY <1>7
    <2>2. k \in Nat /\ l \in Nat
        BY <1>1
    <2> QED
        BY <2>1, <2>2
<1> DEFINE Some(k) == k # 0 /\ quota # 0
           From(t, k, at) == /\ at \in [1 .. Len(t) -> 1 .. k]
                             /\ \A i \in 1 .. Len(t) : t[i] = probes[order[at[i]]]
                             /\ \A i, j \in 1 .. Len(t) : at[i] = at[j] => i = j
           Good(k) == {t \in Seq(E) : /\ Len(t) <= quota
                                      /\ Some(k) => Len(t) # 0
                                      /\ \E at : From(t, k, at)}
           Inv == [k \in 0 .. n |-> Good(k)]
<1>9. <<>> \in Good(0)
    <2>1. <<>> \in Seq(E) /\ Len(<<>>) = 0
        BY EmptySeq
    <2>2. From(<<>>, 0, [i \in 1 .. 0 |-> 0])
        BY <2>1
    <2> HIDE DEF From
    <2> QED
        BY <2>1, <2>2
<1>10. ASSUME NEW k \in 1 .. n, NEW j \in 0 .. k - 1, NEW r \in Good(j)
       PROVE  Take(quota, r, probes[order[k]]) \in Good(k)
    <2> DEFINE p == probes[order[k]]
    <2>1. p \in E /\ p.tags # {}
        BY <1>1, <1>7
    <2>2. PICK at : From(r, j, at)
        OBVIOUS
    <2>3. r \in Seq(E) /\ Len(r) \in Nat /\ Len(r) <= quota /\ (Some(j) => Len(r) # 0)
        BY LenProperties
    <2>4. k \in Nat /\ j \in Nat /\ j < k /\ k # 0
        BY <1>1
    <2>5. CASE Len(r) < quota /\ WorthTaking(r, p)
        <3> DEFINE q == Append(r, p)
                   to == [i \in 1 .. Len(r) + 1 |-> IF i = Len(r) + 1 THEN k ELSE at[i]]
        <3>1. /\ q \in Seq(E) /\ Len(q) = Len(r) + 1
              /\ \A i \in 1 .. Len(r) : q[i] = r[i]
              /\ q[Len(r) + 1] = p
            BY <2>1, <2>3, AppendProperties
        <3>2. \A i \in 1 .. Len(r) : at[i] \in 1 .. j /\ at[i] \in 1 .. k /\ at[i] # k
            <4>1. \A x \in 1 .. j : x \in 1 .. k /\ x # k
                BY <2>4
            <4> QED
                BY <2>2, <4>1
        <3>3. \A i \in 1 .. Len(r) + 1 : i \in 1 .. Len(r) \/ i = Len(r) + 1
            BY <2>3
        <3>4. /\ to[Len(r) + 1] = k
              /\ \A i \in 1 .. Len(r) : to[i] = at[i]
            BY <2>3
        <3>5. to \in [1 .. Len(r) + 1 -> 1 .. k]
            BY <2>4, <3>2, <3>3
        <3> HIDE DEF q, to
        <3>6. From(q, k, to)
            <4>1. \A i \in 1 .. Len(q) : q[i] = probes[order[to[i]]]
                BY <2>2, <3>1, <3>3, <3>4
            <4>2. \A i, l \in 1 .. Len(q) : to[i] = to[l] => i = l
                BY <2>2, <3>1, <3>2, <3>3, <3>4
            <4> QED
                BY <3>1, <3>5, <4>1, <4>2
        <3>7. Len(q) <= quota /\ Len(q) # 0
            BY <2>3, <2>5, <3>1
        <3>8. Take(quota, r, p) = q
            BY <2>5 DEF Take, q
        <3> HIDE DEF From, p
        <3> QED
            BY <3>1, <3>6, <3>7, <3>8 DEF p
    <2>6. CASE ~(Len(r) < quota /\ WorthTaking(r, p))
        <3>1. Take(quota, r, p) = r
            BY <2>6 DEF Take
        <3>2. From(r, k, at)
            <4>1. \A i \in 1 .. Len(r) : at[i] \in 1 .. k
                BY <2>2, <2>4
            <4> QED
                BY <2>2, <4>1
        <3>3. ASSUME Len(r) = 0 PROVE quota = 0
            <4>1. r = <<>>
                BY <2>3, <3>3, EmptySeq
            <4>2. UNION {r[i].tags : i \in DOMAIN r} = {}
                BY <4>1
            <4>3. WorthTaking(r, p)
                BY <2>1, <4>2 DEF WorthTaking
            <4> QED
                BY <2>6, <3>3, <4>3
        <3> HIDE DEF From, p
        <3> QED
            BY <2>3, <3>1, <3>2, <3>3 DEF p
    <2> QED
        BY <2>5, <2>6
<1> HIDE DEF Good
<1>11. \A k \in 0 .. n : Inv[k] = Good(k)
    OBVIOUS
<1>12. 0 \in 0 .. n /\ n \in 0 .. n
    BY <1>1
<1> HIDE DEF Inv
<1>13. ASSUME NEW k \in 1 .. n, NEW j \in 0 .. k - 1, NEW r \in Inv[j]
       PROVE  Take(quota, r, probes[order[k]]) \in Inv[k]
    <2>1. k \in 0 .. n /\ j \in 0 .. n
        BY <1>1
    <2> QED
        BY <1>10, <1>11, <2>1
<1>14. Greedy(probes, quota, order) \in Inv[n]
    BY <1>1, <1>6, <1>9, <1>11, <1>12, <1>13, TakeStays
<1>15. Optimize(probes, quota) \in Good(n)
    BY <1>3, <1>11, <1>12, <1>14
<1> DEFINE chosen == Optimize(probes, quota)
<1>16. chosen \in Seq(E) /\ Len(chosen) <= quota /\ (Some(n) => Len(chosen) # 0)
    BY <1>15 DEF Good
<1>17. PICK at : From(chosen, n, at)
    BY <1>15 DEF Good
<1> HIDE DEF chosen
<1> DEFINE to == [i \in 1 .. Len(chosen) |-> order[at[i]]]
<1>18. \A i \in 1 .. Len(chosen) : at[i] \in S /\ order[at[i]] \in S /\ chosen[i] = probes[order[at[i]]]
    BY <1>7, <1>17
<1>19. /\ to \in [1 .. Len(chosen) -> S]
       /\ \A i \in 1 .. Len(chosen) : chosen[i] = probes[to[i]]
    BY <1>18
<1>20. \A i, j \in 1 .. Len(chosen) : to[i] = to[j] => i = j
    BY <1>8, <1>17, <1>18
<1>21. probes # <<>> => n # 0
    BY EmptySeq
<1> HIDE DEF to
<1>22. ChosenFrom(chosen, E, probes, quota)
    BY <1>16, <1>19, <1>20, <1>21 DEF ChosenFrom
<1> QED
    BY <1>22 DEF chosen

\* The smaller and the larger of two numbers.
LEMMA OfTwo ==
    ASSUME NEW a \in Int, NEW b \in Int
    PROVE  /\ Min({a, b}) = IF a <= b THEN a ELSE b
           /\ Max({a, b}) = IF a >= b THEN a ELSE b
<1>1. Min({a, b}) \in {a, b} /\ \A y \in {a, b} : Min({a, b}) <= y
    <2>1. \E x \in {a, b} : \A y \in {a, b} : x <= y
        OBVIOUS
    <2> QED
        BY <2>1 DEF Min
<1>2. Max({a, b}) \in {a, b} /\ \A y \in {a, b} : Max({a, b}) >= y
    <2>1. \E x \in {a, b} : \A y \in {a, b} : x >= y
        OBVIOUS
    <2> QED
        BY <2>1 DEF Max
<1> QED
    BY <1>1, <1>2

\* A list of probes is extended up to some length.
LEMMA Extended ==
    ASSUME NEW E, NEW core \in Seq(E), Unrepeated(core), NEW F \in SUBSET E, NEW more \in Seq(F),
           NEW m \in Len(core) .. Len(Unique(core, more))
    PROVE  LET ext == SubSeq(Unique(core, more), Len(core) + 1, m)
           IN  /\ ext \in Seq(F) /\ Len(ext) = m - Len(core)
               /\ core \o ext \in Seq(E) /\ Unrepeated(core \o ext)
<1> DEFINE all == Unique(core, more)
           ext == SubSeq(all, Len(core) + 1, m)
           both == core \o ext
<1>1. /\ all \in Seq(E) /\ Unrepeated(all) /\ Len(core) <= Len(all)
      /\ \A i \in 1 .. Len(core) : all[i] = core[i]
      /\ \A i \in Len(core) + 1 .. Len(all) : all[i] \in F
    BY UniqueAdds
<1>2. Len(core) \in Nat /\ Len(all) \in Nat /\ m \in Nat
    BY <1>1, LenProperties
<1> HIDE DEF all
<1>3. Len(core) <= m /\ m <= Len(all)
    BY <1>2 DEF all
<1>4. \A i \in Len(core) + 1 .. m : all[i] \in F
    BY <1>1, <1>2, <1>3
<1>5. /\ ext \in Seq(F) /\ Len(ext) = m - Len(core)
      /\ \A i \in 1 .. m - Len(core) : ext[i] = all[Len(core) + i]
    <2>1. Len(core) + 1 \in Int /\ m \in Int
        BY <1>2
    <2>2. /\ ext \in Seq(F)
          /\ Len(ext) = IF Len(core) + 1 <= m THEN m - (Len(core) + 1) + 1 ELSE 0
          /\ \A i \in 1 .. m - (Len(core) + 1) + 1 : ext[i] = all[(Len(core) + 1) + i - 1]
        BY <1>4, <2>1, SubSeqProperties
    <2> HIDE DEF ext
    <2>3. m - (Len(core) + 1) + 1 = m - Len(core)
        BY <1>2
    <2>4. \A i \in 1 .. m - Len(core) : (Len(core) + 1) + i - 1 = Len(core) + i
        BY <1>2
    <2> QED
        BY <1>2, <1>3, <2>2, <2>3, <2>4
<1> HIDE DEF ext
<1>6. ext \in Seq(E)
    BY <1>5, SeqMonotonic
<1>7. /\ both \in Seq(E) /\ Len(both) = m
      /\ \A i \in 1 .. m : both[i] = IF i <= Len(core) THEN core[i] ELSE ext[i - Len(core)]
    BY <1>2, <1>3, <1>5, <1>6, ConcatProperties
<1> HIDE DEF both
<1>8. \A i \in 1 .. m : both[i] = all[i] /\ i \in 1 .. Len(all)
    <2> SUFFICES ASSUME NEW i \in 1 .. m PROVE both[i] = all[i] /\ i \in 1 .. Len(all)
        BY Zenon
    <2>1. i \in 1 .. Len(all)
        BY <1>2, <1>3
    <2>2. CASE i <= Len(core)
        <3>1. i \in 1 .. Len(core)
            BY <1>2, <2>2
        <3> QED
            BY <1>1, <1>7, <2>1, <2>2, <3>1
    <2>3. CASE ~(i <= Len(core))
        <3>1. i - Len(core) \in 1 .. m - Len(core) /\ Len(core) + (i - Len(core)) = i
            BY <1>2, <2>3
        <3> QED
            BY <1>5, <1>7, <2>1, <2>3, <3>1
    <2> QED
        BY <2>2, <2>3
<1>9. Unrepeated(both)
    BY <1>1, <1>7, <1>8 DEF Unrepeated
<1> QED
    BY <1>5, <1>7, <1>9 DEF both, ext, all

-----------------------------------------------------------------------------
(* Mutations are a list, each aimed at something *)

List(s) == \E S : s \in Seq(S)

Aimed(s) == List(s) /\ \A i \in 1 .. Len(s) : s[i].origin = "MUTATION" /\ s[i].tags # {}

\* What a list is: its length, its indices, its elements.
LEMMA Lists ==
    ASSUME NEW s, List(s)
    PROVE  /\ Len(s) \in Nat /\ DOMAIN s = 1 .. Len(s)
           /\ s \in Seq(Range(s))
           /\ Range(s) = {s[i] : i \in 1 .. Len(s)}
<1>1. PICK S : s \in Seq(S)
    BY DEF List
<1> QED
    BY <1>1, LenProperties, SeqOfRange, RangeEquality

\* The empty list is aimed.
LEMMA AimedNone == Aimed(<<>>)
<1>1. <<>> \in Seq({}) /\ Len(<<>>) = 0
    BY EmptySeq
<1> QED
    BY <1>1 DEF Aimed, List

\* A list of one has one element.
LEMMA ListOne ==
    ASSUME NEW x
    PROVE  List(<<x>>) /\ Len(<<x>>) = 1 /\ <<x>>[1] = x
<1>1. <<x>> \in Seq({x})
    OBVIOUS
<1> QED
    BY <1>1 DEF List

\* Whatever is set, a mutation is one and has its tags.
LEMMA OfMutation ==
    ASSUME NEW base, NEW tags, NEW targets, NEW set, NEW date
    PROVE  LET p == Mutation(base, tags, targets, set, date) IN p.origin = "MUTATION" /\ p.tags = tags
BY DEF Mutation, ProbeOf

\* A list of one mutation is aimed.
LEMMA AimedOne ==
    ASSUME NEW p, p.origin = "MUTATION", p.tags # {}
    PROVE  Aimed(<<p>>)
BY ListOne DEF Aimed

\* Two lists in a row are a list.
LEMMA ListConcat ==
    ASSUME NEW s, NEW t, List(s), List(t)
    PROVE  /\ List(s \o t) /\ Len(s \o t) = Len(s) + Len(t)
           /\ \A i \in 1 .. Len(s) + Len(t) : (s \o t)[i] = IF i <= Len(s) THEN s[i] ELSE t[i - Len(s)]
<1> DEFINE S == Range(s) \cup Range(t)
<1>1. s \in Seq(S) /\ t \in Seq(S)
    BY Lists, SeqMonotonic, Zenon
<1> HIDE DEF S
<1> QED
    BY <1>1, ConcatProperties DEF List

\* Two lists of mutations in a row are aimed.
LEMMA AimedConcat ==
    ASSUME NEW s, NEW t, Aimed(s), Aimed(t)
    PROVE  Aimed(s \o t)
<1>1. /\ List(s \o t) /\ Len(s \o t) = Len(s) + Len(t)
      /\ \A i \in 1 .. Len(s) + Len(t) : (s \o t)[i] = IF i <= Len(s) THEN s[i] ELSE t[i - Len(s)]
    BY ListConcat DEF Aimed
<1>2. Len(s) \in Nat /\ Len(t) \in Nat
    BY Lists DEF Aimed
<1>3. ASSUME NEW i \in 1 .. Len(s) + Len(t)
      PROVE  (s \o t)[i].origin = "MUTATION" /\ (s \o t)[i].tags # {}
    <2>1. CASE i <= Len(s)
        <3>1. i \in 1 .. Len(s)
            BY <1>2, <2>1
        <3> QED
            BY <1>1, <2>1, <3>1 DEF Aimed
    <2>2. CASE ~(i <= Len(s))
        <3>1. i - Len(s) \in 1 .. Len(t)
            BY <1>2, <2>2
        <3> QED
            BY <1>1, <2>2, <3>1 DEF Aimed
    <2> QED
        BY <2>1, <2>2
<1> QED
    BY <1>1, <1>3 DEF Aimed

\* So are any number of them.
LEMMA AimedFlat ==
    ASSUME NEW n \in Nat, NEW lists, lists = [i \in 1 .. n |-> lists[i]],
           \A i \in 1 .. n : Aimed(lists[i])
    PROVE  Aimed(FlattenSeq(lists))
<1> DEFINE E == UNION {Range(lists[i]) : i \in 1 .. n}
<1>1. \A i \in 1 .. n : lists[i] \in Seq(E)
    <2> SUFFICES ASSUME NEW i \in 1 .. n PROVE lists[i] \in Seq(E)
        BY Zenon
    <2>1. lists[i] \in Seq(Range(lists[i]))
        BY Lists DEF Aimed
    <2>2. Range(lists[i]) \in SUBSET E
        BY Zenon
    <2> HIDE DEF E
    <2> QED
        BY <2>1, <2>2, SeqMonotonic
<1>2. \A p \in E : p.origin = "MUTATION" /\ p.tags # {}
    <2> SUFFICES ASSUME NEW i \in 1 .. n, NEW p \in Range(lists[i])
                 PROVE  p.origin = "MUTATION" /\ p.tags # {}
        BY Zenon
    <2>1. Range(lists[i]) = {lists[i][k] : k \in 1 .. Len(lists[i])}
        BY Lists DEF Aimed
    <2> QED
        BY <2>1 DEF Aimed
<1> HIDE DEF E
<1>3. lists \in [1 .. n -> Seq(E)]
    BY <1>1
<1>4. FlattenSeq(lists) \in Seq(E)
    BY <1>3, Flattened
<1>5. \A i \in 1 .. Len(FlattenSeq(lists)) : FlattenSeq(lists)[i] \in E
    BY <1>4, ElementOfSeq
<1> QED
    BY <1>2, <1>4, <1>5 DEF Aimed, List

\* The probes of a finding: around its bounds ...
LEMMA AimedRange ==
    ASSUME NEW pkg, NEW base, NEW findings, NEW pred
    PROVE  Aimed(RangeProbes(pkg, base, findings, pred))
<1> DEFINE at(ops) == SelectSeq(pred.clauses, LAMBDA c : c.op \in ops)
           lows == at({"GTE", "GT"})
           highs == at({"LTE", "LT"})
           field == Last1(pred.clauses).field
           low == Last1(lows).value
           high == Last1(highs).value
           first == IF lows = <<>> THEN <<>> ELSE <<<<low - Unit, "CONTROL">>, <<low, "BOUNDARY">>>>
           second == IF lows = <<>> \/ highs = <<>> THEN <<>>
                     ELSE <<<<((low + high) \div (2 * Unit)) * Unit, "BOUNDARY">>>>
           third == IF highs = <<>> THEN <<>>
                    ELSE <<<<high, "BOUNDARY">>, <<high + Unit, "CONTROL">>>>
           values == first \o second \o third
           clamp(v) == IF field \notin IdsOf(pkg.inputs) THEN v
                       ELSE LET inp == Named(pkg.inputs, field) IN Min({Max({v, inp.min}), inp.max})
           targets == {f.node : f \in {g \in findings :
                          /\ g.type \in TableFindings
                          /\ \E i \in DOMAIN Named(pkg.tables, g.node).dims :
                                Named(pkg.tables, g.node).dims[i].input = field}}
           tags(i) == {Tag(values[i][2], 0), Tag("VAL", clamp(values[i][1]))}
           probe(i) == Mutation(base, tags(i), targets, field :> clamp(values[i][1]), base.date)
           probes == [i \in DOMAIN values |-> probe(i)]
<1>1. RangeProbes(pkg, base, findings, pred) = probes
    BY DEF RangeProbes
<1>2. \A i : tags(i) # {}
    OBVIOUS
<1>3. \A i : probe(i).origin = "MUTATION" /\ probe(i).tags # {}
    <2> HIDE DEF tags, targets, field, clamp, values
    <2> QED
        BY <1>2, OfMutation
<1> HIDE DEF probe, low, high, lows, highs
<1>4. List(first) /\ List(second) /\ List(third)
    <2>1. List(<<>>)
        BY AimedNone DEF Aimed
    <2>2. \A x, y : <<x, y>> \in Seq({x, y}) /\ <<x>> \in Seq({x})
        OBVIOUS
    <2>3. \A x, y : List(<<x, y>>) /\ List(<<x>>)
        BY <2>2 DEF List
    <2> QED
        BY <2>1, <2>3
<1> HIDE DEF first, second, third
<1>5. List(values)
    BY <1>4, ListConcat
<1> HIDE DEF values
<1>6. DOMAIN values = 1 .. Len(values) /\ Len(values) \in Nat
    BY <1>5, Lists
<1>7. probes \in Seq({probe(i) : i \in 1 .. Len(values)}) /\ Len(probes) = Len(values)
    BY <1>6
<1> QED
    BY <1>1, <1>3, <1>6, <1>7 DEF Aimed, List

\* ... and before and after its date.
LEMMA AimedShift ==
    ASSUME NEW pkg, NEW base, NEW f
    PROVE  Aimed(ShiftProbes(pkg, base, f))
<1> DEFINE before == Mutation(base, {Tag("TEMPORAL", 0), Tag("PRE_WINDOW", 0)}, {f.node}, <<>>,
                              pkg.period.start + 5)
           after == Mutation(base, {Tag("TEMPORAL", 0), Tag("POST_WINDOW", 0)}, {f.node}, <<>>, f.right + 5)
<1>1. \A p \in {before, after} : p.origin = "MUTATION" /\ p.tags # {}
    BY OfMutation
<1> HIDE DEF before, after
<1>2. Aimed(<<before, after>>)
    <2>1. <<before, after>> \in Seq({before, after}) /\ Len(<<before, after>>) = 2
        OBVIOUS
    <2>2. <<before, after>>[1] = before /\ <<before, after>>[2] = after
        OBVIOUS
    <2>3. \A i \in 1 .. 2 : i = 1 \/ i = 2
        OBVIOUS
    <2> QED
        BY <1>1, <2>1, <2>2, <2>3 DEF Aimed, List
<1> QED
    BY <1>2, AimedNone DEF ShiftProbes, before, after

\* The probes of a list of findings.
LEMMA AimedMutate ==
    ASSUME NEW pkg, NEW findings, NEW order, NEW n \in Nat, DOMAIN order = 1 .. n, NEW preds, NEW base
    PROVE  Aimed(Mutate(pkg, findings, order, preds, base))
<1> DEFINE exact == {i \in DOMAIN order : IsExact(preds[i])}
           orders == {f \in findings : f.type = "ORDER_CHANGE"}
           range(i) == IF preds[i].clauses = <<>> THEN <<>> ELSE RangeProbes(pkg, base, findings, preds[i])
           alone(i) == Mutation(base, {Tag("SINGLE_DEFECT", 0)}, {order[i].node}, Overrides(preds[i]), base.date)
           single(i) == IF i \notin exact THEN <<>> ELSE <<alone(i)>>
           set == Through(LAMBDA s, p : IF IsExact(p) THEN Overrides(p) @@ s ELSE s, <<>>, preds)
           all == Mutation(base, {Tag("MULTI_DEFECT", 0)}, {order[i].node : i \in exact}, set, base.date)
           combined == IF Cardinality(exact) < 2 THEN <<>> ELSE <<all>>
           ranges == [i \in DOMAIN order |-> range(i)]
           singles == [i \in DOMAIN order |-> single(i)]
           shifts == [i \in DOMAIN order |-> ShiftProbes(pkg, base, order[i])]
           last == IF orders = {} THEN <<>> ELSE <<OrderProbe(base, orders)>>
<1>1. Mutate(pkg, findings, order, preds, base)
          = FlattenSeq(ranges) \o FlattenSeq(singles) \o combined \o FlattenSeq(shifts) \o last
    BY DEF Mutate
<1>2. \A i : Aimed(range(i))
    BY AimedNone, AimedRange
<1>3. \A i : Aimed(single(i))
    <2> HIDE DEF exact
    <2>1. \A i : Aimed(<<alone(i)>>)
        <3>1. \A i : alone(i).origin = "MUTATION" /\ alone(i).tags # {}
            BY OfMutation
        <3> HIDE DEF alone
        <3> QED
            BY <3>1, AimedOne
    <2> HIDE DEF alone
    <2> QED
        BY <2>1, AimedNone
<1>4. Aimed(combined)
    <2>1. all.origin = "MUTATION" /\ all.tags # {}
        <3> HIDE DEF set, exact
        <3> QED
            BY OfMutation
    <2> HIDE DEF all, exact
    <2> QED
        BY <2>1, AimedOne, AimedNone
<1>5. Aimed(last)
    <2>1. OrderProbe(base, orders).origin = "MUTATION" /\ OrderProbe(base, orders).tags # {}
        BY OfMutation DEF OrderProbe
    <2> HIDE DEF orders
    <2> QED
        BY <2>1, AimedOne, AimedNone
<1> HIDE DEF range, single, combined, last, alone, set, all, exact, orders
<1>6. Aimed(FlattenSeq(ranges))
    <2>1. ranges = [i \in 1 .. n |-> ranges[i]] /\ \A i \in 1 .. n : Aimed(ranges[i])
        BY <1>2
    <2> HIDE DEF ranges
    <2> QED
        BY <2>1, AimedFlat
<1>7. Aimed(FlattenSeq(singles))
    <2>1. singles = [i \in 1 .. n |-> singles[i]] /\ \A i \in 1 .. n : Aimed(singles[i])
        BY <1>3
    <2> HIDE DEF singles
    <2> QED
        BY <2>1, AimedFlat
<1>8. Aimed(FlattenSeq(shifts))
    <2>1. shifts = [i \in 1 .. n |-> shifts[i]] /\ \A i \in 1 .. n : Aimed(shifts[i])
        BY AimedShift
    <2> HIDE DEF shifts
    <2> QED
        BY <2>1, AimedFlat
<1> HIDE DEF ranges, singles, shifts
<1>9. Aimed(FlattenSeq(ranges) \o FlattenSeq(singles))
    BY <1>6, <1>7, AimedConcat
<1>10. Aimed(FlattenSeq(ranges) \o FlattenSeq(singles) \o combined)
    BY <1>4, <1>9, AimedConcat
<1>11. Aimed(FlattenSeq(ranges) \o FlattenSeq(singles) \o combined \o FlattenSeq(shifts))
    BY <1>8, <1>10, AimedConcat
<1>12. Aimed(FlattenSeq(ranges) \o FlattenSeq(singles) \o combined \o FlattenSeq(shifts) \o last)
    BY <1>5, <1>11, AimedConcat
<1> QED
    BY <1>1, <1>12

\* The probes of finitely many findings are a list, each aimed at something.
LEMMA AimedMutations ==
    ASSUME NEW pkg, NEW findings, IsFiniteSet(findings), NEW base
    PROVE  Aimed(Mutations(pkg, findings, base))
<1> DEFINE order == SetToSeq(findings)
           n == Cardinality(findings)
           preds == [i \in DOMAIN order |-> Predicate(order[i], pkg)]
<1>1. n \in Nat /\ ExistsBijection(1 .. n, findings)
    BY FS_CardinalityType
<1>2. \E f \in [1 .. n -> findings] : IsInjective(f)
    BY <1>1 DEF ExistsBijection, Bijection, Injection
<1>3. order \in [1 .. n -> findings]
    BY <1>2 DEF SetToSeq
<1>4. DOMAIN order = 1 .. n
    BY <1>3
<1> HIDE DEF order, n
<1>5. Mutations(pkg, findings, base) = Mutate(pkg, findings, order, preds, base)
    BY DEF Mutations, Using, order
<1> HIDE DEF preds
<1> QED
    BY <1>1, <1>4, <1>5, AimedMutate

-----------------------------------------------------------------------------
(* The core: control cases, or a baseline *)

\* What is kept of a list are elements of it.
LEMMA KeptOf ==
    ASSUME NEW n \in Nat, NEW list, NEW F, NEW lists, lists = [i \in 1 .. n |-> lists[i]],
           \A i \in 1 .. n : lists[i] = <<>> \/ (list[i] \in F /\ lists[i] = <<list[i]>>)
    PROVE  FlattenSeq(lists) \in Seq(F) /\ (n = 0 => FlattenSeq(lists) = <<>>)
<1>1. \A i \in 1 .. n : lists[i] \in Seq(F)
    <2>1. <<>> \in Seq(F) /\ \A x \in F : <<x>> \in Seq(F)
        OBVIOUS
    <2> QED
        BY <2>1
<1>2. lists \in [1 .. n -> Seq(F)]
    BY <1>1
<1> QED
    BY <1>2, Flattened

\* A probe of the package itself, which the package can price.
OfPackage(pkg, p) == p.origin # "MUTATION" /\ Priced(pkg, p)

AllOfPackage(pkg, s) == List(s) /\ Unrepeated(s) /\ \A i \in 1 .. Len(s) : OfPackage(pkg, s[i])

\* Every control case that is kept can be priced, and none is kept twice.
LEMMA ControlsOf ==
    ASSUME NEW pkg, NEW cases, List(cases)
    PROVE  AllOfPackage(pkg, ControlProbes(pkg, cases))
<1> DEFINE n == Len(cases)
           probe(c) == ProbeOf("CONTROL_CASE", c.risk, CalculationDate(pkg, c.date),
                               {Tag("CONTROL", 0), Tag("CONTROL_CASE", 0)}, {})
           lists == [i \in DOMAIN cases |-> IF Acceptable(pkg, cases[i]) THEN <<cases[i]>> ELSE <<>>]
           valid == FlattenSeq(lists)
           probes == [i \in DOMAIN valid |-> probe(valid[i])]
           F == {c \in Range(cases) : Acceptable(pkg, c)}
           E == {probe(c) : c \in F}
<1>1. ControlProbes(pkg, cases) = Unique(<<>>, probes)
    BY DEF ControlProbes, Using, Kept
<1>2. n \in Nat /\ DOMAIN cases = 1 .. n /\ \A i \in 1 .. n : cases[i] \in Range(cases)
    BY Lists
<1>3. \A c : Acceptable(pkg, c) => OfPackage(pkg, probe(c))
    BY DEF Acceptable, OfPackage, Priced, PriceOf, ProbeOf
<1> HIDE DEF probe
<1>4. \A p \in E : OfPackage(pkg, p)
    BY <1>3
<1>5. valid \in Seq(F)
    <2>1. lists = [i \in 1 .. n |-> lists[i]]
        BY <1>2
    <2>2. \A i \in 1 .. n : lists[i] = <<>> \/ (cases[i] \in F /\ lists[i] = <<cases[i]>>)
        BY <1>2
    <2> HIDE DEF lists, F
    <2> QED
        BY <1>2, <2>1, <2>2, KeptOf
<1> HIDE DEF valid, F
<1>6. probes \in Seq(E)
    <2>1. DOMAIN valid = 1 .. Len(valid) /\ Len(valid) \in Nat /\ \A i \in 1 .. Len(valid) : valid[i] \in F
        BY <1>5, LenProperties, ElementOfSeq
    <2> QED
        BY <2>1
<1> HIDE DEF probes, E
<1>7. <<>> \in Seq(E) /\ Len(<<>>) = 0 /\ Unrepeated(<<>>) /\ E \in SUBSET E
    <2>1. <<>> \in Seq(E) /\ Len(<<>>) = 0
        BY EmptySeq
    <2> QED
        BY <2>1 DEF Unrepeated
<1> DEFINE all == Unique(<<>>, probes)
<1>8. /\ all \in Seq(E) /\ Unrepeated(all)
      /\ \A i \in Len(<<>>) + 1 .. Len(all) : all[i] \in E
    BY <1>6, <1>7, UniqueAdds
<1> HIDE DEF all
<1>9. \A i \in 1 .. Len(all) : all[i] \in E
    BY <1>8, ElementOfSeq
<1> QED
    BY <1>1, <1>4, <1>8, <1>9 DEF AllOfPackage, List, all

\* So can the baseline be, if there is one.
LEMMA BaselineOf ==
    ASSUME NEW pkg
    PROVE  AllOfPackage(pkg, Baseline(pkg))
<1> DEFINE risk == [id \in IdsOf(pkg.inputs) |-> Default(Named(pkg.inputs, id))]
           probe == ProbeOf("BASELINE", risk, pkg.period.start, {Tag("CONTROL", 0), Tag("BASELINE", 0)}, {})
           able == /\ \A inp \in pkg.inputs : HasBasis(inp)
                   /\ EvaluatePackage(pkg, risk, pkg.period.start).kind = "PREMIUM"
<1>1. Baseline(pkg) = IF able THEN <<probe>> ELSE <<>>
    BY DEF Baseline
<1> HIDE DEF risk
<1>2. able => OfPackage(pkg, probe)
    BY DEF OfPackage, Priced, PriceOf, ProbeOf
<1> HIDE DEF able, probe
<1>3. Len(<<>>) = 0 /\ List(<<>>)
    BY AimedNone, EmptySeq DEF Aimed
<1>4. List(<<probe>>) /\ Len(<<probe>>) = 1 /\ <<probe>>[1] = probe
    BY ListOne
<1>5. AllOfPackage(pkg, <<>>)
    BY <1>3 DEF AllOfPackage, Unrepeated
<1>6. able => AllOfPackage(pkg, <<probe>>)
    <2>1. \A i \in 1 .. 1 : i = 1
        OBVIOUS
    <2> QED
        BY <1>2, <1>4, <2>1 DEF AllOfPackage, Unrepeated
<1> QED
    BY <1>1, <1>5, <1>6

\* So can all of the core.
LEMMA CoreOf ==
    ASSUME NEW pkg, NEW cases, List(cases)
    PROVE  AllOfPackage(pkg, CoreProbes(pkg, cases))
<1>1. CoreProbes(pkg, cases) = ControlProbes(pkg, cases) \/ CoreProbes(pkg, cases) = Baseline(pkg)
    BY DEF CoreProbes, Using
<1> QED
    BY <1>1, ControlsOf, BaselineOf

\* The first probes of a list are a list of such probes.
LEMMA PrefixOf ==
    ASSUME NEW E, NEW s \in Seq(E), NEW m \in 0 .. Len(s)
    PROVE  LET t == SubSeq(s, 1, m)
           IN  t \in Seq(E) /\ Len(t) = m /\ \A i \in 1 .. m : t[i] = s[i]
<1> DEFINE t == SubSeq(s, 1, m)
<1>1. Len(s) \in Nat /\ m \in Int /\ 1 \in Int
    BY LenProperties
<1>2. \A i \in 1 .. m : s[i] \in E
    <2>1. \A i \in 1 .. m : i \in 1 .. Len(s)
        BY <1>1
    <2> QED
        BY <2>1, ElementOfSeq
<1>3. /\ t \in Seq(E)
      /\ Len(t) = IF 1 <= m THEN m - 1 + 1 ELSE 0
      /\ \A i \in 1 .. m - 1 + 1 : t[i] = s[1 + i - 1]
    BY <1>1, <1>2, SubSeqProperties
<1> HIDE DEF t
<1>4. m - 1 + 1 = m /\ \A i \in 1 .. m : 1 + i - 1 = i
    BY <1>1
<1> QED
    BY <1>1, <1>3, <1>4 DEF t

\* What is cut off at the end of such a list leaves one.
LEMMA FirstOfPackage ==
    ASSUME NEW pkg, NEW s, AllOfPackage(pkg, s), NEW m \in 0 .. Len(s)
    PROVE  AllOfPackage(pkg, SubSeq(s, 1, m)) /\ Len(SubSeq(s, 1, m)) = m
<1> DEFINE t == SubSeq(s, 1, m)
<1>1. s \in Seq(Range(s)) /\ Len(s) \in Nat
    BY Lists DEF AllOfPackage
<1>2. t \in Seq(Range(s)) /\ Len(t) = m /\ \A i \in 1 .. m : t[i] = s[i]
    BY <1>1, PrefixOf
<1> HIDE DEF t
<1>3. \A i \in 1 .. m : i \in 1 .. Len(s)
    BY <1>1
<1> QED
    BY <1>2, <1>3 DEF AllOfPackage, Unrepeated, List, t

-----------------------------------------------------------------------------
(* What is added around the core *)

\* Boundaries are priced by the package and add nothing that is in the core.
LEMMA BoundsOf ==
    ASSUME NEW pkg, IsFiniteSet(Points(pkg)), NEW core, AllOfPackage(pkg, core),
           NEW limit \in Nat, Len(core) <= limit
    PROVE  LET bounds == BoundaryProbes(pkg, core, limit)
           IN  List(bounds) /\ AllOfPackage(pkg, core \o bounds)
<1> DEFINE bounds == BoundaryProbes(pkg, core, limit)
           points == Interleaved(pkg)
           n == Cardinality(Points(pkg))
           probe(p) == ProbeOf("BOUNDARY", [core[1].risk EXCEPT ![p.input] = p.value], core[1].date,
                               {Tag("BOUNDARY", 0), Tag("VAL", p.value)}, {})
           probes == [i \in DOMAIN points |-> probe(points[i])]
           lists == [i \in DOMAIN probes |-> IF Priced(pkg, probes[i]) THEN <<probes[i]>> ELSE <<>>]
           kept == FlattenSeq(lists)
           all == Unique(core, kept)
           m == Min({limit, Len(all)})
           F == {p \in {probe(points[i]) : i \in 1 .. n} : Priced(pkg, p)}
           E == Range(core) \cup F
<1>1. core # <<>> => bounds = SubSeq(all, Len(core) + 1, m)
    BY DEF BoundaryProbes, Using, Kept
<1>2. core = <<>> => bounds = <<>>
    BY DEF BoundaryProbes
<1>3. n \in Nat /\ DOMAIN points = 1 .. n
    <2>1. n \in Nat
        BY FS_CardinalityType
    <2>2. DOMAIN points = 1 .. n
        BY DEF Interleaved, Using, Ranked
    <2> QED
        BY <2>1, <2>2
<1>4. \A p : probe(p).origin = "BOUNDARY"
    BY DEF ProbeOf
<1> HIDE DEF bounds, points, n, probe
<1>5. kept \in Seq(F)
    <2>1. lists = [i \in 1 .. n |-> lists[i]]
        BY <1>3
    <2>2. \A i \in 1 .. n : lists[i] = <<>> \/ (probes[i] \in F /\ lists[i] = <<probes[i]>>)
        BY <1>3
    <2> HIDE DEF lists, probes, F
    <2> QED
        BY <1>3, <2>1, <2>2, KeptOf
<1>6. \A p \in F : OfPackage(pkg, p)
    BY <1>4 DEF OfPackage
<1> HIDE DEF kept, F
<1>7. core \in Seq(Range(core)) /\ Len(core) \in Nat /\ Unrepeated(core)
      /\ Range(core) = {core[i] : i \in 1 .. Len(core)}
    BY Lists DEF AllOfPackage
<1>8. core \in Seq(E) /\ F \in SUBSET E
    BY <1>7, SeqMonotonic, Zenon
<1>9. \A p \in E : OfPackage(pkg, p)
    BY <1>6, <1>7 DEF AllOfPackage
<1> HIDE DEF E
<1>10. CASE core # <<>>
    <2>1. all \in Seq(E) /\ Len(core) <= Len(all)
        BY <1>5, <1>7, <1>8, UniqueAdds
    <2> HIDE DEF all
    <2>2. Len(all) \in Nat
        BY <2>1, LenProperties
    <2>3. m = IF limit <= Len(all) THEN limit ELSE Len(all)
        BY <2>2, OfTwo
    <2>4. m \in Len(core) .. Len(all)
        BY <1>7, <2>1, <2>2, <2>3
    <2> HIDE DEF m
    <2>5. bounds \in Seq(F) /\ core \o bounds \in Seq(E) /\ Unrepeated(core \o bounds)
        <3>1. m \in Len(core) .. Len(Unique(core, kept))
            BY <2>4 DEF all
        <3>2. bounds = SubSeq(Unique(core, kept), Len(core) + 1, m)
            BY <1>1, <1>10 DEF all
        <3> QED
            BY <1>5, <1>7, <1>8, <3>1, <3>2, Extended
    <2>6. \A i \in 1 .. Len(core \o bounds) : (core \o bounds)[i] \in E
        BY <2>5, ElementOfSeq
    <2> QED
        BY <1>9, <2>5, <2>6 DEF AllOfPackage, List, bounds
<1>11. CASE core = <<>>
    <2>1. bounds = <<>> /\ core \o bounds = core
        BY <1>2, <1>7, <1>11, ConcatEmptySeq
    <2>2. List(<<>>)
        BY AimedNone DEF Aimed
    <2> QED
        BY <2>1, <2>2 DEF bounds
<1> QED
    BY <1>10, <1>11

\* What mutations add is aimed at something and differs from all that is known.
LEMMA FreshOf ==
    ASSUME NEW known, List(known), Unrepeated(known), NEW mutations, Aimed(mutations)
    PROVE  LET fresh == Fresh(known, mutations)
           IN  Aimed(fresh) /\ List(known \o fresh) /\ Unrepeated(known \o fresh)
<1> DEFINE fresh == Fresh(known, mutations)
           all == Unique(known, mutations)
           F == Range(mutations)
           E == Range(known) \cup F
<1>1. fresh = SubSeq(all, Len(known) + 1, Len(all))
    BY DEF Fresh, Using
<1>2. known \in Seq(Range(known)) /\ Len(known) \in Nat /\ mutations \in Seq(F)
      /\ F = {mutations[i] : i \in 1 .. Len(mutations)}
    BY Lists DEF Aimed
<1>3. known \in Seq(E) /\ F \in SUBSET E
    BY <1>2, SeqMonotonic, Zenon
<1>4. \A p \in F : p.origin = "MUTATION" /\ p.tags # {}
    BY <1>2 DEF Aimed
<1> HIDE DEF F, E
<1>5. all \in Seq(E) /\ Len(known) <= Len(all)
    BY <1>2, <1>3, UniqueAdds
<1> DEFINE m == Len(all)
<1>6. m \in Len(known) .. Len(Unique(known, mutations))
    BY <1>2, <1>5, LenProperties
<1> HIDE DEF fresh, m
<1>7. fresh \in Seq(F) /\ known \o fresh \in Seq(E) /\ Unrepeated(known \o fresh)
    <2>1. fresh = SubSeq(Unique(known, mutations), Len(known) + 1, m)
        BY <1>1 DEF m
    <2> QED
        BY <1>2, <1>3, <1>6, <2>1, Extended
<1>8. \A i \in 1 .. Len(fresh) : fresh[i] \in F
    BY <1>7, ElementOfSeq
<1> QED
    BY <1>4, <1>7, <1>8 DEF Aimed, List, fresh

-----------------------------------------------------------------------------
(* Allotting the slots *)

\* Mutations get a slot whenever there is one, and never more than there are.
LEMMA QuotaFits ==
    ASSUME NEW slots \in Nat, NEW b \in Nat, NEW f \in Nat
    PROVE  LET q == MutationQuota(slots, b, f)
           IN  q \in Nat /\ q <= slots /\ (slots # 0 /\ f # 0 => q # 0)
<1>1. slots \div 2 \in Nat /\ slots \div 2 <= slots
    OBVIOUS
<1> DEFINE half == slots \div 2
           more == Max({1, half})
<1>2. more = IF 1 >= half THEN 1 ELSE half
    BY <1>1, OfTwo
<1>3. half \in Nat /\ half <= slots
    BY <1>1
<1> HIDE DEF half, more
<1>4. more \in Nat /\ more # 0 /\ (slots # 0 => more <= slots)
    BY <1>2, <1>3
<1>5. Min({f, more}) = IF f <= more THEN f ELSE more
    BY <1>4, OfTwo
<1>6. MutationQuota(slots, b, f) = IF f = 0 \/ slots = 0 THEN 0 ELSE Min({f, more})
    BY DEF MutationQuota, more, half
<1> QED
    BY <1>4, <1>5, <1>6

\* A plan keeps to its slots, prices no policy twice, and what is not aimed at
\* a finding is priced by the package; mutations are left over only when one
\* of them is selected or the core takes every slot.
PlanSound(pkg, plan, core, max) ==
    /\ Len(plan.selected) <= max
    /\ Unrepeated(plan.selected)
    /\ \A i \in 1 .. Len(plan.selected) :
          plan.selected[i].origin # "MUTATION" => Priced(pkg, plan.selected[i])
    /\ plan.mutations # <<>> /\ Len(core) < max =>
          \E i \in 1 .. Len(plan.selected) : plan.selected[i].origin = "MUTATION"

\* Allotting the slots yields a sound plan.
LEMMA AllottedOf ==
    ASSUME NEW pkg, NEW max \in Nat, NEW core, List(core), Len(core) <= max,
           NEW bounds, List(bounds), AllOfPackage(pkg, core \o bounds),
           NEW fresh, Aimed(fresh), Unrepeated((core \o bounds) \o fresh)
    PROVE  PlanSound(pkg, Allotted(core, bounds, fresh, max), core, max)
<1> DEFINE plan == Allotted(core, bounds, fresh, max)
           slots == max - Len(core)
           quota == MutationQuota(slots, Len(bounds), Len(fresh))
           chosen == Optimize(fresh, quota)
           kept == Min({Len(bounds), slots - Len(chosen)})
           first == SubSeq(bounds, 1, kept)
           known == core \o bounds
           whole == known \o fresh
           selected == core \o first \o chosen
           lists == [i \in DOMAIN fresh |-> IF fresh[i] \notin Range(chosen) THEN <<fresh[i]>> ELSE <<>>]
           c == Len(core)
           b == Len(bounds)
           f == Len(fresh)
<1>1. plan.selected = selected /\ plan.mutations = FlattenSeq(lists)
    <2> DEFINE spare == SubSeq(bounds, kept + 1, Len(bounds))
    <2>1. plan = [selected |-> selected, spare |-> spare, mutations |-> FlattenSeq(lists)]
        BY DEF Allotted, Using, Kept
    <2> HIDE DEF plan, selected, lists, spare
    <2> QED
        BY <2>1
<1>2. c \in Nat /\ b \in Nat /\ f \in Nat /\ slots \in Nat /\ c <= max
    BY Lists DEF Aimed
<1>3. quota \in Nat /\ quota <= slots /\ (slots # 0 /\ f # 0 => quota # 0)
    BY <1>2, QuotaFits
<1> HIDE DEF plan, quota
<1>4. fresh \in Seq(Range(fresh)) /\ \A p \in Range(fresh) : p.origin = "MUTATION" /\ p.tags # {}
    <2>1. fresh \in Seq(Range(fresh)) /\ Range(fresh) = {fresh[i] : i \in 1 .. f}
        BY Lists DEF Aimed
    <2> QED
        BY <2>1 DEF Aimed
<1>5. /\ chosen \in Seq(Range(fresh)) /\ Len(chosen) <= quota
      /\ \E at \in [1 .. Len(chosen) -> 1 .. Len(fresh)] :
             /\ \A i \in 1 .. Len(chosen) : chosen[i] = fresh[at[i]]
             /\ \A i, j \in 1 .. Len(chosen) : at[i] = at[j] => i = j
      /\ fresh # <<>> /\ quota # 0 => Len(chosen) # 0
    <2> HIDE DEF selected, first, kept, lists, known, whole
    <2>1. \A p \in Range(fresh) : p.tags # {}
        BY <1>4
    <2>2. ChosenFrom(chosen, Range(fresh), fresh, quota)
        BY <1>3, <1>4, <2>1, Chosen
    <2> HIDE DEF chosen
    <2> QED
        BY <2>2 DEF ChosenFrom
<1> HIDE DEF chosen
<1> DEFINE h == Len(chosen)
<1>6. h \in Nat /\ h <= slots /\ List(chosen)
    BY <1>2, <1>3, <1>5, LenProperties DEF List
<1>7. kept \in 0 .. b /\ kept <= slots - h
    <2>1. kept = IF b <= slots - h THEN b ELSE slots - h
        BY <1>2, <1>6, OfTwo
    <2> QED
        BY <1>2, <1>6, <2>1
<1> HIDE DEF kept
<1>8. List(first) /\ Len(first) = kept /\ \A i \in 1 .. kept : first[i] = bounds[i]
    BY <1>7, PrefixOf DEF List
<1> HIDE DEF first
<1>9. /\ Len(known) = c + b /\ List(known)
      /\ \A i \in 1 .. c + b : known[i] = IF i <= c THEN core[i] ELSE bounds[i - c]
    BY ListConcat
<1>10. /\ List(core \o first) /\ Len(core \o first) = c + kept
       /\ \A i \in 1 .. c + kept : (core \o first)[i] = IF i <= c THEN core[i] ELSE first[i - c]
    BY <1>8, ListConcat
<1> HIDE DEF known
<1>11. \A i \in 1 .. c + kept : (core \o first)[i] = known[i] /\ i \in 1 .. c + b
    <2> SUFFICES ASSUME NEW i \in 1 .. c + kept
                 PROVE  (core \o first)[i] = known[i] /\ i \in 1 .. c + b
        BY Zenon
    <2>1. i \in 1 .. c + b
        BY <1>2, <1>7
    <2>2. CASE i <= c
        BY <1>9, <1>10, <2>1, <2>2
    <2>3. CASE ~(i <= c)
        <3>1. i - c \in 1 .. kept
            BY <1>2, <1>7, <2>3
        <3> QED
            BY <1>8, <1>9, <1>10, <2>1, <2>3, <3>1
    <2> QED
        BY <2>2, <2>3
<1> DEFINE front == core \o first
<1>12. /\ List(front) /\ Len(front) = c + kept
       /\ \A i \in 1 .. c + kept : front[i] = known[i] /\ i \in 1 .. c + b
    BY <1>10, <1>11
<1>13. selected = front \o chosen
    OBVIOUS
<1> HIDE DEF front, selected
<1>14. /\ Len(selected) = c + kept + h
       /\ \A i \in 1 .. c + kept + h : selected[i] = IF i <= c + kept THEN front[i] ELSE chosen[i - (c + kept)]
    BY <1>6, <1>12, <1>13, ListConcat
<1>15. /\ Len(whole) = c + b + f
       /\ \A i \in 1 .. c + b + f : whole[i] = IF i <= c + b THEN known[i] ELSE fresh[i - (c + b)]
    <2>1. List(fresh)
        BY DEF Aimed
    <2>2. /\ Len(whole) = Len(known) + f
          /\ \A i \in 1 .. Len(known) + f :
                whole[i] = IF i <= Len(known) THEN known[i] ELSE fresh[i - Len(known)]
        BY <1>9, <2>1, ListConcat
    <2> HIDE DEF whole
    <2> QED
        BY <1>9, <2>2
<1>16. Unrepeated(whole)
    BY DEF known
<1> HIDE DEF whole
<1>17. Len(selected) <= max
    BY <1>2, <1>6, <1>7, <1>14
<1>18. PICK at \in [1 .. h -> 1 .. f] :
             /\ \A i \in 1 .. h : chosen[i] = fresh[at[i]]
             /\ \A i, j \in 1 .. h : at[i] = at[j] => i = j
    BY <1>5
<1> DEFINE from(i) == IF i <= c + kept THEN i ELSE c + b + at[i - (c + kept)]
<1>19. ASSUME NEW i \in 1 .. c + kept + h, ~(i <= c + kept)
       PROVE  /\ i - (c + kept) \in 1 .. h /\ at[i - (c + kept)] \in 1 .. f
              /\ selected[i] = chosen[i - (c + kept)]
              /\ selected[i] = whole[c + b + at[i - (c + kept)]]
    <2>1. i - (c + kept) \in 1 .. h
        BY <1>2, <1>6, <1>7, <1>19
    <2> DEFINE k == i - (c + kept)
    <2>2. k \in 1 .. h /\ at[k] \in 1 .. f
        BY <1>18, <2>1
    <2>3. selected[i] = chosen[k]
        BY <1>14, <1>19
    <2> HIDE DEF k
    <2>4. selected[i] = fresh[at[k]]
        BY <1>18, <2>2, <2>3
    <2>5. c + b + at[k] \in 1 .. c + b + f /\ ~(c + b + at[k] <= c + b) /\ (c + b + at[k]) - (c + b) = at[k]
        BY <1>2, <2>2
    <2>6. selected[i] = whole[c + b + at[k]]
        BY <1>15, <2>4, <2>5
    <2> QED
        BY <2>2, <2>3, <2>6 DEF k
<1>20. ASSUME NEW i \in 1 .. c + kept, i \in 1 .. c + kept + h
       PROVE  selected[i] = whole[i] /\ selected[i] = known[i] /\ i \in 1 .. c + b /\ i \in 1 .. c + b + f
    <2>1. i \in 1 .. c + b /\ i \in 1 .. c + b + f /\ i <= c + kept /\ i <= c + b
        BY <1>2, <1>7
    <2> QED
        BY <1>12, <1>14, <1>15, <1>20, <2>1
<1>21. Unrepeated(selected)
    <2>1. ASSUME NEW i \in 1 .. c + kept + h
          PROVE  from(i) \in 1 .. c + b + f /\ selected[i] = whole[from(i)]
        <3>1. CASE i <= c + kept
            <4>1. i \in 1 .. c + kept
                BY <1>2, <1>7, <3>1
            <4> QED
                BY <1>20, <3>1, <4>1
        <3>2. CASE ~(i <= c + kept)
            <4> DEFINE to == at[i - (c + kept)]
            <4>1. to \in 1 .. f /\ selected[i] = whole[c + b + to] /\ from(i) = c + b + to
                BY <1>19, <3>2
            <4> HIDE DEF to, from
            <4>2. c + b + to \in 1 .. c + b + f
                BY <1>2, <4>1
            <4> QED
                BY <4>1, <4>2
        <3> HIDE DEF from
        <3> QED
            BY <3>1, <3>2
    <2>2. ASSUME NEW i \in 1 .. c + kept + h, NEW j \in 1 .. c + kept + h, from(i) = from(j)
          PROVE  i = j
        <3>1. \A x \in 1 .. c + kept + h : x <= c + kept => from(x) = x /\ x <= c + b
            BY <1>2, <1>6, <1>7
        <3>2. \A x \in 1 .. c + kept + h : ~(x <= c + kept) =>
                  from(x) = c + b + at[x - (c + kept)] /\ at[x - (c + kept)] \in 1 .. f
                  /\ x - (c + kept) \in 1 .. h
            BY <1>19
        <3> HIDE DEF from
        <3>3. CASE i <= c + kept /\ j <= c + kept
            BY <2>2, <3>1, <3>3
        <3>4. CASE i <= c + kept /\ ~(j <= c + kept)
            BY <1>2, <2>2, <3>1, <3>2, <3>4
        <3>5. CASE ~(i <= c + kept) /\ j <= c + kept
            BY <1>2, <2>2, <3>1, <3>2, <3>5
        <3>6. CASE ~(i <= c + kept) /\ ~(j <= c + kept)
            <4>1. at[i - (c + kept)] = at[j - (c + kept)]
                BY <1>2, <2>2, <3>2, <3>6
            <4>2. i - (c + kept) = j - (c + kept)
                BY <1>18, <3>2, <3>6, <4>1
            <4> QED
                BY <1>2, <1>7, <4>2
        <3> QED
            BY <3>3, <3>4, <3>5, <3>6
    <2> HIDE DEF from
    <2> QED
        BY <1>14, <1>15, <1>16, <2>1, <2>2 DEF Unrepeated
<1>22. ASSUME NEW i \in 1 .. Len(selected), selected[i].origin # "MUTATION"
       PROVE  Priced(pkg, selected[i])
    <2>1. i \in 1 .. c + kept + h
        BY <1>14
    <2>2. i <= c + kept
        <3> SUFFICES ASSUME ~(i <= c + kept) PROVE FALSE
            OBVIOUS
        <3>1. i - (c + kept) \in 1 .. h /\ selected[i] = chosen[i - (c + kept)]
            BY <1>19, <2>1
        <3>2. selected[i] \in Range(fresh)
            BY <1>5, <3>1, ElementOfSeq
        <3> QED
            BY <1>4, <1>22, <3>2
    <2>3. i \in 1 .. c + kept
        BY <1>2, <1>7, <2>1, <2>2
    <2>4. selected[i] = known[i] /\ i \in 1 .. Len(known)
        BY <1>9, <1>20, <2>1, <2>3
    <2> QED
        BY <2>4 DEF AllOfPackage, OfPackage, known
<1>23. ASSUME plan.mutations # <<>>, c < max
       PROVE  \E i \in 1 .. Len(selected) : selected[i].origin = "MUTATION"
    <2>1. f # 0
        <3> SUFFICES ASSUME f = 0 PROVE FALSE
            OBVIOUS
        <3>1. DOMAIN fresh = 1 .. f
            BY Lists DEF Aimed
        <3>2. lists = [i \in 1 .. f |-> lists[i]]
            BY <3>1
        <3>3. \A i \in 1 .. f : lists[i] = <<>> \/ (fresh[i] \in {} /\ lists[i] = <<fresh[i]>>)
            BY <1>2
        <3> HIDE DEF lists
        <3>4. f = 0 => FlattenSeq(lists) = <<>>
            BY <1>2, <3>2, <3>3, KeptOf
        <3> QED
            BY <1>1, <1>23, <3>4
    <2>2. quota # 0 /\ fresh # <<>>
        BY <1>2, <1>3, <1>23, <2>1, EmptySeq
    <2>3. h # 0 /\ 1 \in 1 .. h
        BY <1>5, <1>6, <2>2
    <2> DEFINE i == c + kept + 1
    <2>4. i \in 1 .. c + kept + h /\ ~(i <= c + kept) /\ i - (c + kept) = 1
        BY <1>2, <1>6, <1>7, <2>3
    <2>5. selected[i] = chosen[1]
        BY <1>14, <2>4
    <2>6. chosen[1] \in Range(fresh)
        BY <1>5, <2>3, ElementOfSeq
    <2> QED
        BY <1>4, <1>14, <2>4, <2>5, <2>6
<1> HIDE DEF selected, lists
<1> QED
    BY <1>1, <1>17, <1>21, <1>22, <1>23 DEF PlanSound, plan

-----------------------------------------------------------------------------
(* The plan *)

\* Whatever the package, the findings, the examples and the number of slots,
\* generate_plan (planner.py) keeps to its slots, prices no policy twice, adds
\* nothing around the package that the package cannot price, and leaves no
\* mutation over without selecting one unless the core takes every slot.
THEOREM PlansAreSound ==
    ASSUME NEW pkg, IsFiniteSet(Points(pkg)), NEW findings, IsFiniteSet(findings),
           NEW cases, List(cases), NEW max \in Nat
    PROVE  PlanSound(pkg, GeneratePlan(pkg, findings, cases, max), CoreProbes(pkg, cases), max)
<1> DEFINE all == CoreProbes(pkg, cases)
           m == Min({max, Len(all)})
           core == SubSeq(all, 1, m)
           bounds == BoundaryProbes(pkg, core, max)
           mutations == Mutations(pkg, findings, core[1])
           fresh == IF core = <<>> THEN <<>> ELSE Fresh(core \o bounds, mutations)
           plan == Allotted(core, bounds, fresh, max)
<1>1. GeneratePlan(pkg, findings, cases, max) = plan
    BY DEF GeneratePlan, Using
<1>2. AllOfPackage(pkg, all) /\ Len(all) \in Nat
    BY CoreOf, Lists DEF AllOfPackage
<1> HIDE DEF all
<1>3. m \in 0 .. Len(all) /\ m <= max /\ (Len(all) < max => m = Len(all))
    <2>1. m = IF max <= Len(all) THEN max ELSE Len(all)
        BY <1>2, OfTwo
    <2> QED
        BY <1>2, <2>1
<1> HIDE DEF m
<1>4. AllOfPackage(pkg, core) /\ Len(core) = m
    BY <1>2, <1>3, FirstOfPackage
<1> HIDE DEF core
<1>5. List(bounds) /\ AllOfPackage(pkg, core \o bounds)
    BY <1>3, <1>4, BoundsOf
<1> HIDE DEF bounds
<1>6. Aimed(fresh) /\ Unrepeated((core \o bounds) \o fresh)
    <2>1. CASE core = <<>>
        <3>1. fresh = <<>>
            BY <2>1
        <3>2. (core \o bounds) \o <<>> = core \o bounds
            BY <1>5, ConcatEmptySeq DEF AllOfPackage, List
        <3> HIDE DEF fresh
        <3> QED
            BY <1>5, <3>1, <3>2, AimedNone DEF AllOfPackage
    <2>2. CASE core # <<>>
        <3>1. fresh = Fresh(core \o bounds, mutations)
            BY <2>2
        <3>2. Aimed(mutations)
            BY AimedMutations
        <3>3. List(core \o bounds) /\ Unrepeated(core \o bounds)
            BY <1>5 DEF AllOfPackage
        <3> HIDE DEF fresh, mutations
        <3> QED
            BY <3>1, <3>2, <3>3, FreshOf
    <2> HIDE DEF fresh
    <2> QED
        BY <2>1, <2>2
<1> HIDE DEF fresh
<1>7. List(core) /\ Len(core) <= max
    BY <1>3, <1>4 DEF AllOfPackage
<1>8. PlanSound(pkg, plan, core, max)
    BY <1>5, <1>6, <1>7, AllottedOf
<1> HIDE DEF plan
<1>9. PlanSound(pkg, plan, all, max)
    BY <1>3, <1>4, <1>8 DEF PlanSound
<1> QED
    BY <1>1, <1>9 DEF all

\* A mission stays what it was when it began.
LEMMA MissionStays == Spec => [](mission \in Missions)
<1>1. Init => mission \in Missions
    BY DEF Init
<1>2. [Next]_vars => UNCHANGED mission
    <2>1. ValidateRequest => UNCHANGED mission
        BY DEF ValidateRequest
    <2>2. DiffSources => UNCHANGED mission
        BY DEF DiffSources
    <2>3. PrioritizeDifferences => UNCHANGED mission
        BY DEF PrioritizeDifferences
    <2>4. BeginClean => UNCHANGED mission
        BY DEF BeginClean
    <2>5. ProbeClean => UNCHANGED mission
        BY DEF ProbeClean
    <2>6. DecideClean => UNCHANGED mission
        BY DEF DecideClean
    <2>7. AnalyzeImpact => UNCHANGED mission
        BY DEF AnalyzeImpact
    <2>8. PlanTests => UNCHANGED mission
        BY DEF PlanTests
    <2>9. SelectTests => UNCHANGED mission
        BY DEF SelectTests
    <2>10. ExecuteProbe => UNCHANGED mission
        BY DEF ExecuteProbe
    <2>11. EndRound => UNCHANGED mission
        BY DEF EndRound
    <2>12. JudgeSufficiency => UNCHANGED mission
        BY DEF JudgeSufficiency
    <2>13. AccountForTarget => UNCHANGED mission
        BY DEF AccountForTarget
    <2>14. Reconcile => UNCHANGED mission
        BY DEF Reconcile
    <2>15. JustifyPortfolio => UNCHANGED mission
        BY DEF JustifyPortfolio
    <2>16. AskPortfolio => UNCHANGED mission
        BY DEF AskPortfolio
    <2>17. PortfolioWaived => UNCHANGED mission
        BY DEF PortfolioWaived
    <2>18. ScanPackages => UNCHANGED mission
        BY DEF ScanPackages
    <2>19. ScanConnector => UNCHANGED mission
        BY DEF ScanConnector
    <2>20. ExplainFacts => UNCHANGED mission
        BY DEF ExplainFacts
    <2>21. DraftExplanation => UNCHANGED mission
        BY DEF DraftExplanation
    <2>22. Remediate => UNCHANGED mission
        BY DEF Remediate
    <2>23. ProposeAlignment => UNCHANGED mission
        BY DEF ProposeAlignment
    <2>24. ProposeRemediation => UNCHANGED mission
        BY DEF ProposeRemediation
    <2>25. SelectRetests => UNCHANGED mission
        BY DEF SelectRetests
    <2>26. Revalidate => UNCHANGED mission
        BY DEF Revalidate
    <2>27. DecideRelease => UNCHANGED mission
        BY DEF DecideRelease
    <2>28. CheckCancelled => UNCHANGED mission
        BY DEF CheckCancelled
    <2>29. CancelMission => UNCHANGED mission
        BY DEF CancelMission
    <2>30. UNCHANGED vars => UNCHANGED mission
        BY DEF vars
    <2> QED
        BY <2>1, <2>2, <2>3, <2>4, <2>5, <2>6, <2>7, <2>8, <2>9, <2>10, <2>11, <2>12, <2>13, <2>14, <2>15, <2>16, <2>17, <2>18, <2>19, <2>20, <2>21, <2>22, <2>23, <2>24, <2>25, <2>26, <2>27, <2>28, <2>29, <2>30 DEF Next, Step
<1>3. mission \in Missions /\ [Next]_vars => (mission \in Missions)'
    BY <1>2
<1> QED
    BY <1>1, <1>3, PTL DEF Spec

\* The plan of every mission that begins is sound.
THEOREM PlanSafe == Spec => []PlanIsSound
<1>1. ReviewsAssumed(Reviews)
    BY ReviewsAssumption DEF Using
<1>2. ASSUME mission \in Missions PROVE PlanIsSound
    <2> DEFINE r == Reviews[mission.name]
               core == CoreProbes(r.left, r.cases)
               plan == Plan(r, r.cases)
    <2>1. /\ IsFiniteSet(Points(r.left)) /\ IsFiniteSet(Findings(r))
          /\ r.cases \in Seq(Range(r.cases))
          /\ Len(core) < MaxScenarios
        BY <1>1, <1>2 DEF ReviewsAssumed
    <2>2. Packages = r
        BY DEF Packages
    <2> HIDE DEF r
    <2>3. MaxScenarios \in Nat
        BY DEF MaxScenarios
    <2>4. PlanSound(r.left, plan, core, MaxScenarios)
        BY <2>1, <2>3, PlansAreSound DEF Plan, List
    <2> HIDE DEF plan, core
    <2>5. /\ Len(plan.selected) <= MaxScenarios
          /\ \A i, j \in 1 .. Len(plan.selected) :
                SameProbe(plan.selected[i], plan.selected[j]) => i = j
          /\ \A i \in 1 .. Len(plan.selected) :
                plan.selected[i].origin # "MUTATION" => Priced(r.left, plan.selected[i])
          /\ plan.mutations # <<>> =>
                \E i \in 1 .. Len(plan.selected) : plan.selected[i].origin = "MUTATION"
        BY <2>1, <2>4 DEF PlanSound, Unrepeated
    <2> QED
        BY <2>2, <2>5 DEF PlanIsSound, plan
<1> QED
    BY <1>2, MissionStays, PTL
=============================================================================
