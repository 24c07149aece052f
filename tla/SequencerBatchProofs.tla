------------------------ MODULE SequencerBatchProofs ------------------------
(***************************************************************************)
(* Proof that the decoder of a batch finds the elements that were encoded, *)
(* in any number of contexts and of any length, and what it makes of       *)
(* calldata that ends too early.                                           *)
(*                                                                         *)
(* The encoder and ToNumber are recursions over sequences.  Induction is   *)
(* over sets: a set with 0 and all successors of its elements has all      *)
(* numbers.                                                                *)
(***************************************************************************)
EXTENDS SequencerBatch, WellFoundedInduction, FiniteSetTheorems,
        SequenceTheorems, TLAPS

-----------------------------------------------------------------------------
(* Induction and recursion.                                                *)

LEMMA Least ==
    ASSUME NEW T, T \subseteq Nat, T # {}
    PROVE  \E n \in T : \A m \in T : n <= m
<1> DEFINE less == OpToRel(<, Nat)
<1>1. IsWellFoundedOn(less, Nat)
    BY NatLessThanWellFounded
<1>2. \A m, n \in Nat : m < n => <<m, n>> \in less
    BY DEF OpToRel
<1> HIDE DEF less
<1>3. PICK n \in T : \A m \in T : <<m, n>> \notin less
    BY <1>1, WFMin
<1>4. ASSUME NEW m \in T
      PROVE  n <= m
    <2>1. m \in Nat /\ n \in Nat
        OBVIOUS
    <2>2. ~(m < n)
        BY <1>2, <1>3, <1>4, <2>1
    <2> QED
        BY <2>1, <2>2
<1> QED
    BY <1>4

LEMMA Induction ==
    ASSUME NEW n \in Nat, NEW T, 0 \in T,
           \A m \in 0 .. n - 1 : m \in T => m + 1 \in T
    PROVE  0 .. n \subseteq T
<1> SUFFICES ASSUME (0 .. n) \ T # {}
             PROVE  FALSE
    OBVIOUS
<1>1. PICK m \in (0 .. n) \ T : \A k \in (0 .. n) \ T : m <= k
    <2>1. (0 .. n) \ T \subseteq Nat
        OBVIOUS
    <2> QED
        BY <2>1, Least
<1>2. m - 1 \in 0 .. n - 1 /\ m - 1 \in T
    BY <1>1
<1> QED
    BY <1>1, <1>2

\* A recursion along 0 .. n defines a function.
Solves(f, m, base, step) ==
    /\ f[0] = base
    /\ \A k \in 1 .. m : f[k] = step[k][f[k - 1]]

LEMMA Recursion ==
    ASSUME NEW X, NEW base \in X, NEW n \in Nat,
           NEW step \in [1 .. n -> [X -> X]]
    PROVE  \E f \in [0 .. n -> X] : Solves(f, n, base, step)
<1> DEFINE T == {m \in 0 .. n :
                    \E f \in [0 .. m -> X] : Solves(f, m, base, step)}
<1>1. 0 \in T
    <2>1. [k \in 0 .. 0 |-> base] \in [0 .. 0 -> X]
        OBVIOUS
    <2>2. Solves([k \in 0 .. 0 |-> base], 0, base, step)
        BY DEF Solves
    <2> QED
        BY <2>1, <2>2
<1>2. ASSUME NEW m \in 0 .. n - 1, m \in T
      PROVE  m + 1 \in T
    <2>1. PICK f \in [0 .. m -> X] : Solves(f, m, base, step)
        BY <1>2
    <2> DEFINE g == [k \in 0 .. m + 1 |->
                        IF k = m + 1 THEN step[m + 1][f[m]] ELSE f[k]]
    <2>2. step[m + 1][f[m]] \in X
        <3>1. m + 1 \in 1 .. n /\ m \in 0 .. m
            OBVIOUS
        <3>2. step[m + 1] \in [X -> X] /\ f[m] \in X
            BY <2>1, <3>1
        <3> QED
            BY <3>2
    <2>3. g \in [0 .. m + 1 -> X]
        <3>1. \A k \in 0 .. m + 1 : k # m + 1 => k \in 0 .. m
            OBVIOUS
        <3> QED
            BY <2>1, <2>2, <3>1
    <2>4. ASSUME NEW k \in 1 .. m + 1
          PROVE  g[k] = step[k][g[k - 1]]
        <3>1. g[k - 1] = f[k - 1]
            OBVIOUS
        <3>2. CASE k = m + 1
            BY <3>1, <3>2
        <3>3. CASE k # m + 1
            <4>1. k \in 1 .. m /\ g[k] = f[k]
                BY <3>3
            <4> QED
                BY <2>1, <3>1, <4>1 DEF Solves
        <3> QED
            BY <3>2, <3>3
    <2>5. g[0] = base
        BY <2>1 DEF Solves
    <2> HIDE DEF g
    <2>6. Solves(g, m + 1, base, step)
        BY <2>4, <2>5 DEF Solves
    <2> QED
        BY <2>3, <2>6
<1>3. n \in T
    <2> HIDE DEF T
    <2>1. 0 .. n \subseteq T
        BY <1>1, <1>2, Induction
    <2> QED
        BY <2>1
<1> QED
    BY <1>3

-----------------------------------------------------------------------------
(* What FlattenSeq makes of a sequence of sequences: part k begins behind  *)
(* the parts before it.                                                    *)

Offsets(parts) ==
    LET offset[k \in 0 .. Len(parts)] ==
            IF k = 0 THEN 0 ELSE offset[k - 1] + Len(parts[k])
    IN  offset

LEMMA OffsetsStep ==
    ASSUME NEW S, NEW parts \in Seq(Seq(S))
    PROVE  /\ Offsets(parts) \in [0 .. Len(parts) -> Nat]
           /\ Offsets(parts)[0] = 0
           /\ \A k \in 1 .. Len(parts) :
                 Offsets(parts)[k] = Offsets(parts)[k - 1] + Len(parts[k])
<1> DEFINE n == Len(parts)
           step == [k \in 1 .. n |-> [x \in Nat |-> x + Len(parts[k])]]
           recursion(f) ==
               f = [k \in 0 .. n |->
                       IF k = 0 THEN 0 ELSE f[k - 1] + Len(parts[k])]
<1>1. n \in Nat /\ \A k \in 1 .. n : Len(parts[k]) \in Nat
    OBVIOUS
<1>2. step \in [1 .. n -> [Nat -> Nat]]
    BY <1>1
<1>3. PICK f \in [0 .. n -> Nat] : Solves(f, n, 0, step)
    <2> HIDE DEF step, n
    <2> QED
        BY <1>1, <1>2, Recursion
<1>4. \A k \in 1 .. n : f[k] = f[k - 1] + Len(parts[k])
    <2> SUFFICES ASSUME NEW k \in 1 .. n
                 PROVE  f[k] = f[k - 1] + Len(parts[k])
        OBVIOUS
    <2>1. f[k - 1] \in Nat
        <3>1. k - 1 \in 0 .. n
            BY <1>1
        <3> QED
            BY <1>3, <3>1
    <2> QED
        BY <1>3, <2>1 DEF Solves
<1>5. f[0] = 0
    BY <1>3 DEF Solves
<1>6. recursion(f)
    <2>1. \A k \in 0 .. n : f[k] = IF k = 0 THEN 0
                                   ELSE f[k - 1] + Len(parts[k])
        BY <1>4, <1>5
    <2> QED
        BY <1>3, <2>1
<1>7. recursion(Offsets(parts))
    BY <1>6, Zenon DEF Offsets
<1> DEFINE o == Offsets(parts)
<1> HIDE DEF o
<1>8. o = f
    <2>1. recursion(o)
        BY <1>7 DEF o
    <2> DEFINE T == {k \in 0 .. n : o[k] = f[k]}
    <2>2. 0 \in T
        BY <2>1, <1>5
    <2>3. ASSUME NEW k \in 0 .. n - 1, k \in T
          PROVE  k + 1 \in T
        <3>1. o[k + 1] = o[k] + Len(parts[k + 1])
            BY <2>1
        <3>2. f[k + 1] = f[k] + Len(parts[k + 1])
            BY <1>4
        <3> QED
            BY <2>3, <3>1, <3>2
    <2>4. 0 .. n \subseteq T
        <3> HIDE DEF T, n
        <3> QED
            BY <1>1, <2>2, <2>3, Induction
    <2> QED
        BY <2>1, <2>4, <1>3
<1> QED
    BY <1>3, <1>4, <1>5, <1>8 DEF o

\* FlattenSeq joins the parts from the left.
LEMMA FlattenStep ==
    ASSUME NEW S, NEW parts \in Seq(Seq(S)), parts # <<>>
    PROVE  \E joined \in [1 .. Len(parts) -> Seq(S)] :
               /\ joined[1] = parts[1]
               /\ \A k \in 2 .. Len(parts) :
                     joined[k] = joined[k - 1] \o parts[k]
               /\ FlattenSeq(parts) = joined[Len(parts)]
<1> DEFINE n == Len(parts)
           step == [k \in 1 .. n - 1 |-> [x \in Seq(S) |-> x \o parts[k + 1]]]
           recursion(f) ==
               f = [k \in 1 .. n |->
                       IF k = 1 THEN parts[k] ELSE f[k - 1] \o parts[k]]
<1>1. /\ n \in Nat /\ n > 0
      /\ \A k \in 1 .. n : parts[k] \in Seq(S)
    OBVIOUS
<1>2. step \in [1 .. n - 1 -> [Seq(S) -> Seq(S)]]
    <2>1. \A k \in 1 .. n - 1 : parts[k + 1] \in Seq(S)
        BY <1>1
    <2>2. \A x, y \in Seq(S) : x \o y \in Seq(S)
        OBVIOUS
    <2> HIDE DEF n
    <2> QED
        BY <2>1, <2>2
<1>3. PICK f \in [0 .. n - 1 -> Seq(S)] : Solves(f, n - 1, parts[1], step)
    <2>1. n - 1 \in Nat /\ parts[1] \in Seq(S)
        BY <1>1
    <2> HIDE DEF step, n
    <2> QED
        BY <1>2, <2>1, Recursion
<1> DEFINE g == [k \in 1 .. n |-> f[k - 1]]
<1>4. g \in [1 .. n -> Seq(S)] /\ g[1] = parts[1]
    <2>1. \A k \in 1 .. n : k - 1 \in 0 .. n - 1
        BY <1>1
    <2> HIDE DEF n
    <2> QED
        BY <1>1, <1>3, <2>1 DEF Solves
<1>5. ASSUME NEW k \in 2 .. n
      PROVE  g[k] = g[k - 1] \o parts[k]
    <2>1. /\ k - 1 \in 1 .. n - 1 /\ k - 2 \in 0 .. n - 1
          /\ k - 1 \in 1 .. n /\ k \in 1 .. n
        BY <1>1
    <2>2. f[k - 1] = step[k - 1][f[k - 2]]
        <3>1. k - 1 - 1 = k - 2
            BY <2>1
        <3> HIDE DEF step, n
        <3> QED
            BY <1>3, <2>1, <3>1 DEF Solves
    <2>3. f[k - 2] \in Seq(S)
        BY <1>3, <2>1
    <2>4. step[k - 1][f[k - 2]] = f[k - 2] \o parts[k - 1 + 1]
        BY <2>1, <2>3
    <2>5. k - 1 + 1 = k /\ k - 1 - 1 = k - 2
        BY <2>1
    <2> HIDE DEF step
    <2> QED
        BY <2>1, <2>2, <2>4, <2>5
<1> HIDE DEF g
<1>6. recursion(g)
    <2>1. \A k \in 1 .. n : g[k] = IF k = 1 THEN parts[k]
                                   ELSE g[k - 1] \o parts[k]
        <3> SUFFICES ASSUME NEW k \in 1 .. n
                     PROVE  g[k] = IF k = 1 THEN parts[k]
                                   ELSE g[k - 1] \o parts[k]
            OBVIOUS
        <3>1. CASE k = 1
            BY <1>4, <3>1
        <3>2. CASE k # 1
            <4>1. k \in 2 .. n
                BY <1>1, <3>2
            <4> HIDE DEF n
            <4> QED
                BY <1>5, <3>2, <4>1
        <3> QED
            BY <3>1, <3>2
    <2> HIDE DEF n
    <2> QED
        BY <1>4, <2>1
<1> DEFINE h == CHOOSE f_1 : recursion(f_1)
<1>7. recursion(h) /\ FlattenSeq(parts) = h[n]
    <2>1. recursion(h)
        <3> HIDE DEF recursion
        <3> QED
            BY <1>6, Zenon
    <2>2. Len(parts) # 0
        BY <1>1
    <2>3. FlattenSeq(parts) = h[n]
        BY <2>2, Zenon DEF FlattenSeq
    <2> QED
        BY <2>1, <2>3
<1> HIDE DEF h
<1> DEFINE T == {k \in 0 .. n : k > 0 => h[k] = g[k]}
<1>8. 0 .. n \subseteq T
    <2>1. 0 \in T
        BY <1>1
    <2>2. ASSUME NEW k \in 0 .. n - 1, k \in T
          PROVE  k + 1 \in T
        <3>1. k + 1 \in 1 .. n /\ k + 1 \in 0 .. n /\ k + 1 - 1 = k
            BY <1>1
        <3> HIDE DEF n
        <3> DEFINE i == k + 1
        <3>2. h[i] = IF i = 1 THEN parts[i] ELSE h[i - 1] \o parts[i]
            <4> HIDE DEF i
            <4> QED
                BY <1>7, <3>1 DEF i
        <3>3. g[i] = IF i = 1 THEN parts[i] ELSE g[i - 1] \o parts[i]
            BY <1>6, <3>1
        <3>4. k + 1 # 1 => h[k] = g[k]
            BY <2>2
        <3> QED
            BY <3>1, <3>2, <3>3, <3>4
    <2> HIDE DEF T, n
    <2> QED
        BY <1>1, <2>1, <2>2, Induction
<1>9. h[n] = g[n]
    <2>1. n \in 0 .. n /\ n > 0
        BY <1>1
    <2> HIDE DEF n
    <2> QED
        BY <1>8, <2>1
<1> QED
    BY <1>4, <1>5, <1>7, <1>9

LEMMA Concatenation ==
    ASSUME NEW S, NEW s \in Seq(S), NEW t \in Seq(S)
    PROVE  /\ s \o t \in Seq(S)
           /\ Len(s \o t) = Len(s) + Len(t)
           /\ \A m \in 1 .. Len(s) : (s \o t)[m] = s[m]
           /\ \A m \in 1 .. Len(t) : (s \o t)[Len(s) + m] = t[m]
OBVIOUS

\* Place m of a part of length l behind offset o.
LEMMA Within ==
    ASSUME NEW o \in Nat, NEW l \in Nat, NEW length \in Nat,
           o + l <= length, NEW m \in 1 .. l
    PROVE  o + m \in 1 .. length
OBVIOUS

\* Element m of part k is where Offsets says.
LEMMA FlattenLayout ==
    ASSUME NEW S, NEW parts \in Seq(Seq(S))
    PROVE  /\ FlattenSeq(parts) \in Seq(S)
           /\ Len(FlattenSeq(parts)) = Offsets(parts)[Len(parts)]
           /\ \A k \in 1 .. Len(parts) :
                 /\ Offsets(parts)[k] <= Len(FlattenSeq(parts))
                 /\ \A m \in 1 .. Len(parts[k]) :
                       FlattenSeq(parts)[Offsets(parts)[k - 1] + m]
                           = parts[k][m]
<1>1. CASE parts = <<>>
    <2>1. FlattenSeq(parts) = <<>>
        BY <1>1, Len(parts) = 0 DEF FlattenSeq
    <2>2. Len(parts) = 0 /\ <<>> \in Seq(S) /\ Len(<<>>) = 0
        BY <1>1
    <2>3. Offsets(parts)[0] = 0
        BY OffsetsStep
    <2> QED
        BY <2>1, <2>2, <2>3
<1>2. CASE parts # <<>>
    <2> DEFINE n == Len(parts)
               o == Offsets(parts)
    <2>1. PICK joined \in [1 .. n -> Seq(S)] :
              /\ joined[1] = parts[1]
              /\ \A k \in 2 .. n : joined[k] = joined[k - 1] \o parts[k]
              /\ FlattenSeq(parts) = joined[n]
        BY <1>2, FlattenStep
    <2>2. /\ n \in Nat /\ n > 0
          /\ \A k \in 1 .. n : parts[k] \in Seq(S)
        BY <1>2
    <2>3. /\ o \in [0 .. n -> Nat] /\ o[0] = 0
          /\ \A k \in 1 .. n : o[k] = o[k - 1] + Len(parts[k])
        BY OffsetsStep
    <2> DEFINE Laid(k) == /\ Len(joined[k]) = o[k]
                          /\ \A i \in 1 .. k :
                                /\ o[i] <= o[k]
                                /\ \A m \in 1 .. Len(parts[i]) :
                                      joined[k][o[i - 1] + m] = parts[i][m]
               T == {k \in 0 .. n : k > 0 => Laid(k)}
    <2> HIDE DEF n, o
    <2>4. ASSUME NEW k \in 0 .. n - 1, k \in T
          PROVE  k + 1 \in T
        <3>1. /\ k + 1 \in 1 .. n /\ k + 1 \in 0 .. n /\ k + 1 - 1 = k
              /\ o[k] \in Nat /\ parts[k + 1] \in Seq(S)
            BY <2>2, <2>3
        <3>2. o[k + 1] = o[k] + Len(parts[k + 1])
            BY <2>3, <3>1
        <3>3. CASE k = 0
            <4>1. joined[1] = parts[1] /\ o[1] = Len(parts[1]) /\ o[0] = 0
                BY <2>1, <2>3, <3>1, <3>2, <3>3
            <4>2. Laid(1)
                <5>1. Len(joined[1]) = o[1]
                    BY <4>1
                <5>2. ASSUME NEW i \in 1 .. 1
                      PROVE  /\ o[i] <= o[1]
                             /\ \A m \in 1 .. Len(parts[i]) :
                                   joined[1][o[i - 1] + m] = parts[i][m]
                    <6>1. i = 1 /\ o[i - 1] = 0 /\ o[1] \in Nat
                        BY <4>1, <2>3, <3>1, <3>3
                    <6> QED
                        BY <4>1, <6>1
                <5> QED
                    BY <5>1, <5>2
            <4> QED
                BY <3>1, <3>3, <4>2
        <3>4. CASE k # 0
            <4>1. k \in 1 .. n /\ k + 1 \in 2 .. n
                BY <2>2, <3>4
            <4>2. joined[k] \in Seq(S)
                BY <2>1, <4>1
            <4>3. Laid(k)
                BY <2>4, <3>4
            <4> DEFINE s == joined[k]
                       t == parts[k + 1]
            <4>4. joined[k + 1] = s \o t
                <5> DEFINE i == k + 1
                <5>1. i \in 2 .. n /\ i - 1 = k
                    BY <3>1, <4>1
                <5> HIDE DEF i
                <5>2. joined[i] = joined[i - 1] \o parts[i]
                    BY <2>1, <5>1
                <5> QED
                    BY <5>1, <5>2 DEF i
            <4>5. s \in Seq(S) /\ t \in Seq(S)
                BY <3>1, <4>2
            <4>6. Len(s) = o[k] /\ o[k + 1] = o[k] + Len(t)
                BY <3>2, <4>3
            <4> HIDE DEF s, t
            <4>7. /\ Len(s \o t) = Len(s) + Len(t) /\ Len(t) \in Nat
                  /\ \A m \in 1 .. Len(s) : (s \o t)[m] = s[m]
                  /\ \A m \in 1 .. Len(t) : (s \o t)[Len(s) + m] = t[m]
                BY <4>5, Concatenation
            <4>8. Len(joined[k + 1]) = o[k + 1]
                BY <4>4, <4>6, <4>7
            <4>9. ASSUME NEW i \in 1 .. k + 1
                  PROVE  /\ o[i] <= o[k + 1]
                         /\ \A m \in 1 .. Len(parts[i]) :
                               joined[k + 1][o[i - 1] + m] = parts[i][m]
                <5>1. CASE i = k + 1
                    <6>1. o[i] <= o[k + 1]
                        BY <2>3, <3>1, <5>1
                    <6>2. i - 1 = k /\ parts[i] = t
                        BY <3>1, <5>1 DEF t
                    <6> QED
                        BY <4>4, <4>6, <4>7, <6>1, <6>2
                <5>2. CASE i # k + 1
                    <6>1. i \in 1 .. k /\ i \in 1 .. n /\ i - 1 \in 0 .. n
                          /\ i \in 0 .. n
                        BY <2>2, <5>2
                    <6>2. /\ o[i] = o[i - 1] + Len(parts[i])
                          /\ o[i - 1] \in Nat /\ o[i] \in Nat
                        BY <2>3, <6>1
                    <6>3. o[i] <= o[k]
                        BY <4>3, <6>1
                    <6>4. o[i] <= o[k + 1]
                        BY <3>1, <4>6, <4>7, <6>2, <6>3
                    <6>5. Len(parts[i]) \in Nat
                        BY <2>2, <6>1
                    <6>6. ASSUME NEW m \in 1 .. Len(parts[i])
                          PROVE  joined[k + 1][o[i - 1] + m] = parts[i][m]
                        <7>0. /\ o[i - 1] + Len(parts[i]) <= Len(s)
                              /\ Len(s) \in Nat
                            BY <4>5, <4>6, <6>2, <6>3
                        <7>1. o[i - 1] + m \in 1 .. Len(s)
                            BY <6>2, <6>5, <7>0, Within
                        <7>2. s[o[i - 1] + m] = parts[i][m]
                            BY <4>3, <6>1 DEF s
                        <7> QED
                            BY <4>4, <4>7, <7>1, <7>2
                    <6> QED
                        BY <6>4, <6>6
                <5> QED
                    BY <5>1, <5>2
            <4>10. Laid(k + 1)
                BY <4>8, <4>9
            <4> QED
                BY <3>1, <4>10
        <3> QED
            BY <3>3, <3>4
    <2>5. 0 .. n \subseteq T
        <3>1. 0 \in T
            BY <2>2
        <3> HIDE DEF T
        <3> QED
            BY <2>2, <2>4, <3>1, Induction
    <2>6. Laid(n)
        BY <2>2, <2>5
    <2> QED
        BY <2>1, <2>2, <2>6 DEF n, o
<1> QED
    BY <1>1, <1>2

LEMMA PartAt ==
    ASSUME NEW S, NEW parts \in Seq(Seq(S)), NEW k \in 1 .. Len(parts)
    PROVE  /\ Offsets(parts)[k - 1] \in Nat
           /\ Offsets(parts)[k] \in Nat
           /\ Len(parts[k]) \in Nat
           /\ Len(FlattenSeq(parts)) \in Nat
           /\ Offsets(parts)[k] = Offsets(parts)[k - 1] + Len(parts[k])
           /\ Offsets(parts)[k] <= Len(FlattenSeq(parts))
           /\ \A m \in 1 .. Len(parts[k]) :
                 FlattenSeq(parts)[Offsets(parts)[k - 1] + m] = parts[k][m]
<1>1. k - 1 \in 0 .. Len(parts) /\ k \in 0 .. Len(parts)
    OBVIOUS
<1>2. /\ Offsets(parts)[k - 1] \in Nat /\ Offsets(parts)[k] \in Nat
      /\ Offsets(parts)[k] = Offsets(parts)[k - 1] + Len(parts[k])
    BY <1>1, OffsetsStep
<1>3. parts[k] \in Seq(S) /\ FlattenSeq(parts) \in Seq(S)
    BY FlattenLayout
<1>4. Len(parts[k]) \in Nat /\ Len(FlattenSeq(parts)) \in Nat
    BY <1>3
<1>5. /\ Offsets(parts)[k] <= Len(FlattenSeq(parts))
      /\ \A m \in 1 .. Len(parts[k]) :
            FlattenSeq(parts)[Offsets(parts)[k - 1] + m] = parts[k][m]
    BY FlattenLayout
<1> QED
    BY <1>2, <1>4, <1>5

-----------------------------------------------------------------------------
(* Numbers and their bytes.                                                *)

LEMMA ToNumberStep ==
    ASSUME NEW bytes \in Seq(Nat)
    PROVE  \E number \in [0 .. Len(bytes) -> Nat] :
               /\ number[0] = 0
               /\ \A k \in 1 .. Len(bytes) :
                     number[k] = 256 * number[k - 1] + bytes[k]
               /\ ToNumber(bytes) = number[Len(bytes)]
<1> DEFINE n == Len(bytes)
           step == [k \in 1 .. n |-> [x \in Nat |-> 256 * x + bytes[k]]]
           recursion(f) ==
               f = [k \in 0 .. n |->
                       IF k = 0 THEN 0 ELSE 256 * f[k - 1] + bytes[k]]
<1>1. n \in Nat /\ \A k \in 1 .. n : bytes[k] \in Nat
    OBVIOUS
<1>2. step \in [1 .. n -> [Nat -> Nat]]
    BY <1>1
<1>3. PICK f \in [0 .. n -> Nat] : Solves(f, n, 0, step)
    <2> HIDE DEF step, n
    <2> QED
        BY <1>1, <1>2, Recursion
<1>4. ASSUME NEW k \in 1 .. n
      PROVE  f[k] = 256 * f[k - 1] + bytes[k]
    <2>1. f[k - 1] \in Nat
        <3>1. k - 1 \in 0 .. n
            BY <1>1
        <3> QED
            BY <1>3, <3>1
    <2> QED
        BY <1>3, <2>1 DEF Solves
<1>5. recursion(f)
    <2>1. \A k \in 0 .. n : f[k] = IF k = 0 THEN 0
                                   ELSE 256 * f[k - 1] + bytes[k]
        BY <1>3, <1>4 DEF Solves
    <2> QED
        BY <1>3, <2>1
<1> DEFINE h == CHOOSE f_1 : recursion(f_1)
<1>6. recursion(h) /\ ToNumber(bytes) = h[n]
    <2>1. recursion(h)
        <3> HIDE DEF recursion
        <3> QED
            BY <1>5, Zenon
    <2> QED
        BY <2>1, Zenon DEF ToNumber
<1> HIDE DEF h
<1> DEFINE T == {k \in 0 .. n : h[k] = f[k]}
<1>7. 0 .. n \subseteq T
    <2>1. 0 \in T
        BY <1>1, <1>5, <1>6
    <2>2. ASSUME NEW k \in 0 .. n - 1, k \in T
          PROVE  k + 1 \in T
        <3> DEFINE i == k + 1
        <3>1. i \in 1 .. n /\ i \in 0 .. n /\ i - 1 = k /\ i # 0
            BY <1>1
        <3> HIDE DEF i, n
        <3>2. h[i] = 256 * h[i - 1] + bytes[i]
            BY <1>6, <3>1
        <3>3. f[i] = 256 * f[i - 1] + bytes[i]
            BY <1>5, <3>1
        <3>4. i \in T
            BY <2>2, <3>1, <3>2, <3>3
        <3> QED
            BY <3>4 DEF i
    <2> HIDE DEF T, n
    <2> QED
        BY <1>1, <2>1, <2>2, Induction
<1>8. h[n] = f[n]
    <2>1. n \in 0 .. n
        BY <1>1
    <2> HIDE DEF n
    <2> QED
        BY <1>7, <2>1
<1> QED
    <2>1. f[0] = 0
        BY <1>3 DEF Solves
    <2> QED
        BY <1>3, <1>4, <1>6, <1>8, <2>1

LEMMA DivideByte ==
    ASSUME NEW x \in Nat
    PROVE  /\ x \div 256 \in Nat /\ x % 256 \in Nat
           /\ 256 * (x \div 256) + (x % 256) = x
           /\ x < 256 => x % 256 = x
OBVIOUS

\* rest is what is left of n up to each of its bytes.
Digits(rest, n, width) ==
    /\ rest \in [1 .. width -> Nat]
    /\ rest[width] = n
    /\ \A k \in 1 .. width - 1 : rest[k] = rest[k + 1] \div 256
    /\ \A k \in 1 .. width : Encode(n, width)[k] = rest[k] % 256

LEMMA EncodeStep ==
    ASSUME NEW n \in Nat, NEW width \in Nat \ {0}
    PROVE  /\ Encode(n, width) \in [1 .. width -> Nat]
           /\ \E rest : Digits(rest, n, width)
<1> DEFINE step == [k \in 1 .. width - 1 |-> [x \in Nat |-> x \div 256]]
           recursion(f) ==
               f = [k \in 1 .. width |->
                       IF k = width THEN n ELSE f[k + 1] \div 256]
<1>1. width \in Nat /\ width > 0
    OBVIOUS
<1>2. step \in [1 .. width - 1 -> [Nat -> Nat]]
    <2>1. \A x \in Nat : x \div 256 \in Nat
        OBVIOUS
    <2> QED
        BY <2>1
<1>3. PICK f \in [0 .. width - 1 -> Nat] : Solves(f, width - 1, n, step)
    <2>1. width - 1 \in Nat
        BY <1>1
    <2> HIDE DEF step
    <2> QED
        BY <1>2, <2>1, Recursion
<1> DEFINE g == [k \in 1 .. width |-> f[width - k]]
<1>4. g \in [1 .. width -> Nat] /\ g[width] = n
    <2>1. \A k \in 1 .. width : width - k \in 0 .. width - 1
        BY <1>1
    <2>2. f[0] = n /\ width - width = 0
        BY <1>3 DEF Solves
    <2> QED
        BY <1>1, <1>3, <2>1, <2>2
<1>5. ASSUME NEW k \in 1 .. width - 1
      PROVE  g[k] = g[k + 1] \div 256
    <2> DEFINE i == width - k
    <2>1. /\ i \in 1 .. width - 1 /\ i - 1 \in 0 .. width - 1
          /\ k \in 1 .. width /\ k + 1 \in 1 .. width
          /\ width - (k + 1) = i - 1
        BY <1>1
    <2>2. g[k] = f[i] /\ g[k + 1] = f[i - 1]
        BY <2>1
    <2> HIDE DEF i
    <2>3. f[i - 1] \in Nat
        BY <1>3, <2>1
    <2>4. f[i] = step[i][f[i - 1]]
        BY <1>3, <2>1 DEF Solves
    <2>5. step[i][f[i - 1]] = f[i - 1] \div 256
        BY <2>1, <2>3
    <2> QED
        BY <2>2, <2>4, <2>5
<1> HIDE DEF g
<1>6. recursion(g)
    <2>1. \A k \in 1 .. width : g[k] = IF k = width THEN n
                                       ELSE g[k + 1] \div 256
        <3> SUFFICES ASSUME NEW k \in 1 .. width, k # width
                     PROVE  g[k] = g[k + 1] \div 256
            BY <1>4
        <3>1. k \in 1 .. width - 1
            BY <1>1
        <3> QED
            BY <1>5, <3>1
    <2> QED
        BY <1>4, <2>1
<1> DEFINE h == CHOOSE f_1 : recursion(f_1)
<1>7. recursion(h) /\ Encode(n, width) = [k \in 1 .. width |-> h[k] % 256]
    <2>1. recursion(h)
        <3> HIDE DEF recursion
        <3> QED
            BY <1>6, Zenon
    <2> QED
        BY <2>1, Zenon DEF Encode
<1> HIDE DEF h
<1> DEFINE T == {k \in 0 .. width - 1 : h[width - k] = g[width - k]}
<1>8. 0 .. width - 1 \subseteq T
    <2>1. 0 \in T
        BY <1>1, <1>6, <1>7
    <2>2. ASSUME NEW k \in 0 .. width - 1 - 1, k \in T
          PROVE  k + 1 \in T
        <3> DEFINE i == width - (k + 1)
        <3>1. /\ i \in 1 .. width /\ i + 1 = width - k /\ i # width
              /\ k + 1 \in 0 .. width - 1
            BY <1>1
        <3>2. h[i + 1] = g[i + 1]
            BY <2>2, <3>1
        <3> HIDE DEF i
        <3>3. h[i] = h[i + 1] \div 256
            BY <1>7, <3>1
        <3>4. g[i] = g[i + 1] \div 256
            BY <1>6, <3>1
        <3>5. h[i] = g[i]
            BY <3>2, <3>3, <3>4
        <3> QED
            BY <3>1, <3>5 DEF i
    <2> HIDE DEF T
    <2>3. width - 1 \in Nat
        BY <1>1
    <2> QED
        BY <2>1, <2>2, <2>3, Induction
<1>9. ASSUME NEW k \in 1 .. width
      PROVE  h[k] = g[k]
    <2> DEFINE i == width - k
    <2>1. i \in 0 .. width - 1 /\ width - i = k
        BY <1>1
    <2>2. i \in T
        <3> HIDE DEF T, i
        <3> QED
            BY <1>8, <2>1
    <2> QED
        BY <2>1, <2>2
<1>10. \A k \in 1 .. width : h[k] % 256 = g[k] % 256
    BY <1>9
<1>11. \A k \in 1 .. width : Encode(n, width)[k] = g[k] % 256
    BY <1>7, <1>10
<1>12. \A k \in 1 .. width : h[k] % 256 \in Nat
    BY <1>4, <1>10, DivideByte
<1>13. Encode(n, width) \in [1 .. width -> Nat]
    BY <1>7, <1>12
<1>14. Digits(g, n, width)
    BY <1>4, <1>5, <1>11 DEF Digits
<1> QED
    BY <1>13, <1>14

LEMMA EncodeType ==
    ASSUME NEW n \in Nat, NEW width \in Nat \ {0}
    PROVE  /\ Encode(n, width) \in Seq(Nat)
           /\ Len(Encode(n, width)) = width
<1>1. Encode(n, width) \in [1 .. width -> Nat]
    BY EncodeStep
<1> QED
    BY <1>1

\* The number is read from its bytes if what is left for the first of them
\* fits into it.
LEMMA RoundTrip ==
    ASSUME NEW n \in Nat, NEW width \in Nat \ {0}, NEW rest,
           Digits(rest, n, width), rest[1] < 256
    PROVE  ToNumber(Encode(n, width)) = n
<1>0. /\ rest \in [1 .. width -> Nat]
      /\ rest[width] = n
      /\ \A k \in 1 .. width - 1 : rest[k] = rest[k + 1] \div 256
      /\ \A k \in 1 .. width : Encode(n, width)[k] = rest[k] % 256
    BY DEF Digits
<1> DEFINE bytes == Encode(n, width)
<1>1. bytes \in Seq(Nat) /\ Len(bytes) = width
    BY EncodeType
<1>2. \A k \in 1 .. width : bytes[k] = rest[k] % 256
    BY <1>0
<1> HIDE DEF bytes
<1>3. PICK number \in [0 .. width -> Nat] :
          /\ number[0] = 0
          /\ \A k \in 1 .. width : number[k] = 256 * number[k - 1] + bytes[k]
          /\ ToNumber(bytes) = number[width]
    BY <1>1, ToNumberStep
<1> DEFINE T == {k \in 0 .. width : k > 0 => number[k] = rest[k]}
<1>4. 0 .. width \subseteq T
    <2>1. 0 \in T
        OBVIOUS
    <2>2. ASSUME NEW k \in 0 .. width - 1, k \in T
          PROVE  k + 1 \in T
        <3> DEFINE i == k + 1
        <3>1. i \in 1 .. width /\ i - 1 = k
            OBVIOUS
        <3> HIDE DEF i
        <3>2. rest[i] \in Nat
            BY <1>0, <3>1
        <3>3. number[i] = 256 * number[k] + (rest[i] % 256)
            <4>1. number[i] = 256 * number[i - 1] + bytes[i]
                BY <1>3, <3>1
            <4>2. bytes[i] = rest[i] % 256
                BY <1>2, <3>1
            <4> QED
                BY <3>1, <4>1, <4>2
        <3>4. CASE k = 0
            <4>1. i = 1
                BY <3>1, <3>4
            <4>2. rest[i] % 256 = rest[i]
                BY <3>2, <4>1, DivideByte
            <4>3. number[k] = 0
                BY <1>3, <3>4
            <4>4. number[i] = rest[i]
                BY <3>2, <3>3, <4>2, <4>3
            <4> QED
                BY <3>1, <4>4 DEF i
        <3>5. CASE k # 0
            <4>1. number[k] = rest[k] /\ k \in 1 .. width - 1
                BY <2>2, <3>5
            <4>2. rest[k] = rest[i] \div 256
                BY <1>0, <4>1 DEF i
            <4>3. 256 * (rest[i] \div 256) + (rest[i] % 256) = rest[i]
                BY <3>2, DivideByte
            <4>4. number[i] = rest[i]
                BY <3>3, <4>1, <4>2, <4>3
            <4> QED
                BY <3>1, <4>4 DEF i
        <3> QED
            BY <3>4, <3>5
    <2> HIDE DEF T
    <2> QED
        BY <2>1, <2>2, Induction
<1>5. number[width] = rest[width]
    BY <1>4
<1> QED
    BY <1>0, <1>3, <1>5 DEF bytes

\* The fields of a batch have three and five bytes.
LEMMA ThreeBytes ==
    ASSUME NEW n \in Nat, n < 256 * 256 * 256
    PROVE  ToNumber(Encode(n, 3)) = n
<1>1. 3 \in Nat \ {0}
    OBVIOUS
<1>2. PICK rest : Digits(rest, n, 3)
    BY <1>1, EncodeStep
<1>3. /\ rest[3] = n /\ rest[2] \in Nat
      /\ rest[2] = rest[3] \div 256 /\ rest[1] = rest[2] \div 256
    BY <1>2 DEF Digits
<1>4. rest[2] < 256 * 256
    BY <1>3
<1>5. rest[1] < 256
    BY <1>3, <1>4
<1> QED
    BY <1>1, <1>2, <1>5, RoundTrip

LEMMA FiveBytes ==
    ASSUME NEW n \in Nat, n < 256 * 256 * 256 * 256 * 256
    PROVE  ToNumber(Encode(n, 5)) = n
<1>1. 5 \in Nat \ {0}
    OBVIOUS
<1>2. PICK rest : Digits(rest, n, 5)
    BY <1>1, EncodeStep
<1>3. /\ rest[5] = n /\ rest[4] \in Nat
      /\ rest[3] \in Nat /\ rest[2] \in Nat
      /\ rest[4] = rest[5] \div 256 /\ rest[3] = rest[4] \div 256
      /\ rest[2] = rest[3] \div 256 /\ rest[1] = rest[2] \div 256
    BY <1>2 DEF Digits
<1>4. rest[4] < 256 * 256 * 256 * 256
    BY <1>3
<1>5. rest[3] < 256 * 256 * 256
    BY <1>3, <1>4
<1>6. rest[2] < 256 * 256
    BY <1>3, <1>5
<1>7. rest[1] < 256
    BY <1>3, <1>6
<1> QED
    BY <1>1, <1>2, <1>7, RoundTrip

-----------------------------------------------------------------------------
(* Where things are in a batch, and the inductive invariant.               *)

ContextBytes(b) == [i \in DOMAIN b |-> EncodeContext(b[i])]
WithLength(tx) == Encode(Len(tx), 3) \o tx
TransactionBytes(c) ==
    [k \in DOMAIN c.sequenced |-> WithLength(c.sequenced[k])]
TransactionsBytes(b) == [i \in DOMAIN b |-> EncodeTransactions(b[i])]
ElementLists(b) == [i \in DOMAIN b |-> ElementsOf(b[i])]

\* Where the transactions of context i + 1 begin, and where transaction
\* k + 1 of context i does.
ContextStart(b, i) == 15 + 16 * Len(b) + Offsets(TransactionsBytes(b))[i]
TransactionStart(b, i, k) ==
    ContextStart(b, i - 1) + Offsets(TransactionBytes(b[i]))[k]

\* The context being read, and what has been read of it.
Current == batch[contextNumber]
SequencedRead == Len(Current.sequenced) - context.sequenced
QueuedRead == Current.queued - context.queued

\* Where the loop should stand in the calldata, and in the elements.
RightPointer ==
    IF pc = "element"
    THEN TransactionStart(batch, contextNumber, SequencedRead)
    ELSE ContextStart(batch, contextNumber)
ElementsRead ==
    IF pc = "element"
    THEN Offsets(ElementLists(batch))[contextNumber - 1]
             + SequencedRead + QueuedRead
    ELSE Offsets(ElementLists(batch))[contextNumber]

\* The calldata is the beginning of the encoded batch.
CalldataOK ==
    /\ batch \in Batches
    /\ calldata \in Seq(Nat)
    /\ Len(calldata) <= Len(EncodeBatch(batch))
    /\ \A m \in 1 .. Len(calldata) : calldata[m] = EncodeBatch(batch)[m]

ControlOK ==
    /\ Len(calldata) >= 15
    /\ numContexts = Len(batch)
    /\ contextNumber \in 0 .. numContexts
    /\ pc \in {"context", "element", "returned"}
    /\ pc = "element" => contextNumber > 0
    /\ pc = "returned" => contextNumber = numContexts

\* The numbers of a context are right; only its block number may be cut,
\* and then nothing follows the contexts.
ContextOK ==
    pc = "element" =>
        /\ context \in [sequenced: Nat, queued: Nat,
                        timestamp: Nat, blockNumber: Nat]
        /\ context.sequenced <= Len(Current.sequenced)
        /\ context.queued <= Current.queued
        /\ context.sequenced > 0 => context.queued = Current.queued
        /\ context.timestamp = Current.timestamp
        /\ \/ context.blockNumber = Current.blockNumber
           \/ Len(calldata) < 15 + 16 * Len(batch)

\* The next transaction is looked for at its place, or behind the end.
PointerOK ==
    /\ nextTxPointer \in Nat
    /\ nextTxPointer >= 15 + 16 * Len(batch)
    /\ nextTxPointer # RightPointer =>
          nextTxPointer >= Len(calldata) /\ ~Complete

\* The elements up to here are found.  If the data of one is cut, then no
\* transaction is found any more.
DataOK(k) ==
    /\ IsPrefix(entries[k].data, Elements[k].data)
    /\ entries[k].data # Elements[k].data =>
          /\ ~Complete
          /\ nextTxPointer >= Len(calldata)
          /\ \A m \in DOMAIN entries :
                m > k => entries[m].queueOrigin = "l1"
EntryRecords ==
    [index: Nat, queueOrigin: {"sequencer", "l1"},
     queueIndex: Nat \cup {Null}, timestamp: Nat, blockNumber: Nat,
     data: Seq(Nat), type: {"EIP155", "ETH_SIGN", Null}, decoded: BOOLEAN]
EntriesOK ==
    /\ entries \in Seq(EntryRecords)
    /\ Len(entries) = ElementsRead
    /\ \A k \in DOMAIN entries : Places(k) /\ DataOK(k)

DecoderInv ==
    /\ CalldataOK
    /\ Complete => pc # "thrown"
    /\ pc # "thrown" /\ Len(calldata) \notin {13, 14} =>
          ControlOK /\ ContextOK /\ PointerOK /\ EntriesOK

-----------------------------------------------------------------------------
(* The fields are wide enough for what is written into them.               *)

FieldsFit ==
    /\ MaxContexts < 256 * 256 * 256
    /\ MaxSequenced < 256 * 256 * 256
    /\ MaxQueued < 256 * 256 * 256
    /\ \A tx \in Transactions : Len(tx) < 256 * 256 * 256
    /\ \A n \in Timestamps \cup BlockNumbers :
          n < 256 * 256 * 256 * 256 * 256

Contexts == [sequenced: Seq(Seq(Nat)), queued: Nat,
             timestamp: Nat, blockNumber: Nat]

Fits(c) ==
    /\ c \in Contexts
    /\ Len(c.sequenced) < 256 * 256 * 256
    /\ c.queued < 256 * 256 * 256
    /\ c.timestamp < 256 * 256 * 256 * 256 * 256
    /\ c.blockNumber < 256 * 256 * 256 * 256 * 256
    /\ \A k \in DOMAIN c.sequenced : Len(c.sequenced[k]) < 256 * 256 * 256

LEMMA TransactionsType == Transactions \subseteq Seq(Nat)
<1>1. Seq(0 .. 255) \subseteq Seq(Nat)
    BY 0 .. 255 \subseteq Nat, SeqMonotonic
<1> QED
    BY <1>1, SequencerBatchAssumption

LEMMA BatchesFit ==
    ASSUME FieldsFit, NEW b \in Batches
    PROVE  /\ b \in Seq(Contexts)
           /\ Len(b) \in Nat /\ Len(b) > 0 /\ Len(b) < 256 * 256 * 256
           /\ DOMAIN b = 1 .. Len(b)
           /\ \A i \in 1 .. Len(b) : Fits(b[i])
<1> DEFINE C == [sequenced: SeqOf(Transactions, MaxSequenced),
                 queued: 0 .. MaxQueued,
                 timestamp: Timestamps, blockNumber: BlockNumbers]
<1>1. PICK n \in 1 .. MaxContexts : b \in [1 .. n -> C]
    BY DEF Batches
<1>2. ASSUME NEW c \in C
      PROVE  Fits(c)
    <2>1. PICK m \in 0 .. MaxSequenced :
              c.sequenced \in [1 .. m -> Transactions]
        BY DEF SeqOf
    <2>2. c.sequenced \in [1 .. m -> Seq(Nat)] /\ m \in Nat
        BY <2>1, TransactionsType, SequencerBatchAssumption
    <2>3. /\ c.sequenced \in Seq(Seq(Nat)) /\ Len(c.sequenced) = m
          /\ DOMAIN c.sequenced = 1 .. m
        BY <2>2
    <2>4. c.queued \in 0 .. MaxQueued /\ c.timestamp \in Timestamps
              /\ c.blockNumber \in BlockNumbers
        OBVIOUS
    <2>5. /\ c.queued \in Nat /\ c.timestamp \in Nat
          /\ c.blockNumber \in Nat
        <3>1. Timestamps \subseteq Nat /\ BlockNumbers \subseteq Nat
            BY SequencerBatchAssumption
        <3> HIDE DEF C
        <3>2. c.queued \in Nat
            BY <2>4
        <3>3. c.timestamp \in Nat
            BY <2>4, <3>1
        <3>4. c.blockNumber \in Nat
            BY <2>4, <3>1
        <3> QED
            BY <3>2, <3>3, <3>4
    <2>6. c \in Contexts
        BY <2>3, <2>5 DEF Contexts
    <2>7. Len(c.sequenced) < 256 * 256 * 256
        BY <2>1, <2>3, SequencerBatchAssumption DEF FieldsFit
    <2>8. c.queued < 256 * 256 * 256
        BY <2>4, SequencerBatchAssumption DEF FieldsFit
    <2>9. /\ c.timestamp < 256 * 256 * 256 * 256 * 256
          /\ c.blockNumber < 256 * 256 * 256 * 256 * 256
        BY <2>4 DEF FieldsFit
    <2>10. \A k \in DOMAIN c.sequenced :
               Len(c.sequenced[k]) < 256 * 256 * 256
        BY <2>1, <2>3 DEF FieldsFit
    <2> QED
        BY <2>6, <2>7, <2>8, <2>9, <2>10 DEF Fits
<1>3. C \subseteq Contexts
    BY <1>2 DEF Fits
<1>4. n \in Nat /\ n > 0 /\ n < 256 * 256 * 256
    BY <1>1, SequencerBatchAssumption DEF FieldsFit
<1> HIDE DEF C
<1>5. b \in [1 .. n -> Contexts]
    BY <1>1, <1>3
<1>6. b \in Seq(Contexts) /\ Len(b) = n /\ DOMAIN b = 1 .. n
    BY <1>4, <1>5
<1> QED
    BY <1>1, <1>2, <1>4, <1>6

-----------------------------------------------------------------------------
(* The layout of an encoded batch.                                         *)

\* What s1, s2, s3 and s4 are in their concatenation s.
IsJoined(s, s1, s2, s3, s4) ==
    /\ Len(s) = Len(s1) + Len(s2) + Len(s3) + Len(s4)
    /\ \A m \in 1 .. Len(s1) : s[m] = s1[m]
    /\ \A m \in 1 .. Len(s2) : s[Len(s1) + m] = s2[m]
    /\ \A m \in 1 .. Len(s3) : s[Len(s1) + Len(s2) + m] = s3[m]
    /\ \A m \in 1 .. Len(s4) :
          s[Len(s1) + Len(s2) + Len(s3) + m] = s4[m]

LEMMA FourParts ==
    ASSUME NEW S, NEW s1 \in Seq(S), NEW s2 \in Seq(S), NEW s3 \in Seq(S),
           NEW s4 \in Seq(S), NEW s, s = s1 \o s2 \o s3 \o s4
    PROVE  s \in Seq(S) /\ IsJoined(s, s1, s2, s3, s4)
<1> DEFINE two == s1 \o s2
           three == two \o s3
<1>1. /\ two \in Seq(S) /\ Len(two) = Len(s1) + Len(s2)
      /\ \A m \in 1 .. Len(s1) : two[m] = s1[m]
      /\ \A m \in 1 .. Len(s2) : two[Len(s1) + m] = s2[m]
    BY Concatenation
<1> HIDE DEF two
<1>20. two \in Seq(S)
    BY <1>1
<1>2. /\ three \in Seq(S) /\ Len(three) = Len(two) + Len(s3)
      /\ \A m \in 1 .. Len(two) : three[m] = two[m]
      /\ \A m \in 1 .. Len(s3) : three[Len(two) + m] = s3[m]
    BY <1>20, Concatenation
<1>3. s = three \o s4
    BY DEF two
<1> HIDE DEF three
<1>30. three \in Seq(S)
    BY <1>2
<1>4. /\ s \in Seq(S) /\ Len(s) = Len(three) + Len(s4)
      /\ \A m \in 1 .. Len(three) : s[m] = three[m]
      /\ \A m \in 1 .. Len(s4) : s[Len(three) + m] = s4[m]
    BY <1>3, <1>30, Concatenation
<1>5. /\ Len(s1) \in Nat /\ Len(s2) \in Nat
      /\ Len(s3) \in Nat /\ Len(s4) \in Nat
    OBVIOUS
<1>6. ASSUME NEW m \in 1 .. Len(s1)
      PROVE  s[m] = s1[m]
    BY <1>1, <1>2, <1>4, <1>5
<1>7. ASSUME NEW m \in 1 .. Len(s2)
      PROVE  s[Len(s1) + m] = s2[m]
    <2>1. Len(s1) + m \in 1 .. Len(two) /\ Len(s1) + m \in 1 .. Len(three)
        BY <1>1, <1>2, <1>5
    <2> QED
        BY <1>1, <1>2, <1>4, <2>1
<1>8. ASSUME NEW m \in 1 .. Len(s3)
      PROVE  s[Len(s1) + Len(s2) + m] = s3[m]
    <2>1. Len(two) + m \in 1 .. Len(three)
        BY <1>1, <1>2, <1>5
    <2> QED
        BY <1>1, <1>2, <1>4, <2>1
<1>9. ASSUME NEW m \in 1 .. Len(s4)
      PROVE  s[Len(s1) + Len(s2) + Len(s3) + m] = s4[m]
    BY <1>1, <1>2, <1>4
<1>10. Len(s) = Len(s1) + Len(s2) + Len(s3) + Len(s4)
    BY <1>1, <1>2, <1>4
<1> QED
    BY <1>4, <1>6, <1>7, <1>8, <1>9, <1>10 DEF IsJoined

LEMMA FieldType ==
    ASSUME NEW n \in Nat
    PROVE  /\ Encode(n, 3) \in Seq(Nat) /\ Len(Encode(n, 3)) = 3
           /\ Encode(n, 5) \in Seq(Nat) /\ Len(Encode(n, 5)) = 5
           /\ Encode(n, 12) \in Seq(Nat) /\ Len(Encode(n, 12)) = 12
<1>1. 3 \in Nat \ {0} /\ 5 \in Nat \ {0} /\ 12 \in Nat \ {0}
    OBVIOUS
<1> QED
    BY <1>1, EncodeType

LEMMA ContextLayout ==
    ASSUME NEW c \in Contexts
    PROVE  /\ EncodeContext(c) \in Seq(Nat)
           /\ Len(EncodeContext(c)) = 16
           /\ \A m \in 1 .. 3 :
                 /\ EncodeContext(c)[m] = Encode(Len(c.sequenced), 3)[m]
                 /\ EncodeContext(c)[3 + m] = Encode(c.queued, 3)[m]
           /\ \A m \in 1 .. 5 :
                 /\ EncodeContext(c)[6 + m] = Encode(c.timestamp, 5)[m]
                 /\ EncodeContext(c)[11 + m] = Encode(c.blockNumber, 5)[m]
<1> DEFINE e == EncodeContext(c)
           s1 == Encode(Len(c.sequenced), 3)
           s2 == Encode(c.queued, 3)
           s3 == Encode(c.timestamp, 5)
           s4 == Encode(c.blockNumber, 5)
<1>1. /\ Len(c.sequenced) \in Nat /\ c.queued \in Nat
      /\ c.timestamp \in Nat /\ c.blockNumber \in Nat
    BY DEF Contexts
<1>2. /\ s1 \in Seq(Nat) /\ Len(s1) = 3 /\ s2 \in Seq(Nat) /\ Len(s2) = 3
      /\ s3 \in Seq(Nat) /\ Len(s3) = 5 /\ s4 \in Seq(Nat) /\ Len(s4) = 5
    BY <1>1, FieldType
<1>3. e = s1 \o s2 \o s3 \o s4
    BY DEF EncodeContext
<1> HIDE DEF e, s1, s2, s3, s4
<1>20. /\ s1 \in Seq(Nat) /\ s2 \in Seq(Nat)
       /\ s3 \in Seq(Nat) /\ s4 \in Seq(Nat)
    BY <1>2
<1>40. e \in Seq(Nat) /\ IsJoined(e, s1, s2, s3, s4)
    BY <1>3, <1>20, FourParts
<1>4. /\ e \in Seq(Nat)
      /\ Len(e) = Len(s1) + Len(s2) + Len(s3) + Len(s4)
      /\ \A m \in 1 .. Len(s1) : e[m] = s1[m]
      /\ \A m \in 1 .. Len(s2) : e[Len(s1) + m] = s2[m]
      /\ \A m \in 1 .. Len(s3) : e[Len(s1) + Len(s2) + m] = s3[m]
      /\ \A m \in 1 .. Len(s4) :
            e[Len(s1) + Len(s2) + Len(s3) + m] = s4[m]
    BY <1>40 DEF IsJoined
<1>5. Len(e) = 16
    BY <1>2, <1>4
<1>6. \A m \in 1 .. 3 : e[m] = s1[m] /\ e[3 + m] = s2[m]
    BY <1>2, <1>4
<1>7. ASSUME NEW m \in 1 .. 5
      PROVE  e[6 + m] = s3[m] /\ e[11 + m] = s4[m]
    <2>1. m \in 1 .. Len(s3) /\ m \in 1 .. Len(s4)
        BY <1>2
    <2>2. /\ e[Len(s1) + Len(s2) + m] = s3[m]
          /\ e[Len(s1) + Len(s2) + Len(s3) + m] = s4[m]
        BY <1>4, <2>1
    <2>3. /\ Len(s1) + Len(s2) + m = 6 + m
          /\ Len(s1) + Len(s2) + Len(s3) + m = 11 + m
        BY <1>2
    <2> QED
        BY <2>2, <2>3
<1> QED
    BY <1>4, <1>5, <1>6, <1>7 DEF e, s1, s2, s3, s4

\* A transaction with its length.
LEMMA TransactionLayout ==
    ASSUME NEW tx \in Seq(Nat)
    PROVE  /\ WithLength(tx) \in Seq(Nat)
           /\ Len(WithLength(tx)) = 3 + Len(tx)
           /\ \A m \in 1 .. 3 : WithLength(tx)[m] = Encode(Len(tx), 3)[m]
           /\ \A m \in 1 .. Len(tx) : WithLength(tx)[3 + m] = tx[m]
<1> DEFINE field == Encode(Len(tx), 3)
<1>1. field \in Seq(Nat) /\ Len(field) = 3
    BY FieldType
<1> HIDE DEF field
<1>20. field \in Seq(Nat)
    BY <1>1
<1>2. /\ field \o tx \in Seq(Nat)
      /\ Len(field \o tx) = Len(field) + Len(tx)
      /\ \A m \in 1 .. Len(field) : (field \o tx)[m] = field[m]
      /\ \A m \in 1 .. Len(tx) : (field \o tx)[Len(field) + m] = tx[m]
    BY <1>20, Concatenation
<1> QED
    BY <1>1, <1>2 DEF WithLength, field

LEMMA TransactionBytesType ==
    ASSUME NEW c \in Contexts
    PROVE  /\ TransactionBytes(c) \in Seq(Seq(Nat))
           /\ Len(TransactionBytes(c)) = Len(c.sequenced)
           /\ Len(c.sequenced) \in Nat
           /\ DOMAIN c.sequenced = 1 .. Len(c.sequenced)
           /\ \A k \in 1 .. Len(c.sequenced) :
                 /\ c.sequenced[k] \in Seq(Nat)
                 /\ TransactionBytes(c)[k] = WithLength(c.sequenced[k])
           /\ EncodeTransactions(c) = FlattenSeq(TransactionBytes(c))
           /\ EncodeTransactions(c) \in Seq(Nat)
<1>1. c.sequenced \in Seq(Seq(Nat))
    BY DEF Contexts
<1> DEFINE txs == c.sequenced
           n == Len(txs)
<1>2. /\ n \in Nat /\ DOMAIN txs = 1 .. n
      /\ \A k \in 1 .. n : txs[k] \in Seq(Nat)
    BY <1>1
<1>3. TransactionBytes(c) = [k \in 1 .. n |-> WithLength(txs[k])]
    BY <1>2 DEF TransactionBytes
<1>4. \A k \in 1 .. n : WithLength(txs[k]) \in Seq(Nat)
    BY <1>2, TransactionLayout
<1> HIDE DEF n, txs
<1>5. TransactionBytes(c) \in [1 .. n -> Seq(Nat)]
    BY <1>3, <1>4
<1>6. TransactionBytes(c) \in Seq(Seq(Nat)) /\ Len(TransactionBytes(c)) = n
    BY <1>2, <1>5
<1>7. EncodeTransactions(c) = FlattenSeq(TransactionBytes(c))
    BY DEF EncodeTransactions, TransactionBytes, WithLength
<1>8. EncodeTransactions(c) \in Seq(Nat)
    BY <1>6, <1>7, FlattenLayout
<1> QED
    BY <1>2, <1>3, <1>6, <1>7, <1>8 DEF n, txs

LEMMA BatchParts ==
    ASSUME NEW b \in Seq(Contexts)
    PROVE  /\ Len(b) \in Nat /\ DOMAIN b = 1 .. Len(b)
           /\ \A i \in 1 .. Len(b) : b[i] \in Contexts
           /\ ContextBytes(b) \in Seq(Seq(Nat))
           /\ Len(ContextBytes(b)) = Len(b)
           /\ TransactionsBytes(b) \in Seq(Seq(Nat))
           /\ Len(TransactionsBytes(b)) = Len(b)
           /\ \A i \in 1 .. Len(b) :
                 /\ ContextBytes(b)[i] = EncodeContext(b[i])
                 /\ TransactionsBytes(b)[i] = EncodeTransactions(b[i])
<1> DEFINE n == Len(b)
<1>1. /\ n \in Nat /\ DOMAIN b = 1 .. n
      /\ \A i \in 1 .. n : b[i] \in Contexts
    OBVIOUS
<1>2. \A i \in 1 .. n : EncodeContext(b[i]) \in Seq(Nat)
    BY <1>1, ContextLayout
<1>3. \A i \in 1 .. n : EncodeTransactions(b[i]) \in Seq(Nat)
    BY <1>1, TransactionBytesType
<1>4. /\ ContextBytes(b) = [i \in 1 .. n |-> EncodeContext(b[i])]
      /\ TransactionsBytes(b) = [i \in 1 .. n |-> EncodeTransactions(b[i])]
    BY <1>1 DEF ContextBytes, TransactionsBytes
<1> HIDE DEF n
<1>5. /\ ContextBytes(b) \in [1 .. n -> Seq(Nat)]
      /\ TransactionsBytes(b) \in [1 .. n -> Seq(Nat)]
    BY <1>2, <1>3, <1>4
<1>6. /\ ContextBytes(b) \in Seq(Seq(Nat)) /\ Len(ContextBytes(b)) = n
      /\ TransactionsBytes(b) \in Seq(Seq(Nat))
      /\ Len(TransactionsBytes(b)) = n
    BY <1>1, <1>5
<1> QED
    BY <1>1, <1>4, <1>6 DEF n

\* Contexts have 16 bytes.
LEMMA ContextOffsets ==
    ASSUME NEW b \in Seq(Contexts)
    PROVE  \A i \in 0 .. Len(b) : Offsets(ContextBytes(b))[i] = 16 * i
<1> DEFINE n == Len(b)
           o == Offsets(ContextBytes(b))
           T == {i \in 0 .. n : o[i] = 16 * i}
<1>1. n \in Nat
    BY BatchParts
<1>2. o[0] = 0 /\ \A i \in 1 .. n : o[i] = o[i - 1] + 16
    <2> DEFINE parts == ContextBytes(b)
    <2>1. parts \in Seq(Seq(Nat)) /\ Len(parts) = n
        BY BatchParts
    <2>2. \A i \in 1 .. n : parts[i] = EncodeContext(b[i])
        BY BatchParts
    <2>3. \A i \in 1 .. n : b[i] \in Contexts
        BY BatchParts
    <2> HIDE DEF n, parts
    <2>4. \A i \in 1 .. n : Len(parts[i]) = 16
        <3> SUFFICES ASSUME NEW i \in 1 .. n
                     PROVE  Len(EncodeContext(b[i])) = 16
            BY <2>2
        <3>1. b[i] \in Contexts
            BY <2>3
        <3> QED
            BY <3>1, ContextLayout
    <2>5. parts \in Seq(Seq(Nat))
        BY <2>1
    <2>6. /\ Offsets(parts)[0] = 0
          /\ \A i \in 1 .. Len(parts) :
                Offsets(parts)[i] = Offsets(parts)[i - 1] + Len(parts[i])
        BY <2>5, OffsetsStep
    <2> QED
        BY <2>1, <2>4, <2>6 DEF parts
<1> HIDE DEF n, o
<1>3. 0 \in T
    BY <1>1, <1>2
<1>4. ASSUME NEW i \in 0 .. n - 1, i \in T
      PROVE  i + 1 \in T
    <2> DEFINE j == i + 1
    <2>1. j \in 1 .. n /\ j \in 0 .. n /\ j - 1 = i /\ 16 * j = 16 * i + 16
        BY <1>1
    <2> HIDE DEF j
    <2>2. o[j] = o[i] + 16
        BY <1>2, <2>1
    <2>3. j \in T
        BY <1>4, <2>1, <2>2
    <2> QED
        BY <2>3 DEF j
<1>5. 0 .. n \subseteq T
    <2> HIDE DEF T
    <2> QED
        BY <1>1, <1>3, <1>4, Induction
<1> QED
    BY <1>5 DEF n, o

\* The parts of a whole batch.
LEMMA BatchLayout ==
    ASSUME NEW b \in Seq(Contexts)
    PROVE  /\ EncodeBatch(b) \in Seq(Nat)
           /\ Len(EncodeBatch(b)) =
                 15 + 16 * Len(b) + Len(FlattenSeq(TransactionsBytes(b)))
           /\ \A m \in 1 .. 3 :
                 EncodeBatch(b)[12 + m] = Encode(Len(b), 3)[m]
           /\ \A m \in 1 .. 16 * Len(b) :
                 EncodeBatch(b)[15 + m] = FlattenSeq(ContextBytes(b))[m]
           /\ \A m \in 1 .. Len(FlattenSeq(TransactionsBytes(b))) :
                 EncodeBatch(b)[15 + 16 * Len(b) + m] =
                     FlattenSeq(TransactionsBytes(b))[m]
<1> DEFINE e == EncodeBatch(b)
           n == Len(b)
           s1 == Encode(0, 12)
           s2 == Encode(n, 3)
           s3 == FlattenSeq(ContextBytes(b))
           s4 == FlattenSeq(TransactionsBytes(b))
<1>1. n \in Nat
    BY BatchParts
<1>2. /\ s1 \in Seq(Nat) /\ Len(s1) = 12
      /\ s2 \in Seq(Nat) /\ Len(s2) = 3
    BY <1>1, FieldType
<1>3. ContextBytes(b) \in Seq(Seq(Nat)) /\ Len(ContextBytes(b)) = n
    BY BatchParts
<1>4. s3 \in Seq(Nat) /\ Len(s3) = Offsets(ContextBytes(b))[n]
    BY <1>3, FlattenLayout
<1>5. Len(s3) = 16 * n
    <2>1. n \in 0 .. n
        BY <1>1
    <2> QED
        BY <1>4, <2>1, ContextOffsets
<1>6. s4 \in Seq(Nat)
    <2>1. TransactionsBytes(b) \in Seq(Seq(Nat))
        BY BatchParts
    <2> QED
        BY <2>1, FlattenLayout
<1>7. e = s1 \o s2 \o s3 \o s4
    BY DEF EncodeBatch, ContextBytes, TransactionsBytes
<1> HIDE DEF e, n, s1, s2, s3, s4
<1>8. /\ s1 \in Seq(Nat) /\ s2 \in Seq(Nat)
      /\ s3 \in Seq(Nat) /\ s4 \in Seq(Nat)
    BY <1>2, <1>4, <1>6
<1>90. e \in Seq(Nat) /\ IsJoined(e, s1, s2, s3, s4)
    BY <1>7, <1>8, FourParts
<1>9. /\ e \in Seq(Nat)
      /\ Len(e) = Len(s1) + Len(s2) + Len(s3) + Len(s4)
      /\ \A m \in 1 .. Len(s2) : e[Len(s1) + m] = s2[m]
      /\ \A m \in 1 .. Len(s3) : e[Len(s1) + Len(s2) + m] = s3[m]
      /\ \A m \in 1 .. Len(s4) :
            e[Len(s1) + Len(s2) + Len(s3) + m] = s4[m]
    BY <1>90 DEF IsJoined
<1>10. /\ Len(s1) + Len(s2) = 15
       /\ Len(s1) + Len(s2) + Len(s3) = 15 + 16 * n
       /\ Len(s1) = 12 /\ Len(s2) = 3 /\ Len(s3) = 16 * n
    BY <1>1, <1>2, <1>5
<1>11. Len(e) = 15 + 16 * n + Len(s4)
    BY <1>9, <1>10
<1>12. \A m \in 1 .. 3 : e[12 + m] = s2[m]
    BY <1>9, <1>10
<1>13. \A m \in 1 .. 16 * n : e[15 + m] = s3[m]
    BY <1>9, <1>10
<1>14. \A m \in 1 .. Len(s4) : e[15 + 16 * n + m] = s4[m]
    BY <1>9, <1>10
<1> QED
    BY <1>9, <1>11, <1>12, <1>13, <1>14 DEF e, n, s1, s2, s3, s4

\* The fields of context i + 1 are where parseSequencerBatchContext looks.
LEMMA ContextAt ==
    ASSUME NEW b \in Seq(Contexts), NEW i \in 0 .. Len(b) - 1
    PROVE  LET c == b[i + 1]
               e == EncodeBatch(b)
               offset == 15 + 16 * i
           IN  /\ c \in Contexts
               /\ offset + 16 <= 15 + 16 * Len(b)
               /\ \A m \in 1 .. 3 :
                     /\ e[offset + m] = Encode(Len(c.sequenced), 3)[m]
                     /\ e[offset + 3 + m] = Encode(c.queued, 3)[m]
               /\ \A m \in 1 .. 5 :
                     /\ e[offset + 6 + m] = Encode(c.timestamp, 5)[m]
                     /\ e[offset + 11 + m] = Encode(c.blockNumber, 5)[m]
<1> DEFINE n == Len(b)
           j == i + 1
           c == b[j]
           e == EncodeBatch(b)
           parts == ContextBytes(b)
           encoded == EncodeContext(c)
           offset == 15 + 16 * i
<1>1. /\ n \in Nat /\ j \in 1 .. n /\ j - 1 = i /\ i \in 0 .. n
      /\ offset \in Nat
    BY BatchParts
<1>2. /\ parts \in Seq(Seq(Nat)) /\ Len(parts) = n
      /\ c \in Contexts /\ parts[j] = encoded
    BY <1>1, BatchParts
<1>3. /\ Len(encoded) = 16
      /\ \A m \in 1 .. 3 :
            /\ encoded[m] = Encode(Len(c.sequenced), 3)[m]
            /\ encoded[3 + m] = Encode(c.queued, 3)[m]
      /\ \A m \in 1 .. 5 :
            /\ encoded[6 + m] = Encode(c.timestamp, 5)[m]
            /\ encoded[11 + m] = Encode(c.blockNumber, 5)[m]
    BY <1>2, ContextLayout
<1>4. Offsets(parts)[i] = 16 * i
    BY <1>1, ContextOffsets
<1>5. 16 * i + 16 <= 16 * n
    BY <1>1
<1>6. \A m \in 1 .. 16 * n : e[15 + m] = FlattenSeq(parts)[m]
    BY BatchLayout
<1> HIDE DEF n, e, parts, encoded, j
<1>7. \A m \in 1 .. 16 : FlattenSeq(parts)[16 * i + m] = encoded[m]
    <2>1. \A k \in 1 .. Len(parts) : \A m \in 1 .. Len(parts[k]) :
              FlattenSeq(parts)[Offsets(parts)[k - 1] + m] = parts[k][m]
        BY <1>2, FlattenLayout
    <2>2. \A m \in 1 .. Len(parts[j]) :
              FlattenSeq(parts)[Offsets(parts)[j - 1] + m] = parts[j][m]
        BY <1>1, <1>2, <2>1
    <2> QED
        BY <1>1, <1>2, <1>3, <1>4, <2>2
<1>8. ASSUME NEW m \in 1 .. 16
      PROVE  e[offset + m] = encoded[m]
    <2>1. 16 * i + m \in 1 .. 16 * n /\ 15 + (16 * i + m) = offset + m
        BY <1>1, <1>5
    <2>2. e[15 + (16 * i + m)] = FlattenSeq(parts)[16 * i + m]
        BY <1>6, <2>1
    <2> QED
        BY <1>7, <2>1, <2>2
<1>9. ASSUME NEW m \in 1 .. 3
      PROVE  /\ e[offset + m] = Encode(Len(c.sequenced), 3)[m]
             /\ e[offset + 3 + m] = Encode(c.queued, 3)[m]
    <2>1. m \in 1 .. 16 /\ 3 + m \in 1 .. 16
              /\ offset + (3 + m) = offset + 3 + m
        BY <1>1
    <2> HIDE DEF offset, c
    <2> QED
        BY <1>3, <1>8, <2>1
<1>10. ASSUME NEW m \in 1 .. 5
       PROVE  /\ e[offset + 6 + m] = Encode(c.timestamp, 5)[m]
              /\ e[offset + 11 + m] = Encode(c.blockNumber, 5)[m]
    <2>1. 6 + m \in 1 .. 16 /\ 11 + m \in 1 .. 16
              /\ offset + (6 + m) = offset + 6 + m
              /\ offset + (11 + m) = offset + 11 + m
        BY <1>1
    <2> HIDE DEF offset, c
    <2> QED
        BY <1>3, <1>8, <2>1
<1>11. offset + 16 <= 15 + 16 * n
    BY <1>1, <1>5
<1> QED
    BY <1>2, <1>9, <1>10, <1>11 DEF n, j, e

\* The pointer goes on from transaction to transaction and from context to
\* context.
LEMMA StartsMeet ==
    ASSUME NEW b \in Seq(Contexts)
    PROVE  /\ ContextStart(b, 0) = 15 + 16 * Len(b)
           /\ \A i \in 0 .. Len(b) :
                 /\ ContextStart(b, i) \in Nat
                 /\ ContextStart(b, i) >= 15 + 16 * Len(b)
           /\ \A i \in 1 .. Len(b) :
                 /\ TransactionStart(b, i, 0) = ContextStart(b, i - 1)
                 /\ TransactionStart(b, i, Len(b[i].sequenced)) =
                       ContextStart(b, i)
<1> DEFINE n == Len(b)
           parts == TransactionsBytes(b)
           o == Offsets(parts)
<1>1. /\ n \in Nat /\ parts \in Seq(Seq(Nat)) /\ Len(parts) = n
      /\ \A i \in 1 .. n : b[i] \in Contexts
      /\ \A i \in 1 .. n : parts[i] = EncodeTransactions(b[i])
    BY BatchParts
<1>2. /\ o \in [0 .. n -> Nat] /\ o[0] = 0
      /\ \A i \in 1 .. n : o[i] = o[i - 1] + Len(parts[i])
    BY <1>1, OffsetsStep
<1>3. \A i \in 0 .. n : ContextStart(b, i) = 15 + 16 * n + o[i]
    BY DEF ContextStart
<1> HIDE DEF n, parts, o
<1>4. ASSUME NEW i \in 0 .. n
      PROVE  ContextStart(b, i) \in Nat /\ ContextStart(b, i) >= 15 + 16 * n
    <2>1. o[i] \in Nat
        BY <1>2
    <2> QED
        BY <1>1, <1>3, <2>1
<1>5. ContextStart(b, 0) = 15 + 16 * n
    BY <1>1, <1>2, <1>3
<1>6. ASSUME NEW i \in 1 .. n
      PROVE  /\ TransactionStart(b, i, 0) = ContextStart(b, i - 1)
             /\ TransactionStart(b, i, Len(b[i].sequenced)) =
                   ContextStart(b, i)
    <2> DEFINE c == b[i]
               inner == TransactionBytes(c)
    <2>1. /\ inner \in Seq(Seq(Nat)) /\ Len(inner) = Len(c.sequenced)
          /\ EncodeTransactions(c) = FlattenSeq(inner)
        BY <1>1, TransactionBytesType
    <2>2. parts[i] = EncodeTransactions(c)
        BY <1>1
    <2>3. /\ \A k \in 0 .. Len(inner) :
                TransactionStart(b, i, k) =
                    ContextStart(b, i - 1) + Offsets(inner)[k]
        BY DEF TransactionStart
    <2> HIDE DEF c, inner
    <2>4. Offsets(inner)[0] = 0
        BY <2>1, OffsetsStep
    <2>5. Len(parts[i]) = Offsets(inner)[Len(inner)]
        BY <2>1, <2>2, FlattenLayout
    <2>6. i - 1 \in 0 .. n /\ i \in 0 .. n /\ Len(inner) \in Nat
        BY <1>1, <2>1
    <2>7. TransactionStart(b, i, 0) = ContextStart(b, i - 1)
        BY <1>4, <2>3, <2>4, <2>6
    <2>8. TransactionStart(b, i, Len(inner)) =
              ContextStart(b, i - 1) + Len(parts[i])
        BY <2>3, <2>5, <2>6
    <2>9. ContextStart(b, i) = ContextStart(b, i - 1) + Len(parts[i])
        <3>1. o[i] = o[i - 1] + Len(parts[i]) /\ o[i] \in Nat
                  /\ o[i - 1] \in Nat
            BY <1>2, <2>6
        <3>2. Len(parts[i]) \in Nat
            BY <1>1
        <3> QED
            BY <1>1, <1>3, <2>6, <3>1, <3>2
    <2> QED
        BY <2>1, <2>7, <2>8, <2>9 DEF c
<1> QED
    BY <1>4, <1>5, <1>6 DEF n

\* A transaction and its length are where parseSequencerBatchTransaction
\* looks.
LEMMA TransactionAt ==
    ASSUME NEW b \in Seq(Contexts), NEW i \in 1 .. Len(b),
           NEW k \in 1 .. Len(b[i].sequenced)
    PROVE  LET tx == b[i].sequenced[k]
               e == EncodeBatch(b)
               start == TransactionStart(b, i, k - 1)
           IN  /\ tx \in Seq(Nat)
               /\ start \in Nat
               /\ start >= 15 + 16 * Len(b)
               /\ TransactionStart(b, i, k) = start + 3 + Len(tx)
               /\ start + 3 + Len(tx) <= Len(e)
               /\ \A m \in 1 .. 3 : e[start + m] = Encode(Len(tx), 3)[m]
               /\ \A m \in 1 .. Len(tx) : e[start + 3 + m] = tx[m]
<1> DEFINE base == 15 + 16 * Len(b)
           e == EncodeBatch(b)
           parts == TransactionsBytes(b)
           all == FlattenSeq(parts)
           o == Offsets(parts)[i - 1]
           c == b[i]
           inner == TransactionBytes(c)
           p == Offsets(inner)[k - 1]
           tx == c.sequenced[k]
           framed == WithLength(tx)
           start == TransactionStart(b, i, k - 1)
           next == TransactionStart(b, i, k)
<1>1. /\ Len(b) \in Nat /\ parts \in Seq(Seq(Nat)) /\ Len(parts) = Len(b)
      /\ c \in Contexts /\ parts[i] = EncodeTransactions(c)
    BY BatchParts
<1>2. /\ inner \in Seq(Seq(Nat)) /\ Len(inner) = Len(c.sequenced)
      /\ tx \in Seq(Nat) /\ inner[k] = framed
      /\ parts[i] = FlattenSeq(inner)
    BY <1>1, TransactionBytesType
<1>3. /\ Len(framed) = 3 + Len(tx)
      /\ \A m \in 1 .. 3 : framed[m] = Encode(Len(tx), 3)[m]
      /\ \A m \in 1 .. Len(tx) : framed[3 + m] = tx[m]
    BY <1>2, TransactionLayout
<1>4. /\ Len(e) = base + Len(all)
      /\ \A m \in 1 .. Len(all) : e[base + m] = all[m]
    BY BatchLayout
<1>5. start = base + o + p /\ next = base + o + Offsets(inner)[k]
    BY DEF TransactionStart, ContextStart
<1>6. i \in 1 .. Len(parts) /\ k \in 1 .. Len(inner)
    BY <1>1, <1>2
<1>7. Len(tx) \in Nat /\ base \in Nat
    BY <1>1, <1>2
<1> HIDE DEF base, e, parts, inner, tx, framed, start, next, c
<1>8. /\ o \in Nat /\ Offsets(parts)[i] = o + Len(parts[i])
      /\ Len(parts[i]) \in Nat /\ Len(all) \in Nat
      /\ Offsets(parts)[i] <= Len(all)
      /\ \A m \in 1 .. Len(parts[i]) : all[o + m] = parts[i][m]
    BY <1>1, <1>6, PartAt
<1>9. /\ p \in Nat /\ Offsets(inner)[k] = p + Len(framed)
      /\ Offsets(inner)[k] <= Len(parts[i])
      /\ \A m \in 1 .. Len(framed) : parts[i][p + m] = framed[m]
    <2>1. inner \in Seq(Seq(Nat))
        BY <1>2
    <2>2. /\ p \in Nat /\ Offsets(inner)[k] = p + Len(inner[k])
          /\ Offsets(inner)[k] <= Len(FlattenSeq(inner))
          /\ \A m \in 1 .. Len(inner[k]) :
                FlattenSeq(inner)[p + m] = inner[k][m]
        BY <1>6, <2>1, PartAt
    <2> QED
        BY <1>2, <2>2
<1> HIDE DEF all, o, p
<1>10. /\ start \in Nat /\ start >= base /\ next = start + 3 + Len(tx)
       /\ start + 3 + Len(tx) <= Len(e)
    <2>1. Len(e) = base + Len(all)
        BY <1>4
    <2>2. p + 3 + Len(tx) <= Len(parts[i]) /\ p \in Nat
              /\ Offsets(inner)[k] = p + 3 + Len(tx)
        BY <1>3, <1>7, <1>9
    <2>3. o + Len(parts[i]) <= Len(all) /\ o \in Nat
        BY <1>8
    <2> QED
        BY <1>5, <1>7, <1>8, <2>1, <2>2, <2>3
<1>11. ASSUME NEW m \in 1 .. 3 + Len(tx)
       PROVE  e[start + m] = framed[m]
    <2>1. /\ p + m \in 1 .. Len(parts[i])
          /\ o + (p + m) \in 1 .. Len(all)
          /\ base + (o + (p + m)) = start + m
        <3>1. /\ p \in Nat /\ 3 + Len(tx) \in Nat /\ Len(parts[i]) \in Nat
              /\ o \in Nat /\ Len(all) \in Nat /\ base \in Nat
            BY <1>7, <1>8, <1>9
        <3>2. p + (3 + Len(tx)) <= Len(parts[i])
            BY <1>3, <1>9
        <3>3. p + m \in 1 .. Len(parts[i])
            BY <3>1, <3>2, Within
        <3>4. o + Len(parts[i]) <= Len(all)
            BY <1>8
        <3>5. o + (p + m) \in 1 .. Len(all)
            BY <3>1, <3>3, <3>4, Within
        <3>6. \A u, v, w \in Nat : u + (v + (w + m)) = u + v + w + m
            OBVIOUS
        <3> QED
            BY <1>5, <3>1, <3>3, <3>5, <3>6
    <2>2. parts[i][p + m] = framed[m]
        BY <1>3, <1>9
    <2>3. all[o + (p + m)] = parts[i][p + m]
        BY <1>8, <2>1
    <2>4. e[base + (o + (p + m))] = all[o + (p + m)]
        BY <1>4, <2>1
    <2> QED
        BY <2>1, <2>2, <2>3, <2>4
<1>12. \A m \in 1 .. 3 : e[start + m] = Encode(Len(tx), 3)[m]
    BY <1>3, <1>7, <1>11
<1>13. ASSUME NEW m \in 1 .. Len(tx)
       PROVE  e[start + 3 + m] = tx[m]
    <2>1. 3 + m \in 1 .. 3 + Len(tx) /\ start + (3 + m) = start + 3 + m
        BY <1>7, <1>10
    <2>2. e[start + (3 + m)] = framed[3 + m]
        BY <1>11, <2>1
    <2> QED
        BY <1>3, <2>1, <2>2
<1> QED
    BY <1>2, <1>10, <1>12, <1>13 DEF base, e, c, tx, start, next

-----------------------------------------------------------------------------
(* The elements of a batch.                                                *)

ElementRecords == [queueOrigin: {"sequencer", "l1"}, timestamp: Nat,
                   blockNumber: Nat, data: Seq(Nat)]

LEMMA ElementsOfContext ==
    ASSUME NEW c \in Contexts
    PROVE  /\ Len(c.sequenced) \in Nat /\ c.queued \in Nat
           /\ ElementsOf(c) \in Seq(ElementRecords)
           /\ Len(ElementsOf(c)) = Len(c.sequenced) + c.queued
           /\ \A k \in 1 .. Len(c.sequenced) :
                 ElementsOf(c)[k] =
                     [queueOrigin |-> "sequencer", timestamp |-> c.timestamp,
                      blockNumber |-> c.blockNumber,
                      data |-> c.sequenced[k]]
           /\ \A k \in 1 .. c.queued :
                 ElementsOf(c)[Len(c.sequenced) + k] =
                     [queueOrigin |-> "l1", timestamp |-> 0,
                      blockNumber |-> 0, data |-> <<>>]
<1> DEFINE txs == c.sequenced
           n == Len(txs)
           q == c.queued
           sequencer(k) ==
               [queueOrigin |-> "sequencer", timestamp |-> c.timestamp,
                blockNumber |-> c.blockNumber, data |-> txs[k]]
           element == [queueOrigin |-> "l1", timestamp |-> 0,
                       blockNumber |-> 0, data |-> <<>>]
           s == [k \in 1 .. n |-> sequencer(k)]
           t == [k \in 1 .. q |-> element]
<1>1. /\ n \in Nat /\ DOMAIN txs = 1 .. n /\ q \in Nat
      /\ \A k \in 1 .. n : txs[k] \in Seq(Nat)
      /\ c.timestamp \in Nat /\ c.blockNumber \in Nat
    BY DEF Contexts
<1>2. \A k \in 1 .. n : sequencer(k) \in ElementRecords
    BY <1>1 DEF ElementRecords
<1>3. element \in ElementRecords
    <2>1. <<>> \in Seq(Nat)
        OBVIOUS
    <2> QED
        BY <2>1 DEF ElementRecords
<1>4. ElementsOf(c) = s \o t
    BY <1>1 DEF ElementsOf
<1> HIDE DEF n, txs, q
<1>5. \A k \in 1 .. n : s[k] = sequencer(k)
    OBVIOUS
<1>6. \A k \in 1 .. q : t[k] = element
    OBVIOUS
<1>7. s \in [1 .. n -> ElementRecords] /\ t \in [1 .. q -> ElementRecords]
    <2> HIDE DEF sequencer, element
    <2> QED
        BY <1>2, <1>3
<1> HIDE DEF s, t
<1>8. /\ s \in Seq(ElementRecords) /\ Len(s) = n
      /\ t \in Seq(ElementRecords) /\ Len(t) = q
    BY <1>1, <1>7
<1>9. s \in Seq(ElementRecords) /\ t \in Seq(ElementRecords)
    BY <1>8
<1>10. /\ s \o t \in Seq(ElementRecords) /\ Len(s \o t) = Len(s) + Len(t)
       /\ \A k \in 1 .. Len(s) : (s \o t)[k] = s[k]
       /\ \A k \in 1 .. Len(t) : (s \o t)[Len(s) + k] = t[k]
    BY <1>9, Concatenation
<1>11. /\ ElementsOf(c) \in Seq(ElementRecords)
       /\ Len(ElementsOf(c)) = n + q
       /\ \A k \in 1 .. n : ElementsOf(c)[k] = s[k]
       /\ \A k \in 1 .. q : ElementsOf(c)[n + k] = t[k]
    BY <1>4, <1>8, <1>10
<1> HIDE DEF sequencer, element
<1>12. /\ \A k \in 1 .. n : ElementsOf(c)[k] = sequencer(k)
       /\ \A k \in 1 .. q : ElementsOf(c)[n + k] = element
    BY <1>5, <1>6, <1>11
<1> QED
    BY <1>1, <1>11, <1>12 DEF n, q, txs, sequencer, element

LEMMA ElementListsType ==
    ASSUME NEW b \in Seq(Contexts)
    PROVE  /\ ElementLists(b) \in Seq(Seq(ElementRecords))
           /\ Len(ElementLists(b)) = Len(b)
           /\ \A i \in 1 .. Len(b) : ElementLists(b)[i] = ElementsOf(b[i])
<1> DEFINE n == Len(b)
<1>1. /\ n \in Nat /\ DOMAIN b = 1 .. n
      /\ \A i \in 1 .. n : b[i] \in Contexts
    OBVIOUS
<1>2. \A i \in 1 .. n : ElementsOf(b[i]) \in Seq(ElementRecords)
    BY <1>1, ElementsOfContext
<1>3. ElementLists(b) = [i \in 1 .. n |-> ElementsOf(b[i])]
    BY <1>1 DEF ElementLists
<1> HIDE DEF n
<1>4. ElementLists(b) \in [1 .. n -> Seq(ElementRecords)]
    BY <1>2, <1>3
<1>5. ElementLists(b) \in Seq(Seq(ElementRecords)) /\ Len(ElementLists(b)) = n
    BY <1>1, <1>4
<1> QED
    BY <1>3, <1>5 DEF n

\* The elements of a context: first those of the sequencer, then those of
\* the queue.
LEMMA ElementAt ==
    ASSUME batch \in Seq(Contexts), NEW i \in 1 .. Len(batch)
    PROVE  LET c == batch[i]
               before == Offsets(ElementLists(batch))[i - 1]
           IN  /\ c \in Contexts
               /\ Len(c.sequenced) \in Nat /\ c.queued \in Nat
               /\ before \in Nat
               /\ Offsets(ElementLists(batch))[i] =
                     before + Len(c.sequenced) + c.queued
               /\ Offsets(ElementLists(batch))[i] <= Len(Elements)
               /\ \A k \in 1 .. Len(c.sequenced) :
                     Elements[before + k] =
                         [queueOrigin |-> "sequencer",
                          timestamp |-> c.timestamp,
                          blockNumber |-> c.blockNumber,
                          data |-> c.sequenced[k]]
               /\ \A k \in 1 .. c.queued :
                     Elements[before + Len(c.sequenced) + k] =
                         [queueOrigin |-> "l1", timestamp |-> 0,
                          blockNumber |-> 0, data |-> <<>>]
<1> DEFINE c == batch[i]
           parts == ElementLists(batch)
           before == Offsets(parts)[i - 1]
           n == Len(c.sequenced)
           list == ElementsOf(c)
           sequencer(k) ==
               [queueOrigin |-> "sequencer", timestamp |-> c.timestamp,
                blockNumber |-> c.blockNumber, data |-> c.sequenced[k]]
           element == [queueOrigin |-> "l1", timestamp |-> 0,
                       blockNumber |-> 0, data |-> <<>>]
<1>1. /\ parts \in Seq(Seq(ElementRecords)) /\ i \in 1 .. Len(parts)
      /\ parts[i] = list
    BY ElementListsType
<1>2. c \in Contexts
    OBVIOUS
<1>3. /\ n \in Nat /\ c.queued \in Nat
      /\ Len(list) = n + c.queued
      /\ \A k \in 1 .. n : list[k] = sequencer(k)
      /\ \A k \in 1 .. c.queued : list[n + k] = element
    BY <1>2, ElementsOfContext
<1>4. Elements = FlattenSeq(parts)
    BY DEF Elements, ElementLists
<1> HIDE DEF parts, list, n, sequencer, element
<1>5. /\ before \in Nat /\ Offsets(parts)[i] = before + Len(parts[i])
      /\ Offsets(parts)[i] <= Len(FlattenSeq(parts))
      /\ \A m \in 1 .. Len(parts[i]) :
            FlattenSeq(parts)[before + m] = parts[i][m]
    <2>1. parts \in Seq(Seq(ElementRecords)) /\ i \in 1 .. Len(parts)
        BY <1>1
    <2> QED
        BY <2>1, PartAt
<1> HIDE DEF before, c
<1>6. /\ Offsets(parts)[i] = before + n + c.queued
      /\ Offsets(parts)[i] <= Len(Elements)
      /\ \A m \in 1 .. n + c.queued : Elements[before + m] = list[m]
    <2>1. parts[i] = list /\ Len(parts[i]) = n + c.queued
        BY <1>1, <1>3
    <2>2. Offsets(parts)[i] = before + n + c.queued
        <3>1. Offsets(parts)[i] = before + Len(parts[i])
            BY <1>5
        <3>2. before \in Nat /\ n \in Nat /\ c.queued \in Nat
            BY <1>3, <1>5
        <3>3. before + (n + c.queued) = before + n + c.queued
            BY <3>2
        <3> QED
            BY <2>1, <3>1, <3>3
    <2> QED
        BY <1>4, <1>5, <2>1, <2>2
<1>7. ASSUME NEW k \in 1 .. n
      PROVE  Elements[before + k] = sequencer(k)
    <2>1. k \in 1 .. n + c.queued
        BY <1>3
    <2>2. Elements[before + k] = list[k]
        BY <1>6, <2>1
    <2> QED
        BY <1>3, <2>2
<1>8. ASSUME NEW k \in 1 .. c.queued
      PROVE  Elements[before + n + k] = element
    <2>1. n + k \in 1 .. n + c.queued /\ before + (n + k) = before + n + k
        BY <1>3, <1>5
    <2>2. Elements[before + (n + k)] = list[n + k]
        BY <1>6, <2>1
    <2> QED
        BY <1>3, <2>1, <2>2
<1> QED
    BY <1>2, <1>3, <1>5, <1>6, <1>7, <1>8
    DEF c, before, n, parts, sequencer, element

-----------------------------------------------------------------------------
(* What the handler reads of the calldata.                                 *)

LEMMA MinOfTwo ==
    ASSUME NEW x \in Nat, NEW y \in Nat
    PROVE  Min({x, y}) = IF x <= y THEN x ELSE y
<1> DEFINE small == IF x <= y THEN x ELSE y
<1>1. small \in {x, y} /\ \A z \in {x, y} : small <= z
    OBVIOUS
<1>2. \A w \in {x, y} : (\A z \in {x, y} : w <= z) => w = small
    OBVIOUS
<1> HIDE DEF small
<1>3. Min({x, y}) = small
    BY <1>1, <1>2 DEF Min
<1> QED
    BY <1>3 DEF small

LEMMA SliceIs ==
    ASSUME calldata \in Seq(Nat), NEW from \in Nat, NEW to \in Nat,
           from <= to
    PROVE  /\ Slice(from, to) \in Seq(Nat)
           /\ Len(Slice(from, to)) =
                 IF to <= Len(calldata) THEN to - from
                 ELSE IF from <= Len(calldata) THEN Len(calldata) - from
                 ELSE 0
           /\ \A m \in 1 .. Len(Slice(from, to)) :
                 Slice(from, to)[m] = calldata[from + m]
<1> DEFINE n == Len(calldata)
           last == IF to <= n THEN to ELSE n
<1>1. n \in Nat
    OBVIOUS
<1>2. Slice(from, to) = SubSeq(calldata, from + 1, last)
    BY <1>1, MinOfTwo DEF Slice
<1>3. /\ last \in Nat /\ last <= n
      /\ from + 1 \in 1 .. n + 1 \/ from + 1 > last
    BY <1>1
<1>4. CASE from + 1 > last
    <2>1. Slice(from, to) = <<>>
        BY <1>2, <1>3, <1>4
    <2> QED
        BY <1>1, <1>4, <2>1
<1>5. CASE from + 1 <= last
    <2>1. \A m \in from + 1 .. last : m \in 1 .. n
        BY <1>1, <1>3
    <2>2. /\ SubSeq(calldata, from + 1, last) \in Seq(Nat)
          /\ Len(SubSeq(calldata, from + 1, last)) = last - from
          /\ \A m \in 1 .. last - from :
                SubSeq(calldata, from + 1, last)[m] = calldata[from + m]
        BY <1>1, <1>3, <1>5, <2>1
    <2> QED
        BY <1>1, <1>2, <1>5, <2>2
<1> QED
    BY <1>3, <1>4, <1>5

LEMMA NotEmpty ==
    ASSUME NEW S, NEW s \in Seq(S), Len(s) > 0
    PROVE  s # <<>>
OBVIOUS

LEMMA EmptySlice ==
    ASSUME calldata \in Seq(Nat), NEW from \in Nat, NEW to \in Nat,
           from <= to, from >= Len(calldata)
    PROVE  Slice(from, to) = <<>>
<1>1. Len(calldata) \in Nat
    OBVIOUS
<1>2. Slice(from, to) \in Seq(Nat)
    BY SliceIs
<1>3. Len(Slice(from, to)) = IF to <= Len(calldata) THEN to - from
                             ELSE IF from <= Len(calldata)
                             THEN Len(calldata) - from ELSE 0
    BY SliceIs
<1>4. Len(Slice(from, to)) = 0
    BY <1>1, <1>3
<1> QED
    BY <1>2, <1>4

\* A field that is there with all its bytes.
LEMMA WholeField ==
    ASSUME CalldataOK, NEW offset \in Nat, NEW to \in Nat,
           NEW bytes \in Seq(Nat), to = offset + Len(bytes),
           to <= Len(calldata),
           \A m \in 1 .. Len(bytes) :
               EncodeBatch(batch)[offset + m] = bytes[m]
    PROVE  Slice(offset, to) = bytes
<1> DEFINE s == Slice(offset, to)
           n == Len(bytes)
<1>1. calldata \in Seq(Nat) /\ n \in Nat /\ Len(calldata) \in Nat
    BY DEF CalldataOK
<1>2. /\ s \in Seq(Nat) /\ Len(s) = n
      /\ \A m \in 1 .. Len(s) : s[m] = calldata[offset + m]
    <2>1. calldata \in Seq(Nat) /\ offset <= to /\ to - offset = n
        BY <1>1
    <2>2. /\ s \in Seq(Nat)
          /\ Len(s) = IF to <= Len(calldata) THEN to - offset
                      ELSE IF offset <= Len(calldata)
                      THEN Len(calldata) - offset ELSE 0
          /\ \A m \in 1 .. Len(s) : s[m] = calldata[offset + m]
        BY <2>1, SliceIs
    <2> QED
        BY <2>1, <2>2
<1>3. ASSUME NEW m \in 1 .. n
      PROVE  s[m] = bytes[m]
    <2>1. offset + m \in 1 .. Len(calldata)
        BY <1>1
    <2>2. calldata[offset + m] = EncodeBatch(batch)[offset + m]
        BY <2>1 DEF CalldataOK
    <2> QED
        BY <1>2, <2>2
<1> HIDE DEF s
<1>4. s = bytes
    BY <1>1, <1>2, <1>3, SeqEqual
<1> QED
    BY <1>4 DEF s

-----------------------------------------------------------------------------
(* The invariant holds initially.                                          *)

LEMMA BatchFacts ==
    ASSUME FieldsFit, CalldataOK
    PROVE  /\ batch \in Seq(Contexts)
           /\ Len(batch) \in Nat /\ Len(batch) > 0
           /\ Len(batch) < 256 * 256 * 256
           /\ \A i \in 1 .. Len(batch) : Fits(batch[i])
           /\ EncodeBatch(batch) \in Seq(Nat)
           /\ Len(EncodeBatch(batch)) \in Nat
           /\ Len(EncodeBatch(batch)) >= 15 + 16 * Len(batch)
           /\ calldata \in Seq(Nat) /\ Len(calldata) \in Nat
           /\ Complete => Len(calldata) = Len(EncodeBatch(batch))
<1>1. batch \in Batches
    BY DEF CalldataOK
<1>2. /\ batch \in Seq(Contexts)
      /\ Len(batch) \in Nat /\ Len(batch) > 0
      /\ Len(batch) < 256 * 256 * 256
      /\ \A i \in 1 .. Len(batch) : Fits(batch[i])
    BY <1>1, BatchesFit
<1>3. batch \in Seq(Contexts)
    BY <1>2
<1> DEFINE all == FlattenSeq(TransactionsBytes(batch))
<1>4. /\ EncodeBatch(batch) \in Seq(Nat)
      /\ Len(EncodeBatch(batch)) = 15 + 16 * Len(batch) + Len(all)
    BY <1>3, BatchLayout
<1>5. Len(all) \in Nat
    <2>1. TransactionsBytes(batch) \in Seq(Seq(Nat))
        BY <1>3, BatchParts
    <2>2. all \in Seq(Nat)
        BY <2>1, FlattenLayout
    <2> QED
        BY <2>2
<1> HIDE DEF all
<1>6. Len(EncodeBatch(batch)) >= 15 + 16 * Len(batch)
    BY <1>2, <1>4, <1>5
<1>7. calldata \in Seq(Nat) /\ Len(calldata) \in Nat
    BY DEF CalldataOK
<1>8. Complete => Len(calldata) = Len(EncodeBatch(batch))
    BY DEF Complete
<1> QED
    BY <1>2, <1>4, <1>6, <1>7, <1>8

LEMMA Header ==
    ASSUME FieldsFit, CalldataOK, Len(calldata) >= 15
    PROVE  /\ IsNumber(NumContextsField)
           /\ ToNumber(NumContextsField) = Len(batch)
<1> DEFINE field == Encode(Len(batch), 3)
<1>1. /\ Len(batch) \in Nat /\ Len(batch) < 256 * 256 * 256
      /\ batch \in Seq(Contexts)
    BY BatchFacts
<1>2. field \in Seq(Nat) /\ Len(field) = 3
    BY <1>1, FieldType
<1>3. \A m \in 1 .. 3 : EncodeBatch(batch)[12 + m] = field[m]
    BY <1>1, BatchLayout
<1>4. ToNumber(field) = Len(batch)
    BY <1>1, ThreeBytes
<1> HIDE DEF field
<1>5. NumContextsField = field
    <2>1. /\ \A m \in 1 .. Len(field) :
                EncodeBatch(batch)[12 + m] = field[m]
          /\ 15 = 12 + Len(field)
        BY <1>2, <1>3
    <2> QED
        BY <1>2, <2>1, WholeField DEF NumContextsField
<1>6. field # <<>>
    <2>1. field \in Seq(Nat)
        BY <1>2
    <2>2. Len(field) > 0
        BY <1>2
    <2> QED
        BY <2>1, <2>2, NotEmpty
<1> QED
    BY <1>4, <1>5, <1>6 DEF IsNumber

LEMMA InitDecoder ==
    ASSUME FieldsFit, Init
    PROVE  DecoderInv
<1> DEFINE e == EncodeBatch(batch)
<1>1. PICK length \in 0 .. Len(e) : calldata = SubSeq(e, 1, length)
    BY DEF Init
<1>2. CalldataOK
    <2>1. batch \in Batches
        BY DEF Init
    <2>2. batch \in Seq(Contexts)
        BY <2>1, BatchesFit
    <2>3. e \in Seq(Nat)
        BY <2>2, BatchLayout
    <2> HIDE DEF e
    <2>4. /\ calldata \in Seq(Nat) /\ Len(calldata) = length
          /\ \A m \in 1 .. length : calldata[m] = e[m]
        BY <1>1, <2>3
    <2> QED
        BY <1>1, <2>1, <2>4 DEF CalldataOK, e
<1>3. Complete => Len(calldata) >= 15
    BY <1>2, BatchFacts
<1>4. Len(calldata) >= 15 => pc = "context" /\ numContexts = Len(batch)
    <2> SUFFICES ASSUME Len(calldata) >= 15
                 PROVE  pc = "context" /\ numContexts = Len(batch)
        OBVIOUS
    <2>1. /\ IsNumber(NumContextsField)
          /\ ToNumber(NumContextsField) = Len(batch)
        BY <1>2, Header
    <2>2. Len(calldata) \in Nat
        BY <1>2, BatchFacts
    <2>3. ~(Len(calldata) < 12)
        BY <2>2
    <2> QED
        BY <2>1, <2>3 DEF Init
<1>5. ASSUME pc # "thrown", Len(calldata) \notin {13, 14}
      PROVE  ControlOK /\ ContextOK /\ PointerOK /\ EntriesOK
    <2>1. Len(calldata) >= 12 /\ NumContextsField # <<>>
        BY <1>5 DEF Init, IsNumber
    <2>2. calldata \in Seq(Nat) /\ Len(calldata) \in Nat
        BY <1>2, BatchFacts
    <2>3. Len(calldata) >= 15
        <3>1. Len(calldata) # 12
            <4>1. Len(calldata) = 12 => Slice(12, 15) = <<>>
                BY <2>2, EmptySlice
            <4> QED
                BY <2>1, <4>1 DEF NumContextsField
        <3>2. /\ Len(calldata) >= 12
              /\ Len(calldata) # 13 /\ Len(calldata) # 14
            BY <1>5, <2>1
        <3>3. \A n \in Nat : n >= 12 /\ n # 12 /\ n # 13 /\ n # 14
                             => n >= 15
            OBVIOUS
        <3> QED
            BY <2>2, <3>1, <3>2, <3>3
    <2>4. /\ pc = "context" /\ numContexts = Len(batch)
          /\ contextNumber = 0 /\ entries = <<>>
          /\ nextTxPointer = 15 + 16 * Len(batch)
        BY <1>4, <2>3 DEF Init
    <2>5. batch \in Seq(Contexts) /\ Len(batch) \in Nat
        BY <1>2, BatchFacts
    <2>6. ControlOK
        BY <2>3, <2>4, <2>5 DEF ControlOK
    <2>7. ContextOK
        BY <2>4 DEF ContextOK
    <2>8. PointerOK
        <3>1. RightPointer = 15 + 16 * Len(batch)
            BY <2>4, <2>5, StartsMeet DEF RightPointer
        <3> QED
            BY <2>4, <2>5, <3>1 DEF PointerOK
    <2>9. EntriesOK
        <3>1. Offsets(ElementLists(batch))[0] = 0
            BY <2>5, ElementListsType, OffsetsStep
        <3>2. ElementsRead = 0
            BY <2>4, <3>1 DEF ElementsRead
        <3>3. /\ entries \in Seq(EntryRecords) /\ Len(entries) = 0
              /\ DOMAIN entries = {}
            BY <2>4
        <3> QED
            BY <3>2, <3>3 DEF EntriesOK
    <2> QED
        BY <2>6, <2>7, <2>8, <2>9
<1>6. Complete => pc # "thrown"
    BY <1>3, <1>4
<1> QED
    BY <1>2, <1>5, <1>6 DEF DecoderInv

-----------------------------------------------------------------------------
(* ReadContext.                                                            *)

LEMMA EncodedNumber ==
    ASSUME NEW n \in Nat
    PROVE  /\ IsNumber(Encode(n, 3)) /\ IsNumber(Encode(n, 5))
           /\ n < 256 * 256 * 256 => ToNumber(Encode(n, 3)) = n
           /\ n < 256 * 256 * 256 * 256 * 256 => ToNumber(Encode(n, 5)) = n
<1>1. /\ Encode(n, 3) \in Seq(Nat) /\ Len(Encode(n, 3)) = 3
      /\ Encode(n, 5) \in Seq(Nat) /\ Len(Encode(n, 5)) = 5
    BY FieldType
<1>2. Encode(n, 3) # <<>>
    <2> DEFINE field == Encode(n, 3)
    <2>1. field \in Seq(Nat)
        BY <1>1
    <2>2. Len(field) = 3
        BY <1>1
    <2> HIDE DEF field
    <2>3. Len(field) > 0
        BY <2>2
    <2>4. field # <<>>
        BY <2>1, <2>3, NotEmpty
    <2> QED
        BY <2>4 DEF field
<1>3. Encode(n, 5) # <<>>
    <2> DEFINE field == Encode(n, 5)
    <2>1. field \in Seq(Nat)
        BY <1>1
    <2>2. Len(field) = 5
        BY <1>1
    <2> HIDE DEF field
    <2>3. Len(field) > 0
        BY <2>2
    <2>4. field # <<>>
        BY <2>1, <2>3, NotEmpty
    <2> QED
        BY <2>4 DEF field
<1> QED
    BY <1>2, <1>3, ThreeBytes, FiveBytes DEF IsNumber

LEMMA ToNumberType ==
    ASSUME NEW bytes \in Seq(Nat)
    PROVE  ToNumber(bytes) \in Nat
<1>1. PICK number \in [0 .. Len(bytes) -> Nat] :
          ToNumber(bytes) = number[Len(bytes)]
    BY ToNumberStep
<1>2. Len(bytes) \in 0 .. Len(bytes)
    OBVIOUS
<1> QED
    BY <1>1, <1>2

LEMMA ContextSlices ==
    ASSUME FieldsFit, CalldataOK, NEW i \in 0 .. Len(batch) - 1
    PROVE  LET c == batch[i + 1]
               offset == 15 + 16 * i
           IN  /\ offset + 11 <= Len(calldata) =>
                     /\ Slice(offset, offset + 3) =
                           Encode(Len(c.sequenced), 3)
                     /\ Slice(offset + 3, offset + 6) = Encode(c.queued, 3)
                     /\ Slice(offset + 6, offset + 11) =
                           Encode(c.timestamp, 5)
               /\ offset + 16 <= Len(calldata) =>
                     Slice(offset + 11, offset + 16) =
                         Encode(c.blockNumber, 5)
               /\ Slice(offset + 11, offset + 16) # <<>> =>
                     offset + 11 <= Len(calldata)
               /\ ToNumber(Slice(offset + 11, offset + 16)) \in Nat
<1> DEFINE c == batch[i + 1]
           e == EncodeBatch(batch)
           offset == 15 + 16 * i
           sequenced == Encode(Len(c.sequenced), 3)
           queued == Encode(c.queued, 3)
           timestamp == Encode(c.timestamp, 5)
           blockNumber == Encode(c.blockNumber, 5)
<1>1. /\ batch \in Seq(Contexts) /\ Len(batch) \in Nat
      /\ calldata \in Seq(Nat) /\ Len(calldata) \in Nat
    BY BatchFacts
<1>2. /\ c \in Contexts
      /\ \A m \in 1 .. 3 : /\ e[offset + m] = sequenced[m]
                           /\ e[offset + 3 + m] = queued[m]
      /\ \A m \in 1 .. 5 : /\ e[offset + 6 + m] = timestamp[m]
                           /\ e[offset + 11 + m] = blockNumber[m]
    BY <1>1, ContextAt
<1>3. /\ Len(c.sequenced) \in Nat /\ c.queued \in Nat
      /\ c.timestamp \in Nat /\ c.blockNumber \in Nat
    <2>1. c \in Contexts
        BY <1>2
    <2> HIDE DEF c
    <2> QED
        BY <2>1 DEF Contexts
<1>4. offset \in Nat
    BY <1>1
<1>5. /\ sequenced \in Seq(Nat) /\ Len(sequenced) = 3
      /\ queued \in Seq(Nat) /\ Len(queued) = 3
      /\ timestamp \in Seq(Nat) /\ Len(timestamp) = 5
      /\ blockNumber \in Seq(Nat) /\ Len(blockNumber) = 5
    BY <1>3, FieldType
<1> HIDE DEF offset, sequenced, queued, timestamp, blockNumber
<1>6. ASSUME offset + 11 <= Len(calldata)
      PROVE  /\ Slice(offset, offset + 3) = sequenced
             /\ Slice(offset + 3, offset + 6) = queued
             /\ Slice(offset + 6, offset + 11) = timestamp
    <2>1. Slice(offset, offset + 3) = sequenced
        <3>1. /\ offset + 3 \in Nat /\ offset + 3 <= Len(calldata)
              /\ offset + 3 = offset + Len(sequenced)
              /\ sequenced \in Seq(Nat)
            BY <1>1, <1>4, <1>5, <1>6
        <3>2. \A m \in 1 .. Len(sequenced) : e[offset + m] = sequenced[m]
            BY <1>2, <1>5
        <3> QED
            BY <1>4, <3>1, <3>2, WholeField
    <2>2. Slice(offset + 3, offset + 6) = queued
        <3>1. /\ offset + 3 \in Nat /\ offset + 6 \in Nat
              /\ offset + 6 <= Len(calldata)
              /\ offset + 6 = offset + 3 + Len(queued)
              /\ queued \in Seq(Nat)
            BY <1>1, <1>4, <1>5, <1>6
        <3>2. \A m \in 1 .. Len(queued) : e[offset + 3 + m] = queued[m]
            BY <1>2, <1>5
        <3> QED
            BY <3>1, <3>2, WholeField
    <2>3. Slice(offset + 6, offset + 11) = timestamp
        <3>1. /\ offset + 6 \in Nat /\ offset + 11 \in Nat
              /\ offset + 11 <= Len(calldata)
              /\ offset + 11 = offset + 6 + Len(timestamp)
              /\ timestamp \in Seq(Nat)
            BY <1>1, <1>4, <1>5, <1>6
        <3>2. \A m \in 1 .. Len(timestamp) : e[offset + 6 + m] = timestamp[m]
            BY <1>2, <1>5
        <3> QED
            BY <3>1, <3>2, WholeField
    <2> QED
        BY <2>1, <2>2, <2>3
<1>7. ASSUME offset + 16 <= Len(calldata)
      PROVE  Slice(offset + 11, offset + 16) = blockNumber
    <2>1. /\ offset + 11 \in Nat /\ offset + 16 \in Nat
          /\ offset + 16 <= Len(calldata)
          /\ offset + 16 = offset + 11 + Len(blockNumber)
          /\ blockNumber \in Seq(Nat)
        BY <1>1, <1>4, <1>5, <1>7
    <2>2. \A m \in 1 .. Len(blockNumber) :
              e[offset + 11 + m] = blockNumber[m]
        BY <1>2, <1>5
    <2> QED
        BY <2>1, <2>2, WholeField
<1>8. /\ offset + 11 \in Nat /\ offset + 16 \in Nat
      /\ offset + 11 <= offset + 16
    BY <1>4
<1>9. ASSUME Slice(offset + 11, offset + 16) # <<>>
      PROVE  offset + 11 <= Len(calldata)
    <2>1. ~(offset + 11 >= Len(calldata))
        BY <1>1, <1>8, <1>9, EmptySlice
    <2> QED
        BY <1>1, <1>8, <2>1
<1>10. ToNumber(Slice(offset + 11, offset + 16)) \in Nat
    <2>1. Slice(offset + 11, offset + 16) \in Seq(Nat)
        BY <1>1, <1>8, SliceIs
    <2> QED
        BY <2>1, ToNumberType
<1> QED
    BY <1>6, <1>7, <1>9, <1>10
    DEF offset, sequenced, queued, timestamp, blockNumber

\* No step changes the batch or the calldata.
LEMMA Kept ==
    ASSUME batch' = batch, calldata' = calldata
    PROVE  /\ CalldataOK => CalldataOK'
           /\ Complete' <=> Complete
           /\ Elements' = Elements
           /\ \A k : QueuedBefore(k)' = QueuedBefore(k)
<1>1. CalldataOK => CalldataOK'
    BY DEF CalldataOK
<1>2. Complete' <=> Complete
    BY DEF Complete
<1>3. Elements' = Elements
    BY DEF Elements
<1>4. \A k : QueuedBefore(k)' = QueuedBefore(k)
    BY <1>3 DEF QueuedBefore
<1> QED
    BY <1>1, <1>2, <1>3, <1>4

LEMMA ThrowDecoder ==
    ASSUME DecoderInv, Throw, ~Complete
    PROVE  DecoderInv'
<1>1. batch' = batch /\ calldata' = calldata /\ pc' = "thrown"
    BY DEF Throw
<1>2. CalldataOK' /\ ~Complete'
    BY <1>1, Kept DEF DecoderInv
<1> QED
    BY <1>1, <1>2 DEF DecoderInv

\* Calldata of 13 or 14 bytes ends in the number of contexts.
LEMMA ShortCalldata ==
    ASSUME FieldsFit, DecoderInv, Len(calldata) \in {13, 14},
           batch' = batch, calldata' = calldata
    PROVE  DecoderInv'
<1>1. CalldataOK
    BY DEF DecoderInv
<1>2. /\ Len(batch) \in Nat /\ Len(calldata) \in Nat
      /\ Complete => Len(calldata) >= 15 + 16 * Len(batch)
    BY <1>1, BatchFacts
<1>3. ~Complete
    <2>1. \A m, n \in Nat : m \in {13, 14} => ~(m >= 15 + 16 * n)
        OBVIOUS
    <2> QED
        BY <1>2, <2>1
<1>4. CalldataOK' /\ ~Complete'
    BY <1>1, <1>3, Kept
<1> QED
    BY <1>4 DEF DecoderInv

LEMMA ReadContextDecoder ==
    ASSUME FieldsFit, DecoderInv, ReadContext
    PROVE  DecoderInv'
<1>0. CalldataOK /\ pc = "context" /\ contextNumber < numContexts
    BY DEF DecoderInv, ReadContext
<1>1. /\ batch \in Seq(Contexts) /\ Len(batch) \in Nat
      /\ Len(calldata) \in Nat
      /\ Complete => Len(calldata) >= 15 + 16 * Len(batch)
    BY <1>0, BatchFacts
<1>2. CASE Len(calldata) \in {13, 14}
    <2>1. batch' = batch /\ calldata' = calldata
        BY DEF ReadContext, Throw
    <2> QED
        BY <1>2, <2>1, ShortCalldata
<1>3. CASE Len(calldata) \notin {13, 14}
    <2> DEFINE i == contextNumber
               c == batch[i + 1]
               offset == 15 + 16 * i
    <2>1. ControlOK /\ PointerOK /\ EntriesOK
        BY <1>0, <1>3 DEF DecoderInv
    <2>2. /\ i \in 0 .. Len(batch) - 1 /\ numContexts = Len(batch)
          /\ i \in Nat /\ i + 1 \in 1 .. Len(batch) /\ i + 1 - 1 = i
        BY <1>0, <1>1, <2>1 DEF ControlOK
    <2>3. /\ c \in Contexts /\ Fits(c)
        BY <1>0, <2>2, BatchFacts DEF Fits
    <2>4. /\ Len(c.sequenced) \in Nat /\ c.queued \in Nat
          /\ c.timestamp \in Nat /\ c.blockNumber \in Nat
          /\ Len(c.sequenced) < 256 * 256 * 256
          /\ c.queued < 256 * 256 * 256
          /\ c.timestamp < 256 * 256 * 256 * 256 * 256
          /\ c.blockNumber < 256 * 256 * 256 * 256 * 256
        BY <2>3 DEF Fits, Contexts
    <2>5. /\ offset + 11 <= Len(calldata) =>
                /\ Slice(offset, offset + 3) = Encode(Len(c.sequenced), 3)
                /\ Slice(offset + 3, offset + 6) = Encode(c.queued, 3)
                /\ Slice(offset + 6, offset + 11) = Encode(c.timestamp, 5)
          /\ offset + 16 <= Len(calldata) =>
                Slice(offset + 11, offset + 16) = Encode(c.blockNumber, 5)
          /\ Slice(offset + 11, offset + 16) # <<>> =>
                offset + 11 <= Len(calldata)
          /\ ToNumber(Slice(offset + 11, offset + 16)) \in Nat
        BY <1>0, <2>2, ContextSlices
    <2>6. offset \in Nat /\ offset + 16 <= 15 + 16 * Len(batch)
        BY <1>1, <2>2
    <2> DEFINE f == ContextFields
    <2>7. f = [sequenced |-> Slice(offset, offset + 3),
               queued |-> Slice(offset + 3, offset + 6),
               timestamp |-> Slice(offset + 6, offset + 11),
               blockNumber |-> Slice(offset + 11, offset + 16)]
        BY DEF ContextFields
    <2> HIDE DEF offset, i, f
    <2>8. DOMAIN f = {"sequenced", "queued", "timestamp", "blockNumber"}
        BY <2>7
    <2>9. CASE \E x \in DOMAIN ContextFields : ~IsNumber(ContextFields[x])
        <3>1. ASSUME Complete
              PROVE  FALSE
            <4>1. offset + 16 <= Len(calldata) /\ offset + 11 <= Len(calldata)
                BY <1>1, <2>6, <3>1
            <4>2. /\ IsNumber(f.sequenced) /\ IsNumber(f.queued)
                  /\ IsNumber(f.timestamp) /\ IsNumber(f.blockNumber)
                BY <2>4, <2>5, <2>7, <4>1, EncodedNumber
            <4>3. \A x \in DOMAIN f : IsNumber(f[x])
                BY <2>8, <4>2
            <4> QED
                BY <2>9, <4>3 DEF f
        <3>2. Throw
            BY <2>9 DEF ReadContext
        <3> QED
            BY <3>1, <3>2, ThrowDecoder
    <2>10. CASE \A x \in DOMAIN ContextFields : IsNumber(ContextFields[x])
        <3>1. /\ context' = [x \in DOMAIN f |-> ToNumber(f[x])]
              /\ contextNumber' = i + 1 /\ pc' = "element"
              /\ batch' = batch /\ calldata' = calldata
              /\ numContexts' = numContexts
              /\ nextTxPointer' = nextTxPointer /\ entries' = entries
            BY <2>10 DEF ReadContext, f, i
        <3>2. Slice(offset + 11, offset + 16) # <<>>
            <4>1. IsNumber(f["blockNumber"])
                BY <2>8, <2>10 DEF f
            <4> QED
                BY <2>7, <4>1 DEF IsNumber
        <3>3. offset + 11 <= Len(calldata)
            BY <2>5, <3>2
        <3> HIDE DEF c
        <3>4. /\ context'.sequenced = Len(c.sequenced)
              /\ context'.queued = c.queued
              /\ context'.timestamp = c.timestamp
              /\ context'.blockNumber =
                    ToNumber(Slice(offset + 11, offset + 16))
            BY <2>4, <2>5, <2>7, <2>8, <3>1, <3>3, EncodedNumber
        <3>5. context'.blockNumber \in Nat
            BY <2>5, <3>4
        <3>6. context' \in [sequenced: Nat, queued: Nat,
                            timestamp: Nat, blockNumber: Nat]
            <4>1. context' = [sequenced |-> context'.sequenced,
                              queued |-> context'.queued,
                              timestamp |-> context'.timestamp,
                              blockNumber |-> context'.blockNumber]
                BY <2>8, <3>1
            <4> QED
                BY <2>4, <3>4, <3>5, <4>1
        <3>7. Current' = c
            BY <3>1 DEF Current, c
        <3>8. CalldataOK' /\ (Complete' <=> Complete)
                  /\ Elements' = Elements
                  /\ \A k : QueuedBefore(k)' = QueuedBefore(k)
            BY <1>0, <3>1, Kept
        <3>9. SequencedRead' = 0 /\ QueuedRead' = 0
            BY <2>4, <3>4, <3>7 DEF SequencedRead, QueuedRead
        <3>10. ControlOK'
            BY <2>1, <2>2, <3>1 DEF ControlOK
        <3>11. ContextOK'
            <4>1. \/ context'.blockNumber = c.blockNumber
                  \/ Len(calldata) < 15 + 16 * Len(batch)
                <5>1. CASE offset + 16 <= Len(calldata)
                    BY <2>4, <2>5, <3>4, <5>1, EncodedNumber
                <5>2. CASE ~(offset + 16 <= Len(calldata))
                    BY <1>1, <2>6, <5>2
                <5> QED
                    BY <5>1, <5>2
            <4> QED
                BY <2>4, <3>1, <3>4, <3>6, <3>7, <4>1 DEF ContextOK
        <3>12. RightPointer' = RightPointer
            <4>1. RightPointer = ContextStart(batch, i)
                BY <1>0 DEF RightPointer, i
            <4>2. RightPointer' = TransactionStart(batch, i + 1, 0)
                BY <3>1, <3>9 DEF RightPointer
            <4>3. TransactionStart(batch, i + 1, 0) = ContextStart(batch, i)
                BY <1>1, <2>2, StartsMeet
            <4> QED
                BY <4>1, <4>2, <4>3
        <3>13. PointerOK'
            BY <2>1, <3>1, <3>8, <3>12 DEF PointerOK
        <3>14. ElementsRead' = ElementsRead
            <4>1. ElementsRead = Offsets(ElementLists(batch))[i]
                BY <1>0 DEF ElementsRead, i
            <4>2. ElementsRead' = Offsets(ElementLists(batch))[i] + 0 + 0
                BY <2>2, <3>1, <3>9 DEF ElementsRead
            <4>3. Offsets(ElementLists(batch))[i] \in Nat
                <5>1. /\ ElementLists(batch) \in Seq(Seq(ElementRecords))
                      /\ Len(ElementLists(batch)) = Len(batch)
                    BY <1>1, ElementListsType
                <5>2. i \in 0 .. Len(batch)
                    BY <1>1, <2>2
                <5> QED
                    BY <5>1, <5>2, OffsetsStep
            <4> QED
                BY <4>1, <4>2, <4>3
        <3>15. EntriesOK'
            <4>1. ASSUME NEW k \in DOMAIN entries
                  PROVE  Places(k)' /\ DataOK(k)'
                <5>1. Places(k) /\ DataOK(k)
                    BY <2>1 DEF EntriesOK
                <5>2. Places(k)'
                    BY <3>1, <3>8, <5>1 DEF Places
                <5>3. DataOK(k)'
                    BY <3>1, <3>8, <5>1 DEF DataOK
                <5> QED
                    BY <5>2, <5>3
            <4> QED
                BY <2>1, <3>1, <3>14, <4>1 DEF EntriesOK
        <3> QED
            BY <3>1, <3>8, <3>10, <3>11, <3>13, <3>15 DEF DecoderInv
    <2> QED
        BY <2>9, <2>10
<1> QED
    BY <1>2, <1>3

-----------------------------------------------------------------------------
(* ReadTransaction.                                                        *)

LEMMA PrefixOf ==
    ASSUME NEW S, NEW s \in Seq(S), NEW t \in Seq(S), Len(s) <= Len(t),
           \A m \in 1 .. Len(s) : s[m] = t[m]
    PROVE  IsPrefix(s, t)
<1>1. Len(s) \in Nat /\ Len(t) \in Nat
    OBVIOUS
<1>2. /\ SubSeq(s, 1, Len(s)) \in Seq(S) /\ Len(SubSeq(s, 1, Len(s))) = Len(s)
      /\ \A m \in 1 .. Len(s) : SubSeq(s, 1, Len(s))[m] = s[m]
    BY <1>1
<1>3. /\ SubSeq(t, 1, Len(s)) \in Seq(S) /\ Len(SubSeq(t, 1, Len(s))) = Len(s)
      /\ \A m \in 1 .. Len(s) : SubSeq(t, 1, Len(s))[m] = t[m]
    BY <1>1
<1>4. SubSeq(s, 1, Len(s)) = SubSeq(t, 1, Len(s))
    BY <1>2, <1>3, SeqEqual
<1> QED
    BY <1>4 DEF IsPrefix

\* What parseSequencerBatchTransaction finds at the place of a transaction.
LEMMA TransactionSlice ==
    ASSUME FieldsFit, CalldataOK, NEW i \in 1 .. Len(batch),
           NEW k \in 1 .. Len(batch[i].sequenced)
    PROVE  LET tx == batch[i].sequenced[k]
               start == TransactionStart(batch, i, k - 1)
               field == Slice(start, start + 3)
               read == Slice(start + 3, start + 3 + ToNumber(field))
           IN  /\ start \in Nat /\ tx \in Seq(Nat)
               /\ start >= 15 + 16 * Len(batch)
               /\ Complete => IsNumber(field)
               /\ read \in Seq(Nat)
               /\ IsPrefix(read, tx)
               /\ \/ /\ read = tx
                     /\ TransactionStart(batch, i, k) = start + 3 + Len(read)
                  \/ ~Complete /\ start + 3 + Len(read) >= Len(calldata)
<1> DEFINE e == EncodeBatch(batch)
           tx == batch[i].sequenced[k]
           start == TransactionStart(batch, i, k - 1)
           next == TransactionStart(batch, i, k)
           field == Slice(start, start + 3)
           from == start + 3
           read == Slice(from, from + ToNumber(field))
           bytes == Encode(Len(tx), 3)
<1>1. /\ batch \in Seq(Contexts) /\ calldata \in Seq(Nat)
      /\ Len(calldata) \in Nat /\ Len(e) \in Nat
      /\ Complete => Len(calldata) = Len(e)
      /\ Fits(batch[i])
    BY BatchFacts
<1>2. /\ tx \in Seq(Nat) /\ start \in Nat /\ start >= 15 + 16 * Len(batch)
      /\ next = start + 3 + Len(tx) /\ start + 3 + Len(tx) <= Len(e)
      /\ \A m \in 1 .. 3 : e[start + m] = bytes[m]
      /\ \A m \in 1 .. Len(tx) : e[start + 3 + m] = tx[m]
    BY <1>1, TransactionAt
<1>3. Len(tx) \in Nat /\ Len(tx) < 256 * 256 * 256
    <2> DEFINE c == batch[i]
    <2>1. Fits(c)
        BY <1>1
    <2>2. tx \in Seq(Nat)
        BY <1>2
    <2>3. tx = c.sequenced[k] /\ k \in 1 .. Len(c.sequenced)
        OBVIOUS
    <2> HIDE DEF c, tx
    <2>4. k \in DOMAIN c.sequenced
        BY <2>1, <2>3 DEF Fits, Contexts
    <2> QED
        BY <2>1, <2>2, <2>3, <2>4 DEF Fits
<1>4. /\ bytes \in Seq(Nat) /\ Len(bytes) = 3
      /\ IsNumber(bytes) /\ ToNumber(bytes) = Len(tx)
    <2> DEFINE length == Len(tx)
    <2>1. length \in Nat /\ length < 256 * 256 * 256
        BY <1>3
    <2> HIDE DEF length
    <2>2. /\ Encode(length, 3) \in Seq(Nat) /\ Len(Encode(length, 3)) = 3
        BY <2>1, FieldType
    <2>3. /\ IsNumber(Encode(length, 3))
          /\ ToNumber(Encode(length, 3)) = length
        BY <2>1, EncodedNumber
    <2> QED
        BY <2>2, <2>3 DEF length
<1> HIDE DEF e, tx, start, next, bytes
<1>5. from \in Nat /\ start <= from
    BY <1>2
<1>6. ASSUME from <= Len(calldata)
      PROVE  field = bytes
    <2>1. from = start + Len(bytes) /\ bytes \in Seq(Nat)
        BY <1>4
    <2>2. \A m \in 1 .. Len(bytes) : e[start + m] = bytes[m]
        BY <1>2, <1>4
    <2> QED
        BY <1>2, <1>5, <1>6, <2>1, <2>2, WholeField DEF e
<1>7. Complete => from <= Len(calldata)
    BY <1>1, <1>2, <1>3
<1>8. field \in Seq(Nat)
    BY <1>1, <1>2, <1>5, SliceIs
<1>9. ToNumber(field) \in Nat
    BY <1>8, ToNumberType
<1> HIDE DEF field
<1>10. Complete => IsNumber(field)
    BY <1>4, <1>6, <1>7
<1>11. from + ToNumber(field) \in Nat /\ from <= from + ToNumber(field)
    BY <1>5, <1>9
<1>12. read \in Seq(Nat)
    BY <1>1, <1>5, <1>11, SliceIs
<1>13. CASE from > Len(calldata)
    <2>1. ~Complete
        BY <1>1, <1>5, <1>7, <1>13
    <2>2. read = <<>>
        BY <1>1, <1>5, <1>11, <1>13, EmptySlice
    <2>3. Len(read) = 0
        BY <2>2
    <2>4. IsPrefix(read, tx)
        BY <1>2, <1>3, <1>12, <2>3, PrefixOf
    <2>5. from + Len(read) >= Len(calldata)
        BY <1>1, <1>5, <1>13, <2>3
    <2> QED
        BY <1>2, <1>10, <1>12, <2>1, <2>4, <2>5 DEF tx, start, field
<1>14. CASE from <= Len(calldata)
    <2>1. ToNumber(field) = Len(tx)
        BY <1>4, <1>6, <1>14
    <2> DEFINE to == from + Len(tx)
    <2>2. read = Slice(from, to)
        BY <2>1
    <2>3. to \in Nat /\ from <= to /\ to = next
        <3>1. to = next
            BY <1>2
        <3>2. to \in Nat /\ from <= to
            <4>1. from \in Nat /\ Len(tx) \in Nat
                BY <1>3, <1>5
            <4> HIDE DEF from
            <4> QED
                BY <4>1
        <3> QED
            BY <3>1, <3>2
    <2> HIDE DEF to, from, read
    <2>4. CASE to <= Len(calldata)
        <3>1. \A m \in 1 .. Len(tx) : e[from + m] = tx[m]
            BY <1>2 DEF from
        <3>2. to = from + Len(tx)
            BY DEF to
        <3>3. read = tx
            BY <1>2, <1>5, <2>2, <2>3, <2>4, <3>1, <3>2, WholeField DEF e
        <3>4. IsPrefix(read, tx)
            BY <1>2, <3>3, Len(tx) <= Len(tx), PrefixOf
        <3>5. next = from + Len(read)
            BY <2>3, <3>2, <3>3
        <3> QED
            BY <1>2, <1>10, <1>12, <3>3, <3>4, <3>5
            DEF tx, start, next, field, from, read
    <2>5. CASE to > Len(calldata)
        <3>1. ~Complete
            BY <1>1, <1>2, <1>3, <2>3, <2>5
        <3>2. Len(read) = Len(calldata) - from
            BY <1>1, <1>5, <1>14, <2>2, <2>3, <2>5, SliceIs
        <3>3. \A m \in 1 .. Len(read) : read[m] = calldata[from + m]
            BY <1>1, <1>5, <2>2, <2>3, SliceIs
        <3>4. Len(read) <= Len(tx)
            BY <1>1, <1>3, <1>5, <2>5, <3>2 DEF to
        <3>5. ASSUME NEW m \in 1 .. Len(read)
              PROVE  read[m] = tx[m]
            <4>1. from + m \in 1 .. Len(calldata) /\ m \in 1 .. Len(tx)
                BY <1>1, <1>3, <1>5, <3>2, <3>4
            <4>2. calldata[from + m] = e[from + m]
                BY <4>1 DEF CalldataOK, e
            <4>3. e[from + m] = tx[m]
                BY <1>2, <4>1 DEF from
            <4> QED
                BY <3>3, <4>2, <4>3
        <3>6. IsPrefix(read, tx)
            BY <1>2, <1>12, <3>4, <3>5, PrefixOf
        <3>7. from + Len(read) >= Len(calldata)
            BY <1>1, <1>5, <3>2
        <3> QED
            BY <1>2, <1>10, <1>12, <3>1, <3>6, <3>7
            DEF tx, start, field, from, read
    <2> QED
        BY <1>1, <2>3, <2>4, <2>5
<1> QED
    BY <1>1, <1>5, <1>13, <1>14

\* An entry is added behind those that are there.
LEMMA AppendEntry ==
    ASSUME EntriesOK, NEW e \in EntryRecords, entries' = Append(entries, e),
           batch' = batch, calldata' = calldata
    PROVE  /\ Len(entries) \in Nat
           /\ entries' \in Seq(EntryRecords)
           /\ Len(entries') = Len(entries) + 1
           /\ DOMAIN entries = 1 .. Len(entries)
           /\ DOMAIN entries' = 1 .. Len(entries) + 1
           /\ entries'[Len(entries) + 1] = e
           /\ \A k \in 1 .. Len(entries) :
                 entries'[k] = entries[k] /\ Places(k) /\ Places(k)'
<1>1. entries \in Seq(EntryRecords)
    BY DEF EntriesOK
<1>2. /\ Len(entries) \in Nat /\ DOMAIN entries = 1 .. Len(entries)
      /\ entries' \in Seq(EntryRecords)
      /\ Len(entries') = Len(entries) + 1
      /\ DOMAIN entries' = 1 .. Len(entries) + 1
      /\ entries'[Len(entries) + 1] = e
      /\ \A k \in 1 .. Len(entries) : entries'[k] = entries[k]
    BY <1>1
<1>3. ASSUME NEW k \in 1 .. Len(entries)
      PROVE  Places(k) /\ Places(k)'
    <2>1. Places(k)
        BY <1>2 DEF EntriesOK
    <2>2. entries'[k] = entries[k]
        BY <1>2
    <2>3. Elements' = Elements /\ QueuedBefore(k)' = QueuedBefore(k)
        BY Kept
    <2> QED
        BY <2>1, <2>2, <2>3 DEF Places
<1> QED
    BY <1>2, <1>3

\* Where a context stands while its elements are read.
LEMMA AtElement ==
    ASSUME FieldsFit, CalldataOK, ControlOK, ContextOK, pc = "element"
    PROVE  LET i == contextNumber
               before == Offsets(ElementLists(batch))[i - 1]
           IN  /\ i \in 1 .. Len(batch)
               /\ batch \in Seq(Contexts)
               /\ Current \in Contexts /\ Current = batch[i]
               /\ Len(Current.sequenced) \in Nat /\ Current.queued \in Nat
               /\ context \in [sequenced: Nat, queued: Nat,
                               timestamp: Nat, blockNumber: Nat]
               /\ context.sequenced \in 0 .. Len(Current.sequenced)
               /\ context.queued \in 0 .. Current.queued
               /\ context.sequenced > 0 => context.queued = Current.queued
               /\ before \in Nat
               /\ ElementsRead = before + SequencedRead + QueuedRead
               /\ RightPointer = TransactionStart(batch, i, SequencedRead)
<1> DEFINE i == contextNumber
<1>1. batch \in Seq(Contexts) /\ Len(batch) \in Nat
    BY BatchFacts
<1>2. i \in 1 .. Len(batch)
    BY <1>1 DEF ControlOK
<1>3. Current = batch[i]
    BY DEF Current
<1>4. /\ batch[i] \in Contexts
      /\ Len(batch[i].sequenced) \in Nat /\ batch[i].queued \in Nat
      /\ Offsets(ElementLists(batch))[i - 1] \in Nat
    BY <1>1, <1>2, ElementAt
<1>5. /\ context \in [sequenced: Nat, queued: Nat,
                      timestamp: Nat, blockNumber: Nat]
      /\ context.sequenced <= Len(Current.sequenced)
      /\ context.queued <= Current.queued
      /\ context.sequenced > 0 => context.queued = Current.queued
    BY DEF ContextOK
<1>6. context.sequenced \in Nat /\ context.queued \in Nat
    BY <1>5
<1>7. /\ context.sequenced \in 0 .. Len(Current.sequenced)
      /\ context.queued \in 0 .. Current.queued
    BY <1>3, <1>4, <1>5, <1>6
<1>8. /\ ElementsRead = Offsets(ElementLists(batch))[i - 1]
                            + SequencedRead + QueuedRead
      /\ RightPointer = TransactionStart(batch, i, SequencedRead)
    BY DEF ElementsRead, RightPointer
<1> QED
    BY <1>1, <1>2, <1>3, <1>4, <1>5, <1>7, <1>8

LEMMA ReadTransactionDecoder ==
    ASSUME FieldsFit, DecoderInv, ReadTransaction
    PROVE  DecoderInv'
<1>0. CalldataOK /\ pc = "element" /\ context.sequenced > 0
    BY DEF DecoderInv, ReadTransaction
<1>1. CASE Len(calldata) \in {13, 14}
    <2>1. batch' = batch /\ calldata' = calldata
        BY DEF ReadTransaction, Throw
    <2> QED
        BY <1>1, <2>1, ShortCalldata
<1>2. CASE Len(calldata) \notin {13, 14}
    <2> DEFINE i == contextNumber
               c == Current
               k == SequencedRead + 1
               tx == c.sequenced[k]
               before == Offsets(ElementLists(batch))[i - 1]
               start == TransactionStart(batch, i, k - 1)
               next == TransactionStart(batch, i, k)
               pointer == nextTxPointer
               field == Slice(pointer, pointer + 3)
               read == Slice(pointer + 3, pointer + 3 + ToNumber(field))
    <2>1. ControlOK /\ ContextOK /\ PointerOK /\ EntriesOK
        BY <1>0, <1>2 DEF DecoderInv
    <2>2. /\ i \in 1 .. Len(batch) /\ batch \in Seq(Contexts)
          /\ c \in Contexts /\ c = batch[i]
          /\ Len(c.sequenced) \in Nat /\ c.queued \in Nat
          /\ context \in [sequenced: Nat, queued: Nat,
                          timestamp: Nat, blockNumber: Nat]
          /\ context.sequenced \in 0 .. Len(c.sequenced)
          /\ context.queued = c.queued
          /\ before \in Nat
          /\ ElementsRead = before + SequencedRead + QueuedRead
          /\ RightPointer = TransactionStart(batch, i, SequencedRead)
        BY <1>0, <2>1, AtElement
    <2>3. /\ SequencedRead = Len(c.sequenced) - context.sequenced
          /\ QueuedRead = 0
        BY <2>2 DEF SequencedRead, QueuedRead
    <2>4. /\ k \in 1 .. Len(c.sequenced) /\ k \in Nat
          /\ k - 1 = SequencedRead
        <3>1. \A m, l \in Nat : l > 0 /\ l <= m =>
                  /\ m - l + 1 \in 1 .. m /\ m - l + 1 \in Nat
                  /\ (m - l + 1) - 1 = m - l
            OBVIOUS
        <3>2. /\ Len(c.sequenced) \in Nat /\ context.sequenced \in Nat
              /\ context.sequenced > 0
              /\ context.sequenced <= Len(c.sequenced)
            BY <1>0, <2>2
        <3>3. k = Len(c.sequenced) - context.sequenced + 1
            BY <2>3
        <3> HIDE DEF c, k
        <3> QED
            BY <2>3, <3>1, <3>2, <3>3
    <2>5. RightPointer = start
        BY <2>2, <2>4
    <2>6. PICK last \in Nat : /\ last = before + k
                              /\ last = Len(entries) + 1
                              /\ Len(entries) \in Nat
        <3>1. Len(entries) = before + SequencedRead + QueuedRead
            BY <2>1, <2>2 DEF EntriesOK
        <3> HIDE DEF before, c
        <3>2. before \in Nat /\ SequencedRead \in Nat /\ QueuedRead = 0
            <4>1. before \in Nat /\ QueuedRead = 0
                BY <2>2, <2>3
            <4>2. /\ Len(c.sequenced) \in Nat
                  /\ context.sequenced \in 0 .. Len(c.sequenced)
                BY <2>2
            <4>3. \A m \in Nat : \A l \in 0 .. m : m - l \in Nat
                OBVIOUS
            <4> QED
                BY <2>3, <4>1, <4>2, <4>3
        <3>3. /\ Len(entries) \in Nat
              /\ before + (SequencedRead + 1) = Len(entries) + 1
            BY <3>1, <3>2
        <3> QED
            BY <3>3
    <2>7. /\ pointer \in Nat /\ pointer >= 15 + 16 * Len(batch)
          /\ pointer # start => pointer >= Len(calldata) /\ ~Complete
        BY <2>1, <2>5 DEF PointerOK
    <2>8. /\ calldata \in Seq(Nat) /\ Len(calldata) \in Nat
          /\ Len(batch) \in Nat
        BY <1>0, BatchFacts
    <2> HIDE DEF i, c, k, tx, before, start, next, pointer, field, read
    <2>9. pointer = start =>
              /\ tx \in Seq(Nat)
              /\ Complete => IsNumber(field)
              /\ read \in Seq(Nat)
              /\ IsPrefix(read, tx)
              /\ \/ read = tx /\ next = pointer + 3 + Len(read)
                 \/ ~Complete /\ pointer + 3 + Len(read) >= Len(calldata)
        <3>1. k \in 1 .. Len(batch[i].sequenced)
            BY <2>2, <2>4
        <3> QED
            BY <1>0, <2>2, <3>1, TransactionSlice
            DEF tx, start, next, field, read
    <2>10. CASE ~IsNumber(field)
        <3>1. Throw
            BY <2>10 DEF ReadTransaction, field, pointer
        <3>2. ~Complete
            BY <2>7, <2>9, <2>10
        <3> QED
            BY <3>1, <3>2, ThrowDecoder
    <2>11. CASE IsNumber(field)
        <3> DEFINE e == [index |-> PrevTotalElements + Len(entries),
                         queueOrigin |-> "sequencer", queueIndex |-> Null,
                         timestamp |-> context.timestamp,
                         blockNumber |-> context.blockNumber,
                         data |-> read, type |-> TypeOf(read),
                         decoded |-> IsDecoded(read)]
        <3>1. /\ entries' = Append(entries, e)
              /\ nextTxPointer' = pointer + 3 + Len(read)
              /\ context' = [context EXCEPT !.sequenced = @ - 1]
              /\ batch' = batch /\ calldata' = calldata /\ pc' = pc
              /\ numContexts' = numContexts
              /\ contextNumber' = contextNumber
            BY <2>11 DEF ReadTransaction, field, read, pointer
        <3>2. pointer < Len(calldata)
            <4>1. field # <<>>
                BY <2>11 DEF IsNumber
            <4>2. pointer >= Len(calldata) => field = <<>>
                BY <2>7, <2>8, EmptySlice DEF field
            <4> QED
                BY <2>7, <2>8, <4>1, <4>2
        <3>3. pointer = start
            BY <2>7, <2>8, <3>2
        <3>4. /\ tx \in Seq(Nat) /\ read \in Seq(Nat) /\ IsPrefix(read, tx)
              /\ \/ read = tx /\ next = pointer + 3 + Len(read)
                 \/ ~Complete /\ pointer + 3 + Len(read) >= Len(calldata)
            BY <2>9, <3>3
        <3>5. e \in EntryRecords
            <4>1. PrevTotalElements + Len(entries) \in Nat
                BY <2>6, SequencerBatchAssumption
            <4>2. TypeOf(read) \in {"EIP155", "ETH_SIGN", Null}
                BY DEF TypeOf
            <4>3. IsDecoded(read) \in BOOLEAN
                BY DEF IsDecoded
            <4>4. context.timestamp \in Nat /\ context.blockNumber \in Nat
                BY <2>2
            <4> QED
                BY <3>4, <4>1, <4>2, <4>3, <4>4 DEF EntryRecords
        <3>6. /\ e.index = PrevTotalElements + Len(entries)
              /\ e.queueOrigin = "sequencer" /\ e.queueIndex = Null
              /\ e.timestamp = context.timestamp
              /\ e.blockNumber = context.blockNumber
              /\ e.data = read
            OBVIOUS
        <3> HIDE DEF e
        <3>7. /\ entries' \in Seq(EntryRecords)
              /\ Len(entries') = last
              /\ DOMAIN entries = 1 .. Len(entries)
              /\ DOMAIN entries' = 1 .. last
              /\ entries'[last] = e
              /\ \A m \in 1 .. Len(entries) :
                    entries'[m] = entries[m] /\ Places(m)'
            BY <2>1, <2>6, <3>1, <3>5, AppendEntry
        <3>8. CalldataOK' /\ (Complete' <=> Complete)
                  /\ Elements' = Elements
            BY <1>0, <3>1, Kept
        <3>9. /\ context'.sequenced = context.sequenced - 1
              /\ context'.queued = context.queued
              /\ context'.timestamp = context.timestamp
              /\ context'.blockNumber = context.blockNumber
              /\ context' \in [sequenced: Nat, queued: Nat,
                               timestamp: Nat, blockNumber: Nat]
            <4>1. context \in [sequenced: Nat, queued: Nat,
                               timestamp: Nat, blockNumber: Nat]
                BY <2>2
            <4>2. context.sequenced - 1 \in Nat
                BY <1>0, <4>1
            <4> QED
                BY <3>1, <4>1, <4>2
        <3>10. Current' = c
            BY <3>1 DEF Current, c
        <3>11. SequencedRead' = k /\ QueuedRead' = 0
            <4>1. /\ SequencedRead' = Len(c.sequenced) - context'.sequenced
                  /\ QueuedRead' = c.queued - context'.queued
                BY <3>10 DEF SequencedRead, QueuedRead
            <4>2. /\ Len(c.sequenced) \in Nat /\ context.sequenced \in Nat
                  /\ c.queued \in Nat /\ context.queued = c.queued
                BY <2>2
            <4>3. k = Len(c.sequenced) - context.sequenced + 1
                BY <2>3 DEF k
            <4> QED
                BY <3>9, <4>1, <4>2, <4>3
        <3>12. ControlOK'
            BY <2>1, <3>1 DEF ControlOK
        <3>13. ContextOK'
            <4>1. /\ context'.sequenced <= Len(c.sequenced)
                  /\ context'.queued <= c.queued
                BY <2>2, <3>9
            <4>2. /\ context.timestamp = c.timestamp
                  /\ \/ context.blockNumber = c.blockNumber
                     \/ Len(calldata) < 15 + 16 * Len(batch)
                BY <1>0, <2>1 DEF ContextOK, c
            <4> QED
                BY <2>2, <3>1, <3>9, <3>10, <4>1, <4>2 DEF ContextOK
        <3>14. RightPointer' = next
            BY <1>0, <3>1, <3>11 DEF RightPointer, next, i
        <3>15. PointerOK'
            <4>1. Len(read) \in Nat
                BY <3>4
            <4>2. /\ nextTxPointer' \in Nat
                  /\ nextTxPointer' >= 15 + 16 * Len(batch)
                BY <2>7, <2>8, <3>1, <4>1
            <4>3. nextTxPointer' # next =>
                      nextTxPointer' >= Len(calldata) /\ ~Complete
                BY <3>1, <3>4
            <4> QED
                BY <3>1, <3>8, <3>14, <4>2, <4>3 DEF PointerOK
        <3>16. ElementsRead' = last
            <4>1. ElementsRead' = before + k + 0
                BY <1>0, <3>1, <3>11 DEF ElementsRead, before, i
            <4> QED
                BY <2>2, <2>4, <2>6, <4>1
        <3>17. Elements[last] = [queueOrigin |-> "sequencer",
                                 timestamp |-> c.timestamp,
                                 blockNumber |-> c.blockNumber,
                                 data |-> tx]
            <4>1. k \in 1 .. Len(batch[i].sequenced)
                BY <2>2, <2>4
            <4>2. Elements[before + k] =
                      [queueOrigin |-> "sequencer",
                       timestamp |-> batch[i].timestamp,
                       blockNumber |-> batch[i].blockNumber,
                       data |-> batch[i].sequenced[k]]
                BY <2>2, <4>1, ElementAt DEF before
            <4> QED
                BY <2>2, <2>6, <4>2 DEF tx
        <3>18. Places(last)'
            <4>1. context.timestamp = c.timestamp
                      /\ context.blockNumber = c.blockNumber
                <5>1. ~(Len(calldata) < 15 + 16 * Len(batch))
                    BY <2>7, <2>8, <3>2
                <5> QED
                    BY <1>0, <2>1, <5>1 DEF ContextOK, c
            <4>2. PrevTotalElements + Len(entries) =
                      PrevTotalElements + last - 1
                BY <2>6, SequencerBatchAssumption
            <4>3. /\ entries'[last] = e
                  /\ e.index = PrevTotalElements + last - 1
                BY <3>6, <3>7, <4>2
            <4>4. /\ Elements'[last].queueOrigin = "sequencer"
                  /\ Elements'[last].timestamp = c.timestamp
                  /\ Elements'[last].blockNumber = c.blockNumber
                BY <3>8, <3>17
            <4> QED
                BY <3>6, <4>1, <4>3, <4>4 DEF Places
        <3>19. ASSUME NEW m \in 1 .. last
               PROVE  DataOK(m)'
            <4>1. CASE m = last
                <5>1. /\ entries'[m].data = read
                      /\ Elements'[m].data = tx
                    BY <3>6, <3>7, <3>8, <3>17, <4>1
                <5>2. \A j \in DOMAIN entries' : ~(j > m)
                    BY <2>6, <3>7, <4>1
                <5>3. read # tx => ~Complete
                                   /\ nextTxPointer' >= Len(calldata)
                    BY <3>1, <3>4
                <5> QED
                    BY <3>1, <3>4, <3>8, <5>1, <5>2, <5>3 DEF DataOK
            <4>2. CASE m # last
                <5>1. m \in 1 .. Len(entries)
                    BY <2>6, <4>2
                <5>2. DataOK(m)
                    BY <2>1, <3>7, <5>1 DEF EntriesOK
                <5>3. ~(pointer >= Len(calldata))
                    BY <2>7, <2>8, <3>2
                <5>4. /\ entries[m].data = Elements[m].data
                      /\ IsPrefix(entries[m].data, Elements[m].data)
                    BY <5>2, <5>3 DEF DataOK, pointer
                <5>5. entries'[m] = entries[m]
                    BY <3>7, <5>1
                <5> QED
                    BY <3>8, <5>4, <5>5 DEF DataOK
            <4> QED
                BY <4>1, <4>2
        <3>20. ASSUME NEW m \in 1 .. last
               PROVE  Places(m)'
            <4>1. m = last \/ m \in 1 .. Len(entries)
                BY <2>6
            <4> QED
                BY <3>7, <3>18, <4>1
        <3>21. EntriesOK'
            BY <3>7, <3>16, <3>19, <3>20 DEF EntriesOK
        <3> QED
            BY <1>0, <3>1, <3>8, <3>12, <3>13, <3>15, <3>21 DEF DecoderInv
    <2> QED
        BY <2>10, <2>11
<1> QED
    BY <1>1, <1>2

-----------------------------------------------------------------------------
(* AddQueueElement.                                                        *)

\* As the origins of the entries are right, enqueuedCount is the number of
\* queue elements before the next element.
LEMMA QueueCount ==
    ASSUME EntriesOK, NEW last \in Nat, last = Len(entries) + 1
    PROVE  /\ EnqueuedCount = QueuedBefore(last)
           /\ EnqueuedCount \in Nat
<1>1. Len(entries) \in Nat /\ DOMAIN entries = 1 .. Len(entries)
    BY DEF EntriesOK
<1>2. DOMAIN entries = 1 .. last - 1
    BY <1>1
<1>3. \A k \in DOMAIN entries :
          entries[k].queueOrigin = Elements[k].queueOrigin
    BY DEF EntriesOK, Places
<1> DEFINE queued == {k \in DOMAIN entries : entries[k].queueOrigin = "l1"}
<1>4. queued = {m \in 1 .. last - 1 : Elements[m].queueOrigin = "l1"}
    BY <1>2, <1>3
<1>5. EnqueuedCount = QueuedBefore(last)
    BY <1>4, Zenon DEF EnqueuedCount, QueuedBefore
<1>6. IsFiniteSet(1 .. Len(entries))
    BY <1>1, FS_Interval
<1>7. queued \subseteq 1 .. Len(entries)
    BY <1>1
<1>8. Cardinality(queued) \in Nat
    BY <1>6, <1>7, FS_Subset, FS_CardinalityType
<1> QED
    BY <1>5, <1>8 DEF EnqueuedCount

LEMMA AddQueueElementDecoder ==
    ASSUME FieldsFit, DecoderInv, AddQueueElement
    PROVE  DecoderInv'
<1>0. /\ CalldataOK /\ pc = "element"
      /\ context.sequenced = 0 /\ context.queued > 0
    BY DEF DecoderInv, AddQueueElement
<1>1. CASE Len(calldata) \in {13, 14}
    <2>1. batch' = batch /\ calldata' = calldata
        BY DEF AddQueueElement
    <2> QED
        BY <1>1, <2>1, ShortCalldata
<1>2. CASE Len(calldata) \notin {13, 14}
    <2> DEFINE i == contextNumber
               c == Current
               n == Len(c.sequenced)
               k == QueuedRead + 1
               before == Offsets(ElementLists(batch))[i - 1]
               e == [index |-> PrevTotalElements + Len(entries),
                     queueOrigin |-> "l1",
                     queueIndex |-> StartingQueueIndex + EnqueuedCount,
                     timestamp |-> 0, blockNumber |-> 0, data |-> <<>>,
                     type |-> "EIP155", decoded |-> FALSE]
    <2>1. ControlOK /\ ContextOK /\ PointerOK /\ EntriesOK
        BY <1>0, <1>2 DEF DecoderInv
    <2>2. /\ i \in 1 .. Len(batch) /\ batch \in Seq(Contexts)
          /\ c = batch[i] /\ n \in Nat /\ c.queued \in Nat
          /\ context \in [sequenced: Nat, queued: Nat,
                          timestamp: Nat, blockNumber: Nat]
          /\ context.queued \in 0 .. c.queued
          /\ before \in Nat
          /\ ElementsRead = before + SequencedRead + QueuedRead
          /\ RightPointer = TransactionStart(batch, i, SequencedRead)
        BY <1>0, <2>1, AtElement
    <2>3. /\ SequencedRead = n
          /\ QueuedRead = c.queued - context.queued
        BY <1>0, <2>2 DEF SequencedRead, QueuedRead
    <2>4. /\ k \in 1 .. c.queued /\ k \in Nat
          /\ k = c.queued - context.queued + 1
        <3>1. \A m, l \in Nat : l > 0 /\ l <= m =>
                  /\ m - l + 1 \in 1 .. m /\ m - l + 1 \in Nat
            OBVIOUS
        <3>2. /\ c.queued \in Nat /\ context.queued \in Nat
              /\ context.queued > 0 /\ context.queued <= c.queued
            BY <1>0, <2>2
        <3>3. k = c.queued - context.queued + 1
            BY <2>3
        <3> HIDE DEF c, k
        <3> QED
            BY <3>1, <3>2, <3>3
    <2> HIDE DEF before, n
    <2>5. PICK last \in Nat : /\ last = before + n + k
                              /\ last = Len(entries) + 1
                              /\ Len(entries) \in Nat
        <3>1. Len(entries) = before + n + QueuedRead
            BY <2>1, <2>2, <2>3 DEF EntriesOK
        <3>2. before \in Nat /\ n \in Nat /\ QueuedRead \in Nat
            BY <2>2, <2>3
        <3>3. /\ Len(entries) \in Nat
              /\ before + n + (QueuedRead + 1) = Len(entries) + 1
            BY <3>1, <3>2
        <3> QED
            BY <3>3
    <2> HIDE DEF i, c, k
    <2>6. EnqueuedCount = QueuedBefore(last) /\ EnqueuedCount \in Nat
        BY <2>1, <2>5, QueueCount
    <2>7. /\ entries' = Append(entries, e)
          /\ nextTxPointer' = nextTxPointer
          /\ context' = [context EXCEPT !.queued = @ - 1]
          /\ batch' = batch /\ calldata' = calldata /\ pc' = pc
          /\ numContexts' = numContexts /\ contextNumber' = contextNumber
        BY DEF AddQueueElement
    <2>8. e \in EntryRecords
        <3>1. /\ PrevTotalElements + Len(entries) \in Nat
              /\ StartingQueueIndex + EnqueuedCount \in Nat
            BY <2>5, <2>6, SequencerBatchAssumption
        <3>2. <<>> \in Seq(Nat)
            OBVIOUS
        <3> QED
            BY <3>1, <3>2 DEF EntryRecords
    <2>9. /\ e.index = PrevTotalElements + Len(entries)
          /\ e.queueOrigin = "l1"
          /\ e.queueIndex = StartingQueueIndex + EnqueuedCount
          /\ e.timestamp = 0 /\ e.blockNumber = 0
          /\ e.data = <<>>
        OBVIOUS
    <2> HIDE DEF e
    <2>10. /\ entries' \in Seq(EntryRecords)
           /\ Len(entries') = last
           /\ DOMAIN entries = 1 .. Len(entries)
           /\ DOMAIN entries' = 1 .. last
           /\ entries'[last] = e
           /\ \A m \in 1 .. Len(entries) :
                 entries'[m] = entries[m] /\ Places(m)'
        BY <2>1, <2>5, <2>7, <2>8, AppendEntry
    <2>11. CalldataOK' /\ (Complete' <=> Complete)
              /\ Elements' = Elements
              /\ QueuedBefore(last)' = QueuedBefore(last)
        BY <1>0, <2>7, Kept
    <2>12. /\ context'.sequenced = 0
           /\ context'.queued = context.queued - 1
           /\ context'.timestamp = context.timestamp
           /\ context'.blockNumber = context.blockNumber
           /\ context' \in [sequenced: Nat, queued: Nat,
                            timestamp: Nat, blockNumber: Nat]
        <3>1. context \in [sequenced: Nat, queued: Nat,
                           timestamp: Nat, blockNumber: Nat]
            BY <2>2
        <3>2. context.queued - 1 \in Nat
            BY <1>0, <3>1
        <3> QED
            BY <1>0, <2>7, <3>1, <3>2
    <2>13. Current' = c
        BY <2>7 DEF Current, c
    <2>14. SequencedRead' = n /\ QueuedRead' = k
        <3>1. /\ SequencedRead' = n - context'.sequenced
              /\ QueuedRead' = c.queued - context'.queued
            BY <2>13 DEF SequencedRead, QueuedRead, n
        <3>2. n \in Nat /\ context.queued \in Nat /\ c.queued \in Nat
            BY <2>2
        <3> QED
            BY <2>4, <2>12, <3>1, <3>2
    <2>15. ControlOK'
        BY <2>1, <2>7 DEF ControlOK
    <2>16. ContextOK'
        <3>1. /\ context'.sequenced <= n
              /\ context'.queued <= c.queued
            BY <2>2, <2>12
        <3>2. /\ context.timestamp = c.timestamp
              /\ \/ context.blockNumber = c.blockNumber
                 \/ Len(calldata) < 15 + 16 * Len(batch)
            BY <1>0, <2>1 DEF ContextOK, c
        <3> QED
            BY <2>7, <2>12, <2>13, <3>1, <3>2 DEF ContextOK, n
    <2>17. RightPointer' = RightPointer
        <3>1. RightPointer = TransactionStart(batch, contextNumber, n)
            BY <2>2, <2>3 DEF i
        <3>2. RightPointer' = TransactionStart(batch, contextNumber, n)
            BY <1>0, <2>7, <2>14 DEF RightPointer
        <3> QED
            BY <3>1, <3>2
    <2>18. PointerOK'
        BY <2>1, <2>7, <2>11, <2>17 DEF PointerOK
    <2>19. ElementsRead' = last
        <3>1. ElementsRead' = before + n + k
            BY <1>0, <2>7, <2>14 DEF ElementsRead, before, i
        <3> QED
            BY <2>5, <3>1
    <2>20. Elements[last] = [queueOrigin |-> "l1", timestamp |-> 0,
                             blockNumber |-> 0, data |-> <<>>]
        <3>1. k \in 1 .. batch[i].queued
            BY <2>2, <2>4
        <3>2. Elements[before + n + k] =
                  [queueOrigin |-> "l1", timestamp |-> 0,
                   blockNumber |-> 0, data |-> <<>>]
            BY <2>2, <3>1, ElementAt DEF before, n
        <3> QED
            BY <2>5, <3>2
    <2>21. Places(last)'
        <3>1. PrevTotalElements + Len(entries) = PrevTotalElements + last - 1
            BY <2>5, SequencerBatchAssumption
        <3>2. /\ entries'[last] = e
              /\ e.index = PrevTotalElements + last - 1
              /\ e.queueIndex = StartingQueueIndex + QueuedBefore(last)'
            BY <2>6, <2>9, <2>10, <2>11, <3>1
        <3>3. /\ Elements'[last].queueOrigin = "l1"
              /\ Elements'[last].timestamp = 0
              /\ Elements'[last].blockNumber = 0
            BY <2>11, <2>20
        <3> QED
            BY <2>9, <3>2, <3>3 DEF Places
    <2>22. ASSUME NEW m \in 1 .. last
           PROVE  DataOK(m)'
        <3>1. CASE m = last
            <4>1. entries'[m].data = <<>> /\ Elements'[m].data = <<>>
                BY <2>9, <2>10, <2>11, <2>20, <3>1
            <4>2. IsPrefix(<<>>, <<>>)
                <5>0. <<>> \in Seq(Nat)
                    OBVIOUS
                <5>1. PICK s \in Seq(Nat) : s = <<>>
                    BY <5>0
                <5>2. Len(s) = 0
                    BY <5>1
                <5>3. Len(s) <= Len(s) /\ \A l \in 1 .. Len(s) : s[l] = s[l]
                    BY <5>2
                <5>4. IsPrefix(s, s)
                    BY <5>3, PrefixOf
                <5> QED
                    BY <5>1, <5>4
            <4> QED
                BY <4>1, <4>2 DEF DataOK
        <3>2. CASE m # last
            <4>1. m \in 1 .. Len(entries)
                BY <2>5, <3>2
            <4>2. DataOK(m) /\ entries'[m] = entries[m]
                BY <2>1, <2>10, <4>1 DEF EntriesOK
            <4>3. ASSUME entries[m].data # Elements[m].data
                  PROVE  \A j \in DOMAIN entries' :
                             j > m => entries'[j].queueOrigin = "l1"
                <5> SUFFICES ASSUME NEW j \in 1 .. last, j > m
                             PROVE  entries'[j].queueOrigin = "l1"
                    BY <2>10
                <5>1. CASE j = last
                    BY <2>9, <2>10, <5>1
                <5>2. CASE j # last
                    <6>1. j \in 1 .. Len(entries)
                        BY <2>5, <5>2
                    <6>2. entries[j].queueOrigin = "l1"
                        BY <2>10, <4>2, <4>3, <6>1 DEF DataOK
                    <6> QED
                        BY <2>10, <6>1, <6>2
                <5> QED
                    BY <5>1, <5>2
            <4> QED
                BY <2>7, <2>11, <4>2, <4>3 DEF DataOK
        <3> QED
            BY <3>1, <3>2
    <2>23. ASSUME NEW m \in 1 .. last
           PROVE  Places(m)'
        <3>1. m = last \/ m \in 1 .. Len(entries)
            BY <2>5
        <3> QED
            BY <2>10, <2>21, <3>1
    <2>24. EntriesOK'
        BY <2>10, <2>19, <2>22, <2>23 DEF EntriesOK
    <2> QED
        BY <1>0, <2>7, <2>11, <2>15, <2>16, <2>18, <2>24 DEF DecoderInv
<1> QED
    BY <1>1, <1>2

-----------------------------------------------------------------------------
(* EndContext and Return, and every step.                                  *)

LEMMA NothingFound ==
    ASSUME CalldataOK, PointerOK, EntriesOK,
           batch' = batch, calldata' = calldata, entries' = entries,
           nextTxPointer' = nextTxPointer,
           RightPointer' = RightPointer, ElementsRead' = ElementsRead
    PROVE  /\ CalldataOK' /\ PointerOK' /\ EntriesOK'
           /\ Complete' <=> Complete
<1>1. /\ CalldataOK' /\ (Complete' <=> Complete)
      /\ Elements' = Elements
      /\ \A k : QueuedBefore(k)' = QueuedBefore(k)
    BY Kept
<1>2. PointerOK'
    BY <1>1 DEF PointerOK
<1>3. ASSUME NEW k \in DOMAIN entries
      PROVE  Places(k)' /\ DataOK(k)'
    <2>1. Places(k) /\ DataOK(k)
        BY DEF EntriesOK
    <2>2. Places(k)'
        <3>1. QueuedBefore(k)' = QueuedBefore(k)
            BY <1>1
        <3> QED
            BY <1>1, <2>1, <3>1 DEF Places
    <2>3. DataOK(k)'
        BY <1>1, <2>1 DEF DataOK
    <2> QED
        BY <2>2, <2>3
<1>4. EntriesOK'
    BY <1>3 DEF EntriesOK
<1> QED
    BY <1>1, <1>2, <1>4

LEMMA EndContextDecoder ==
    ASSUME FieldsFit, DecoderInv, EndContext
    PROVE  DecoderInv'
<1>0. /\ CalldataOK /\ pc = "element"
      /\ context.sequenced = 0 /\ context.queued = 0
    BY DEF DecoderInv, EndContext
<1>1. /\ batch' = batch /\ calldata' = calldata /\ entries' = entries
      /\ nextTxPointer' = nextTxPointer /\ pc' = "context"
      /\ numContexts' = numContexts /\ contextNumber' = contextNumber
    BY DEF EndContext
<1>2. CASE Len(calldata) \in {13, 14}
    BY <1>1, <1>2, ShortCalldata
<1>3. CASE Len(calldata) \notin {13, 14}
    <2> DEFINE i == contextNumber
               c == Current
               n == Len(c.sequenced)
    <2>1. ControlOK /\ ContextOK /\ PointerOK /\ EntriesOK
        BY <1>0, <1>3 DEF DecoderInv
    <2>2. /\ i \in 1 .. Len(batch) /\ batch \in Seq(Contexts)
          /\ c = batch[i] /\ n \in Nat /\ c.queued \in Nat
          /\ ElementsRead = Offsets(ElementLists(batch))[i - 1]
                                + SequencedRead + QueuedRead
          /\ RightPointer = TransactionStart(batch, i, SequencedRead)
        BY <1>0, <2>1, AtElement
    <2>3. SequencedRead = n /\ QueuedRead = c.queued
        BY <1>0, <2>2 DEF SequencedRead, QueuedRead
    <2>4. RightPointer' = RightPointer
        <3>1. RightPointer' = ContextStart(batch, i)
            BY <1>1 DEF RightPointer
        <3>2. TransactionStart(batch, i, Len(batch[i].sequenced)) =
                  ContextStart(batch, i)
            BY <2>2, StartsMeet
        <3> QED
            BY <2>2, <2>3, <3>1, <3>2
    <2>5. ElementsRead' = ElementsRead
        <3>1. ElementsRead' = Offsets(ElementLists(batch))[i]
            BY <1>1 DEF ElementsRead
        <3>2. Offsets(ElementLists(batch))[i] =
                  Offsets(ElementLists(batch))[i - 1]
                      + Len(batch[i].sequenced) + batch[i].queued
            BY <2>2, ElementAt
        <3> QED
            BY <2>2, <2>3, <3>1, <3>2
    <2>6. /\ CalldataOK' /\ PointerOK' /\ EntriesOK'
          /\ Complete' <=> Complete
        BY <1>0, <1>1, <2>1, <2>4, <2>5, NothingFound
    <2>7. ControlOK' /\ ContextOK'
        BY <1>1, <2>1 DEF ControlOK, ContextOK
    <2> QED
        BY <1>1, <2>6, <2>7 DEF DecoderInv
<1> QED
    BY <1>2, <1>3

LEMMA ReturnDecoder ==
    ASSUME FieldsFit, DecoderInv, Return
    PROVE  DecoderInv'
<1>0. CalldataOK /\ pc = "context" /\ contextNumber = numContexts
    BY DEF DecoderInv, Return
<1>1. /\ batch' = batch /\ calldata' = calldata /\ entries' = entries
      /\ nextTxPointer' = nextTxPointer /\ pc' = "returned"
      /\ numContexts' = numContexts /\ contextNumber' = contextNumber
    BY DEF Return
<1>2. CASE Len(calldata) \in {13, 14}
    BY <1>1, <1>2, ShortCalldata
<1>3. CASE Len(calldata) \notin {13, 14}
    <2>1. ControlOK /\ ContextOK /\ PointerOK /\ EntriesOK
        BY <1>0, <1>3 DEF DecoderInv
    <2>2. RightPointer' = RightPointer /\ ElementsRead' = ElementsRead
        BY <1>0, <1>1 DEF RightPointer, ElementsRead
    <2>3. /\ CalldataOK' /\ PointerOK' /\ EntriesOK'
          /\ Complete' <=> Complete
        BY <1>0, <1>1, <2>1, <2>2, NothingFound
    <2>4. ControlOK' /\ ContextOK'
        BY <1>0, <1>1, <2>1 DEF ControlOK, ContextOK
    <2> QED
        BY <1>1, <2>3, <2>4 DEF DecoderInv
<1> QED
    BY <1>2, <1>3

LEMMA IdleDecoder ==
    ASSUME DecoderInv, UNCHANGED vars
    PROVE  DecoderInv'
<1>0. CalldataOK
    BY DEF DecoderInv
<1>1. /\ batch' = batch /\ calldata' = calldata /\ entries' = entries
      /\ nextTxPointer' = nextTxPointer /\ pc' = pc
      /\ numContexts' = numContexts /\ contextNumber' = contextNumber
      /\ context' = context
    BY DEF vars
<1>2. CalldataOK' /\ (Complete' <=> Complete)
    BY <1>0, <1>1, Kept
<1>3. ASSUME pc # "thrown", Len(calldata) \notin {13, 14}
      PROVE  ControlOK' /\ ContextOK' /\ PointerOK' /\ EntriesOK'
    <2>1. ControlOK /\ ContextOK /\ PointerOK /\ EntriesOK
        BY <1>3 DEF DecoderInv
    <2>2. /\ Current' = Current
          /\ SequencedRead' = SequencedRead /\ QueuedRead' = QueuedRead
        BY <1>1 DEF Current, SequencedRead, QueuedRead
    <2>3. RightPointer' = RightPointer /\ ElementsRead' = ElementsRead
        BY <1>1, <2>2 DEF RightPointer, ElementsRead
    <2>4. PointerOK' /\ EntriesOK'
        BY <1>0, <1>1, <2>1, <2>3, NothingFound
    <2>5. ControlOK' /\ ContextOK'
        BY <1>1, <2>1, <2>2 DEF ControlOK, ContextOK
    <2> QED
        BY <2>4, <2>5
<1> QED
    BY <1>1, <1>2, <1>3 DEF DecoderInv

LEMMA DecoderInvariant ==
    ASSUME FieldsFit
    PROVE  Spec => []DecoderInv
<1>1. Init => DecoderInv
    BY InitDecoder
<1>2. DecoderInv /\ [Next]_vars => DecoderInv'
    BY ReadContextDecoder, ReadTransactionDecoder,
       AddQueueElementDecoder, EndContextDecoder, ReturnDecoder,
       IdleDecoder
    DEF Next
<1> QED
    BY <1>1, <1>2, PTL DEF Spec

-----------------------------------------------------------------------------
(* What the handler returns.                                               *)

\* The handler that returns has found all elements of the batch.
LEMMA AllElements ==
    ASSUME FieldsFit, DecoderInv, pc = "returned",
           Len(calldata) \notin {13, 14}
    PROVE  /\ DOMAIN entries = DOMAIN Elements
           /\ \A k \in DOMAIN entries : Places(k) /\ DataOK(k)
<1>1. CalldataOK /\ ControlOK /\ EntriesOK
    BY DEF DecoderInv
<1>2. batch \in Seq(Contexts)
    BY <1>1, BatchFacts
<1>3. /\ ElementLists(batch) \in Seq(Seq(ElementRecords))
      /\ Len(ElementLists(batch)) = Len(batch)
    BY <1>2, ElementListsType
<1>4. Elements = FlattenSeq(ElementLists(batch))
    BY DEF Elements, ElementLists
<1>5. /\ Elements \in Seq(ElementRecords)
      /\ Len(Elements) = Offsets(ElementLists(batch))[Len(batch)]
    BY <1>3, <1>4, FlattenLayout
<1>6. contextNumber = Len(batch)
    BY <1>1 DEF ControlOK
<1>7. Len(entries) = Len(Elements)
    BY <1>1, <1>5, <1>6 DEF EntriesOK, ElementsRead
<1>8. entries \in Seq(EntryRecords)
    BY <1>1 DEF EntriesOK
<1>9. DOMAIN entries = DOMAIN Elements
    BY <1>5, <1>7, <1>8
<1> QED
    BY <1>1, <1>9 DEF EntriesOK

\* If the numbers of a batch fit into their fields, complete calldata give
\* exactly the elements of the batch, and the handler does not throw.
THEOREM BatchesDecoded ==
    ASSUME FieldsFit
    PROVE  Spec => []DecodesTheBatch
<1>1. DecoderInv => DecodesTheBatch
    <2> SUFFICES ASSUME DecoderInv, Complete
                 PROVE  /\ pc # "thrown"
                        /\ pc = "returned" =>
                              /\ DOMAIN entries = DOMAIN Elements
                              /\ \A k \in DOMAIN entries :
                                    /\ Places(k)
                                    /\ entries[k].data = Elements[k].data
        BY DEF DecodesTheBatch
    <2>1. pc # "thrown" /\ CalldataOK
        BY DEF DecoderInv
    <2>2. Len(calldata) \notin {13, 14}
        <3>1. /\ Len(batch) \in Nat /\ Len(calldata) \in Nat
              /\ Len(calldata) >= 15 + 16 * Len(batch)
            BY <2>1, BatchFacts
        <3>2. \A m, n \in Nat : m >= 15 + 16 * n => m \notin {13, 14}
            OBVIOUS
        <3> QED
            BY <3>1, <3>2
    <2>3. pc = "returned" =>
              /\ DOMAIN entries = DOMAIN Elements
              /\ \A k \in DOMAIN entries : Places(k) /\ DataOK(k)
        BY <2>2, AllElements
    <2> QED
        BY <2>1, <2>3 DEF DataOK
<1> QED
    BY <1>1, DecoderInvariant, PTL

\* If the numbers of a batch fit into their fields, calldata cut anywhere
\* but inside the number of contexts still give every element its place.
THEOREM CutsNoticed ==
    ASSUME FieldsFit
    PROVE  Spec => []CutIsNoticed
<1>1. DecoderInv => CutIsNoticed
    BY AllElements DEF CutIsNoticed, DataOK
<1> QED
    BY <1>1, DecoderInvariant, PTL
=============================================================================
