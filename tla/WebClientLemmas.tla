-------------------------- MODULE WebClientLemmas ---------------------------
(***************************************************************************)
(* What the operators of AsduPipeline and WebClient compute, for every     *)
(* ASDU, batch and list of points: Decode against Report, the messages of  *)
(* an ASDU, the folds ApplyBatch and Kept, and the cleanup.                *)
(*                                                                         *)
(* The folds of the community modules are recursive functions; Induction,  *)
(* from the well-foundedness of the numbers, unrolls them step by step.    *)
(***************************************************************************)
EXTENDS WebClient, FiniteSetTheorems, TLAPS
-----------------------------------------------------------------------------
(* Sequences of whatever they hold.                                        *)
IsSeq(q) == q \in Seq(Range(q))

(* The sequences of a set are sequences.                                   *)
LEMMA InSeq == ASSUME NEW S, NEW q \in Seq(S) PROVE IsSeq(q)
<1>1. Len(q) \in Nat /\ q \in [1..Len(q) -> S]
  OBVIOUS
<1>2. q \in [1..Len(q) -> Range(q)]
  BY <1>1 DEF Range
<1> QED BY <1>1, <1>2 DEF IsSeq

(* The positions of a sequence.                                            *)
LEMMA SeqParts ==
  ASSUME NEW q, IsSeq(q)
  PROVE  /\ Len(q) \in Nat /\ DOMAIN q = 1..Len(q)
         /\ q = <<>> <=> Len(q) = 0
  BY DEF IsSeq

(* A sequence without its first element.                                   *)
LEMMA TailParts ==
  ASSUME NEW q, IsSeq(q), q # <<>>
  PROVE  /\ IsSeq(Tail(q)) /\ Len(Tail(q)) = Len(q) - 1 /\ Len(q) \in Nat /\ Len(q) > 0
         /\ Head(q) = q[1]
         /\ \A k \in 1..(Len(q) - 1) : Tail(q)[k] = q[k + 1]
<1>1. Tail(q) \in Seq(Range(q))
  BY DEF IsSeq
<1>2. IsSeq(Tail(q))
  BY <1>1, InSeq
<1> QED BY <1>2 DEF IsSeq

(* A sequence with one more.                                               *)
LEMMA AppendParts ==
  ASSUME NEW q, IsSeq(q), NEW m
  PROVE  /\ IsSeq(Append(q, m)) /\ Len(Append(q, m)) = Len(q) + 1 /\ Len(q) \in Nat
         /\ Append(q, m)[Len(q) + 1] = m
         /\ \A k \in 1..Len(q) : Append(q, m)[k] = q[k]
<1>1. q \in Seq(Range(q) \cup {m})
  <2>1. Len(q) \in Nat /\ q \in [1..Len(q) -> Range(q)]
    BY DEF IsSeq
  <2> QED BY <2>1
<1>2. Append(q, m) \in Seq(Range(q) \cup {m})
  BY <1>1
<1>3. IsSeq(Append(q, m))
  BY <1>2, InSeq
<1> QED BY <1>1, <1>3

(* A sequence after another.                                               *)
LEMMA ConcatParts ==
  ASSUME NEW q, IsSeq(q), NEW r, IsSeq(r)
  PROVE  /\ IsSeq(q \o r) /\ Len(q \o r) = Len(q) + Len(r)
         /\ Len(q) \in Nat /\ Len(r) \in Nat
         /\ \A k \in 1..Len(q) : (q \o r)[k] = q[k]
         /\ \A k \in 1..Len(r) : (q \o r)[Len(q) + k] = r[k]
<1>1. q \in Seq(Range(q) \cup Range(r)) /\ r \in Seq(Range(q) \cup Range(r))
  <2>1. Len(q) \in Nat /\ q \in [1..Len(q) -> Range(q)]
    BY DEF IsSeq
  <2>2. Len(r) \in Nat /\ r \in [1..Len(r) -> Range(r)]
    BY DEF IsSeq
  <2> QED BY <2>1, <2>2
<1>2. q \o r \in Seq(Range(q) \cup Range(r))
  BY <1>1
<1>3. IsSeq(q \o r)
  BY <1>2, InSeq
<1> QED BY <1>1, <1>3
-----------------------------------------------------------------------------
(* Induction on a set of numbers, and the folds that it unrolls.           *)
LEMMA LeastNat ==
  ASSUME NEW T, T \subseteq Nat, T # {}
  PROVE  \E x \in T : \A y \in T : x <= y
<1> DEFINE R == OpToRel(<, Nat)
<1>1. IsWellFoundedOn(R, Nat)
  BY NatLessThanWellFounded, Zenon
<1>2. \A x, y \in Nat : y < x => <<y, x>> \in R
  BY Zenon DEF R, OpToRel
<1> HIDE DEF R
<1>3. PICK x \in T : \A y \in T : <<y, x>> \notin R
  BY <1>1, WFMin
<1>4. ASSUME NEW y \in T PROVE x <= y
  <2>1. x \in Nat /\ y \in Nat /\ ~(y < x)
    BY <1>2, <1>3
  <2> QED BY <2>1
<1> QED BY <1>4

(* Induction over the numbers of a set.                                    *)
LEMMA Induction ==
  ASSUME NEW S, 0 \in S, \A n \in Nat : n \in S => n + 1 \in S
  PROVE  Nat \subseteq S
<1> SUFFICES ASSUME NEW m \in Nat, m \notin S PROVE FALSE
  OBVIOUS
<1> DEFINE T == {n \in Nat : n \notin S}
<1>1. PICK x \in T : \A y \in T : x <= y
  BY LeastNat
<1>2. x # 0 /\ x - 1 \in Nat /\ x - 1 \notin T
  BY <1>1
<1> QED BY <1>2

(* Max of a set with its upper bound in it.                                *)
LEMMA MaxTop ==
  ASSUME NEW k \in Nat, NEW s \in SUBSET (1..k), k \in s
  PROVE  Max(s) = k
<1>1. k \in s /\ \A y \in s : k >= y
  OBVIOUS
<1>2. \A x \in s : (\A y \in s : x >= y) => x = k
  OBVIOUS
<1> QED BY <1>1, <1>2 DEF Max

(* Max of a set of positions is its greatest element.                      *)
LEMMA MaxInside ==
  ASSUME NEW n \in Nat, NEW s \in SUBSET (1..n), s # {}
  PROVE  Max(s) \in s /\ \A y \in s : y <= Max(s)
<1> DEFINE T == {n - x : x \in s}
<1>0. T \subseteq Nat /\ T # {}
  <2>1. PICK x \in s : TRUE
    OBVIOUS
  <2>2. n - x \in T
    OBVIOUS
  <2>3. \A y \in s : n - y \in Nat
    OBVIOUS
  <2> QED BY <2>2, <2>3
<1>1. PICK d \in T : \A e \in T : d <= e
  <2> HIDE DEF T
  <2> QED BY <1>0, LeastNat
<1>2. PICK m \in s : d = n - m
  BY <1>1
<1>3. \A y \in s : m >= y
  <2> TAKE y \in s
  <2>1. n - m <= n - y
    BY <1>1, <1>2
  <2> QED BY <2>1
<1>4. Max(s) \in s /\ \A y \in s : Max(s) >= y
  BY <1>3 DEF Max
<1> QED BY <1>4

(* The function that FoldLeft evaluates for ApplyBatch, on the sets of the *)
(* positions 1..n.                                                         *)
Folding(g, points, ms, second, n) ==
    g = [s \in SUBSET (1..n) |->
           IF s = {} THEN points
           ELSE ApplyUpdate(g[s \ {Max(s)}], ms[Max(s)], second)]

(* The function with which MapThenFoldSet folds a batch exists.            *)
LEMMA FoldingExists ==
  ASSUME NEW points, NEW ms, NEW second, NEW n \in Nat
  PROVE  \E g : Folding(g, points, ms, second, n)
<1> DEFINE S == {k \in Nat : \E g : Folding(g, points, ms, second, k)}
<1>1. 0 \in S
  <2> DEFINE g == [s \in SUBSET (1..0) |-> points]
  <2>1. \A s \in SUBSET (1..0) : s = {}
    OBVIOUS
  <2>2. g = [s \in SUBSET (1..0) |->
               IF s = {} THEN points
               ELSE ApplyUpdate(g[s \ {Max(s)}], ms[Max(s)], second)]
    BY <2>1
  <2> QED BY <2>2 DEF Folding
<1>2. ASSUME NEW k \in Nat, k \in S PROVE k + 1 \in S
  <2>1. PICK g : Folding(g, points, ms, second, k)
    BY <1>2
  <2> DEFINE h == [s \in SUBSET (1..(k + 1)) |->
                     IF k + 1 \in s
                     THEN ApplyUpdate(g[s \ {k + 1}], ms[k + 1], second) ELSE g[s]]
  <2>2. \A s \in SUBSET (1..(k + 1)) : k + 1 \notin s => s \in SUBSET (1..k)
    OBVIOUS
  <2>3. ASSUME NEW s \in SUBSET (1..(k + 1))
        PROVE  h[s] = IF s = {} THEN points
                      ELSE ApplyUpdate(h[s \ {Max(s)}], ms[Max(s)], second)
    <3>1. CASE k + 1 \in s
      <4>1. Max(s) = k + 1
        BY <3>1, MaxTop
      <4>2. s \ {k + 1} \in SUBSET (1..(k + 1)) /\ k + 1 \notin s \ {k + 1}
        OBVIOUS
      <4>3. h[s \ {k + 1}] = g[s \ {k + 1}]
        BY <4>2
      <4> QED BY <3>1, <4>1, <4>3
    <3>2. CASE k + 1 \notin s
      <4>1. s \in SUBSET (1..k) /\ h[s] = g[s]
        BY <2>2, <3>2
      <4>2. g[s] = IF s = {} THEN points
                   ELSE ApplyUpdate(g[s \ {Max(s)}], ms[Max(s)], second)
        BY <2>1, <4>1 DEF Folding
      <4>3. h[s \ {Max(s)}] = g[s \ {Max(s)}]
        BY <3>2
      <4> QED BY <4>1, <4>2, <4>3
    <3> QED BY <3>1, <3>2
  <2>4. h = [s \in SUBSET (1..(k + 1)) |->
               IF s = {} THEN points
               ELSE ApplyUpdate(h[s \ {Max(s)}], ms[Max(s)], second)]
    <3> HIDE DEF h
    <3>1. h = [s \in SUBSET (1..(k + 1)) |-> h[s]]
      BY DEF h
    <3> QED BY <2>3, <3>1
  <2> HIDE DEF h
  <2>5. Folding(h, points, ms, second, k + 1)
    BY <2>4 DEF Folding
  <2> QED BY <2>5
<1> HIDE DEF S
<1>3. Nat \subseteq S
  BY <1>1, <1>2, Induction
<1> QED BY <1>3 DEF S

(* The points after each update of a batch.                                *)
LEMMA BatchSteps ==
  ASSUME NEW points, NEW ms, IsSeq(ms), NEW second
  PROVE  \E f : /\ f[0] = points
                /\ \A k \in 1..Len(ms) : f[k] = ApplyUpdate(f[k - 1], ms[k], second)
                /\ f[Len(ms)] = ApplyBatch(points, ms, second)
<1> DEFINE n == Len(ms)
           c == CHOOSE g : Folding(g, points, ms, second, n)
           f == [k \in 0..n |-> c[1..k]]
<1>1. n \in Nat /\ DOMAIN ms = 1..n
  BY SeqParts
<1>2. Folding(c, points, ms, second, n)
  BY <1>1, FoldingExists
<1>3. ApplyBatch(points, ms, second) = c[1..n]
  BY <1>1 DEF ApplyBatch, FoldLeft, MapThenFoldSet, Folding
<1> HIDE DEF n, c
<1>4. \A s \in SUBSET (1..n) :
        c[s] = IF s = {} THEN points
               ELSE ApplyUpdate(c[s \ {Max(s)}], ms[Max(s)], second)
  BY <1>2 DEF Folding
<1>5. f[0] = points
  <2>1. 1..0 = {} /\ 1..0 \in SUBSET (1..n)
    OBVIOUS
  <2>2. c[1..0] = points
    BY <1>4, <2>1
  <2> QED BY <1>1, <2>2
<1>6. ASSUME NEW k \in 1..n PROVE f[k] = ApplyUpdate(f[k - 1], ms[k], second)
  <2>1. Max(1..k) = k
    BY <1>1, MaxTop
  <2>2. 1..k \in SUBSET (1..n) /\ 1..k # {} /\ (1..k) \ {k} = 1..(k - 1)
    BY <1>1
  <2>3. c[1..k] = ApplyUpdate(c[1..(k - 1)], ms[k], second)
    BY <1>4, <2>1, <2>2
  <2>4. k \in 0..n /\ k - 1 \in 0..n
    BY <1>1
  <2> QED BY <2>3, <2>4
<1>7. f[n] = ApplyBatch(points, ms, second)
  BY <1>1, <1>3
<1> HIDE DEF f
<1> QED BY <1>5, <1>6, <1>7 DEF n
(* The elements taken after each position, for Kept.                       *)
Keeping(g, q, I, n) ==
    g = [s \in SUBSET (1..n) |->
           IF s = {} THEN <<>>
           ELSE IF Max(s) \in I THEN Append(g[s \ {Max(s)}], q[Max(s)])
                ELSE g[s \ {Max(s)}]]

(* The same for the fold of Kept.                                          *)
LEMMA KeepingExists ==
  ASSUME NEW q, NEW I, NEW n \in Nat
  PROVE  \E g : Keeping(g, q, I, n)
<1> DEFINE S == {k \in Nat : \E g : Keeping(g, q, I, k)}
<1>1. 0 \in S
  <2> DEFINE g == [s \in SUBSET (1..0) |-> <<>>]
  <2>1. \A s \in SUBSET (1..0) : s = {}
    OBVIOUS
  <2>2. g = [s \in SUBSET (1..0) |->
               IF s = {} THEN <<>>
               ELSE IF Max(s) \in I THEN Append(g[s \ {Max(s)}], q[Max(s)])
                    ELSE g[s \ {Max(s)}]]
    BY <2>1
  <2> QED BY <2>2 DEF Keeping
<1>2. ASSUME NEW k \in Nat, k \in S PROVE k + 1 \in S
  <2>1. PICK g : Keeping(g, q, I, k)
    BY <1>2
  <2> DEFINE h == [s \in SUBSET (1..(k + 1)) |->
                     IF k + 1 \in s
                     THEN IF k + 1 \in I THEN Append(g[s \ {k + 1}], q[k + 1])
                          ELSE g[s \ {k + 1}]
                     ELSE g[s]]
  <2>2. \A s \in SUBSET (1..(k + 1)) : k + 1 \notin s => s \in SUBSET (1..k)
    OBVIOUS
  <2>3. ASSUME NEW s \in SUBSET (1..(k + 1))
        PROVE  h[s] = IF s = {} THEN <<>>
                      ELSE IF Max(s) \in I THEN Append(h[s \ {Max(s)}], q[Max(s)])
                           ELSE h[s \ {Max(s)}]
    <3>1. CASE k + 1 \in s
      <4>1. Max(s) = k + 1
        BY <3>1, MaxTop
      <4>2. s \ {k + 1} \in SUBSET (1..(k + 1)) /\ k + 1 \notin s \ {k + 1}
        OBVIOUS
      <4>3. h[s \ {k + 1}] = g[s \ {k + 1}]
        BY <4>2
      <4> QED BY <3>1, <4>1, <4>3
    <3>2. CASE k + 1 \notin s
      <4>1. s \in SUBSET (1..k) /\ h[s] = g[s]
        BY <2>2, <3>2
      <4>2. g[s] = IF s = {} THEN <<>>
                   ELSE IF Max(s) \in I THEN Append(g[s \ {Max(s)}], q[Max(s)])
                        ELSE g[s \ {Max(s)}]
        BY <2>1, <4>1 DEF Keeping
      <4>3. h[s \ {Max(s)}] = g[s \ {Max(s)}]
        BY <3>2
      <4> QED BY <4>1, <4>2, <4>3
    <3> QED BY <3>1, <3>2
  <2>4. h = [s \in SUBSET (1..(k + 1)) |->
               IF s = {} THEN <<>>
               ELSE IF Max(s) \in I THEN Append(h[s \ {Max(s)}], q[Max(s)])
                    ELSE h[s \ {Max(s)}]]
    <3> HIDE DEF h
    <3>1. h = [s \in SUBSET (1..(k + 1)) |-> h[s]]
      BY DEF h
    <3> QED BY <2>3, <3>1
  <2> HIDE DEF h
  <2>5. Keeping(h, q, I, k + 1)
    BY <2>4 DEF Keeping
  <2> QED BY <2>5
<1> HIDE DEF S
<1>3. Nat \subseteq S
  BY <1>1, <1>2, Induction
<1> QED BY <1>3 DEF S

(* The same as FoldLeftDomain has it, along the sequence of the positions. *)
KeepingAlong(g, q, I, p) ==
    g = [s \in SUBSET (DOMAIN p) |->
           IF s = {} THEN <<>>
           ELSE IF p[Max(s)] \in I THEN Append(g[s \ {Max(s)}], q[p[Max(s)]])
                ELSE g[s \ {Max(s)}]]

(* Kept, one position after the other.                                     *)
LEMMA KeptSteps ==
  ASSUME NEW q, IsSeq(q), NEW I
  PROVE  \E f : /\ f[0] = <<>>
                /\ \A k \in 1..Len(q) :
                      f[k] = IF k \in I THEN Append(f[k - 1], q[k]) ELSE f[k - 1]
                /\ f[Len(q)] = Kept(q, I)
<1> DEFINE n == Len(q)
           p == [k \in DOMAIN q |-> k]
           c == CHOOSE g : KeepingAlong(g, q, I, p)
           f == [k \in 0..n |-> c[1..k]]
<1>1. n \in Nat /\ DOMAIN q = 1..n /\ DOMAIN p = 1..n
  BY SeqParts
<1>2. \E g : KeepingAlong(g, q, I, p)
  <2>1. PICK g : Keeping(g, q, I, n)
    BY <1>1, KeepingExists
  <2>2. \A s \in SUBSET (1..n) : s # {} => p[Max(s)] = Max(s)
    BY <1>1, MaxInside
  <2>3. \A s \in SUBSET (1..n) :
          g[s] = IF s = {} THEN <<>>
                 ELSE IF p[Max(s)] \in I THEN Append(g[s \ {Max(s)}], q[p[Max(s)]])
                      ELSE g[s \ {Max(s)}]
    BY <2>1, <2>2 DEF Keeping
  <2>4. g = [s \in SUBSET (1..n) |-> g[s]]
    BY <2>1 DEF Keeping
  <2> HIDE DEF p
  <2>5. g = [s \in SUBSET (DOMAIN p) |->
               IF s = {} THEN <<>>
               ELSE IF p[Max(s)] \in I THEN Append(g[s \ {Max(s)}], q[p[Max(s)]])
                    ELSE g[s \ {Max(s)}]]
    BY <1>1, <2>3, <2>4
  <2> QED BY <2>5 DEF KeepingAlong
<1>3. KeepingAlong(c, q, I, p)
  BY <1>2
<1>4. Kept(q, I) = c[DOMAIN p]
  BY DEF Kept, FoldLeftDomain, FoldLeft, MapThenFoldSet, KeepingAlong
<1> HIDE DEF n, c
<1>5. \A s \in SUBSET (1..n) :
        c[s] = IF s = {} THEN <<>>
               ELSE IF Max(s) \in I THEN Append(c[s \ {Max(s)}], q[Max(s)])
                    ELSE c[s \ {Max(s)}]
  <2>1. \A s \in SUBSET (1..n) : s # {} => p[Max(s)] = Max(s)
    BY <1>1, MaxInside
  <2> HIDE DEF p
  <2> QED BY <1>1, <1>3, <2>1 DEF KeepingAlong
<1> HIDE DEF p
<1>6. f[0] = <<>>
  <2>1. 1..0 = {} /\ 1..0 \in SUBSET (1..n)
    OBVIOUS
  <2>2. c[1..0] = <<>>
    BY <1>5, <2>1
  <2> QED BY <1>1, <2>2
<1>7. ASSUME NEW k \in 1..n
      PROVE  f[k] = IF k \in I THEN Append(f[k - 1], q[k]) ELSE f[k - 1]
  <2>1. Max(1..k) = k
    BY <1>1, MaxTop
  <2>2. 1..k \in SUBSET (1..n) /\ 1..k # {} /\ (1..k) \ {k} = 1..(k - 1)
    BY <1>1
  <2>3. c[1..k] = IF k \in I THEN Append(c[1..(k - 1)], q[k]) ELSE c[1..(k - 1)]
    BY <1>5, <2>1, <2>2
  <2>4. k \in 0..n /\ k - 1 \in 0..n
    BY <1>1
  <2> QED BY <2>3, <2>4
<1>8. f[n] = Kept(q, I)
  BY <1>1, <1>4
<1> HIDE DEF f
<1> QED BY <1>6, <1>7, <1>8 DEF n
-----------------------------------------------------------------------------
(* Dividing by a width that is not known, for the packed points.           *)
LEMMA Divides ==
  ASSUME NEW w \in Nat, w > 0, NEW n \in Nat
  PROVE  /\ n \div w \in Nat /\ n % w \in Nat /\ n % w < w
         /\ n = w * (n \div w) + (n % w)
  OBVIOUS

(* Quotient and remainder are unique.                                      *)
LEMMA DividesOnce ==
  ASSUME NEW w \in Nat, w > 0, NEW k \in Nat, NEW j \in Nat, j < w
  PROVE  (w * k + j) \div w = k /\ (w * k + j) % w = j
  OBVIOUS

(* An earlier object has the smaller positions.                            *)
LEMMA Packs ==
  ASSUME NEW w \in Nat, NEW k \in Nat, NEW j \in Nat, NEW i \in Nat, NEW l \in Nat,
         l < w, i < k
  PROVE  w * i + l < w * k + j
  OBVIOUS

(* Positions are numbers.                                                  *)
LEMMA PackedNat ==
  ASSUME NEW w \in Nat, NEW k \in Nat, NEW j \in Nat
  PROVE  w * k + j \in Nat
<1>1. w * k \in Nat
  OBVIOUS
<1> QED BY <1>1

(* The positions of an object are within those of all.                     *)
LEMMA PacksIn ==
  ASSUME NEW w \in Nat, NEW k \in Nat, NEW j \in Nat, j < w, NEW n \in Nat, k < n
  PROVE  w * k + j < n * w /\ w * k + j \in Nat
  OBVIOUS
-----------------------------------------------------------------------------
(* What parseASDU makes of an ASDU.                                        *)
Kinds == {"digital", "telemetry", "step", "bitstring", "counter", "protection"}
Packed(a) == a.type \in PackedPoints

(* The families that give one point per object.                            *)
LEMMA DecodeFamilies ==
  ASSUME NEW a, NEW now, ~Packed(a), Decode(a, now) # <<>>
  PROVE  \/ a.type \in PackedEvents /\ Decode(a, now) = DecodePackedEvents(a, now)
         \/ \E kind \in Kinds :
              /\ kind = "protection" <=> a.type \in Protection
              /\ kind = "telemetry" <=> a.type \in Measured
              /\ \/ a.type \in Qualified /\ Decode(a, now) = WithQuality(a, kind, now)
                 \/ a.type \notin Qualified /\ Decode(a, now) = QualityGood(a, kind, now)
<1>1. CASE a.type \in SinglePoint
  <2>1. /\ a.type \in Qualified /\ a.type \notin Protection
        /\ a.type \notin Measured
    BY <1>1 DEF Qualified, Protection, Measured,
         SinglePoint, DoublePoint, StepPosition, Bitstring, Normalized, NoQuality, Scaled,
         ShortFloat, Counter, SingleEvent, PackedEvents, PackedPoints
  <2>2. Decode(a, now) = WithQuality(a, "digital", now)
    BY <1>1 DEF Decode, DecodeSinglePoint,
         SinglePoint, DoublePoint, StepPosition, Bitstring, Normalized, NoQuality, Scaled,
         ShortFloat, Counter, SingleEvent, PackedEvents, PackedPoints
  <2> QED BY <2>1, <2>2 DEF Kinds
<1>2. CASE a.type \in DoublePoint
  <2>1. /\ a.type \notin Qualified /\ a.type \notin Protection
        /\ a.type \notin Measured
    BY <1>2 DEF Qualified, Protection, Measured,
         SinglePoint, DoublePoint, StepPosition, Bitstring, Normalized, NoQuality, Scaled,
         ShortFloat, Counter, SingleEvent, PackedEvents, PackedPoints
  <2>2. Decode(a, now) = QualityGood(a, "digital", now)
    BY <1>2 DEF Decode, DecodeDoublePoint,
         SinglePoint, DoublePoint, StepPosition, Bitstring, Normalized, NoQuality, Scaled,
         ShortFloat, Counter, SingleEvent, PackedEvents, PackedPoints
  <2> QED BY <2>1, <2>2 DEF Kinds
<1>3. CASE a.type \in StepPosition
  <2>1. /\ a.type \notin Qualified /\ a.type \notin Protection
        /\ a.type \notin Measured
    BY <1>3 DEF Qualified, Protection, Measured,
         SinglePoint, DoublePoint, StepPosition, Bitstring, Normalized, NoQuality, Scaled,
         ShortFloat, Counter, SingleEvent, PackedEvents, PackedPoints
  <2>2. Decode(a, now) = QualityGood(a, "step", now)
    BY <1>3 DEF Decode, DecodeStepPosition,
         SinglePoint, DoublePoint, StepPosition, Bitstring, Normalized, NoQuality, Scaled,
         ShortFloat, Counter, SingleEvent, PackedEvents, PackedPoints
  <2> QED BY <2>1, <2>2 DEF Kinds
<1>4. CASE a.type \in Bitstring
  <2>1. /\ a.type \notin Qualified /\ a.type \notin Protection
        /\ a.type \notin Measured
    BY <1>4 DEF Qualified, Protection, Measured,
         SinglePoint, DoublePoint, StepPosition, Bitstring, Normalized, NoQuality, Scaled,
         ShortFloat, Counter, SingleEvent, PackedEvents, PackedPoints
  <2>2. Decode(a, now) = QualityGood(a, "bitstring", now)
    BY <1>4 DEF Decode, DecodeBitstring,
         SinglePoint, DoublePoint, StepPosition, Bitstring, Normalized, NoQuality, Scaled,
         ShortFloat, Counter, SingleEvent, PackedEvents, PackedPoints
  <2> QED BY <2>1, <2>2 DEF Kinds
<1>5. CASE a.type \in Normalized
  <2>1. /\ a.type \in Qualified /\ a.type \notin Protection
        /\ a.type \in Measured
    BY <1>5 DEF Qualified, Protection, Measured,
         SinglePoint, DoublePoint, StepPosition, Bitstring, Normalized, NoQuality, Scaled,
         ShortFloat, Counter, SingleEvent, PackedEvents, PackedPoints
  <2>2. Decode(a, now) = WithQuality(a, "telemetry", now)
    BY <1>5 DEF Decode, DecodeNormalized,
         SinglePoint, DoublePoint, StepPosition, Bitstring, Normalized, NoQuality, Scaled,
         ShortFloat, Counter, SingleEvent, PackedEvents, PackedPoints
  <2> QED BY <2>1, <2>2 DEF Kinds
<1>6. CASE a.type \in NoQuality
  <2>1. /\ a.type \notin Qualified /\ a.type \notin Protection
        /\ a.type \in Measured
    BY <1>6 DEF Qualified, Protection, Measured,
         SinglePoint, DoublePoint, StepPosition, Bitstring, Normalized, NoQuality, Scaled,
         ShortFloat, Counter, SingleEvent, PackedEvents, PackedPoints
  <2>2. Decode(a, now) = QualityGood(a, "telemetry", now)
    BY <1>6 DEF Decode, DecodeNoQuality,
         SinglePoint, DoublePoint, StepPosition, Bitstring, Normalized, NoQuality, Scaled,
         ShortFloat, Counter, SingleEvent, PackedEvents, PackedPoints
  <2> QED BY <2>1, <2>2 DEF Kinds
<1>7. CASE a.type \in Scaled
  <2>1. /\ a.type \in Qualified /\ a.type \notin Protection
        /\ a.type \in Measured
    BY <1>7 DEF Qualified, Protection, Measured,
         SinglePoint, DoublePoint, StepPosition, Bitstring, Normalized, NoQuality, Scaled,
         ShortFloat, Counter, SingleEvent, PackedEvents, PackedPoints
  <2>2. Decode(a, now) = WithQuality(a, "telemetry", now)
    BY <1>7 DEF Decode, DecodeScaled,
         SinglePoint, DoublePoint, StepPosition, Bitstring, Normalized, NoQuality, Scaled,
         ShortFloat, Counter, SingleEvent, PackedEvents, PackedPoints
  <2> QED BY <2>1, <2>2 DEF Kinds
<1>8. CASE a.type \in ShortFloat
  <2>1. /\ a.type \in Qualified /\ a.type \notin Protection
        /\ a.type \in Measured
    BY <1>8 DEF Qualified, Protection, Measured,
         SinglePoint, DoublePoint, StepPosition, Bitstring, Normalized, NoQuality, Scaled,
         ShortFloat, Counter, SingleEvent, PackedEvents, PackedPoints
  <2>2. Decode(a, now) = WithQuality(a, "telemetry", now)
    BY <1>8 DEF Decode, DecodeShortFloat,
         SinglePoint, DoublePoint, StepPosition, Bitstring, Normalized, NoQuality, Scaled,
         ShortFloat, Counter, SingleEvent, PackedEvents, PackedPoints
  <2> QED BY <2>1, <2>2 DEF Kinds
<1>9. CASE a.type \in Counter
  <2>1. /\ a.type \notin Qualified /\ a.type \notin Protection
        /\ a.type \notin Measured
    BY <1>9 DEF Qualified, Protection, Measured,
         SinglePoint, DoublePoint, StepPosition, Bitstring, Normalized, NoQuality, Scaled,
         ShortFloat, Counter, SingleEvent, PackedEvents, PackedPoints
  <2>2. Decode(a, now) = QualityGood(a, "counter", now)
    BY <1>9 DEF Decode, DecodeCounter,
         SinglePoint, DoublePoint, StepPosition, Bitstring, Normalized, NoQuality, Scaled,
         ShortFloat, Counter, SingleEvent, PackedEvents, PackedPoints
  <2> QED BY <2>1, <2>2 DEF Kinds
<1>10. CASE a.type \in SingleEvent
  <2>1. /\ a.type \notin Qualified /\ a.type \in Protection
        /\ a.type \notin Measured
    BY <1>10 DEF Qualified, Protection, Measured,
         SinglePoint, DoublePoint, StepPosition, Bitstring, Normalized, NoQuality, Scaled,
         ShortFloat, Counter, SingleEvent, PackedEvents, PackedPoints
  <2>2. Decode(a, now) = QualityGood(a, "protection", now)
    BY <1>10 DEF Decode, DecodeSingleEvent,
         SinglePoint, DoublePoint, StepPosition, Bitstring, Normalized, NoQuality, Scaled,
         ShortFloat, Counter, SingleEvent, PackedEvents, PackedPoints
  <2> QED BY <2>1, <2>2 DEF Kinds
<1>11. CASE a.type \in PackedEvents
  BY <1>11 DEF Decode,
         SinglePoint, DoublePoint, StepPosition, Bitstring, Normalized, NoQuality, Scaled,
         ShortFloat, Counter, SingleEvent, PackedEvents, PackedPoints
<1> QED BY <1>1, <1>2, <1>3, <1>4, <1>5, <1>6, <1>7, <1>8, <1>9, <1>10, <1>11
        DEF Decode, Packed

(* The point at position k of such an ASDU.                                *)
LEMMA PlainPoint ==
  ASSUME NEW a \in Asdus, NEW now, ~Packed(a), Decode(a, now) # <<>>
  PROVE  /\ DOMAIN Decode(a, now) = DOMAIN a.objects
         /\ \A k \in DOMAIN a.objects : LET p == Decode(a, now)[k] IN
              /\ p.kind \in Kinds /\ p.type = a.type /\ p.ioa = a.objects[k].ioa
              /\ p.kind = "protection" <=> a.type \in Protection
              /\ p.kind = "telemetry" <=> a.type \in Measured
              /\ a.type \notin Protection =>
                    /\ p.value = a.objects[k].value
                    /\ p.quality = IF a.type \in Qualified THEN a.objects[k].quality ELSE 0
<1>1. CASE a.type \in PackedEvents /\ Decode(a, now) = DecodePackedEvents(a, now)
  BY <1>1 DEF DecodePackedEvents, Point, Kinds, Protection, Measured, Normalized, NoQuality,
              Scaled, ShortFloat, SingleEvent, PackedEvents
<1>2. ASSUME NEW kind \in Kinds, kind = "protection" <=> a.type \in Protection,
             kind = "telemetry" <=> a.type \in Measured,
             a.type \in Qualified, Decode(a, now) = WithQuality(a, kind, now)
      PROVE  /\ DOMAIN Decode(a, now) = DOMAIN a.objects
             /\ \A k \in DOMAIN a.objects : LET p == Decode(a, now)[k] IN
                  /\ p.kind = kind /\ p.type = a.type /\ p.ioa = a.objects[k].ioa
                  /\ p.value = a.objects[k].value /\ p.quality = a.objects[k].quality
  BY <1>2 DEF WithQuality, Point
<1>3. ASSUME NEW kind \in Kinds, kind = "protection" <=> a.type \in Protection,
             kind = "telemetry" <=> a.type \in Measured,
             a.type \notin Qualified, Decode(a, now) = QualityGood(a, kind, now)
      PROVE  /\ DOMAIN Decode(a, now) = DOMAIN a.objects
             /\ \A k \in DOMAIN a.objects : LET p == Decode(a, now)[k] IN
                  /\ p.kind = kind /\ p.type = a.type /\ p.ioa = a.objects[k].ioa
                  /\ p.value = a.objects[k].value /\ p.quality = 0
  BY <1>3 DEF QualityGood, Point
<1> QED BY <1>1, <1>2, <1>3, DecodeFamilies

(* A function on the first numbers is a sequence.                          *)
LEMMA FunctionSeq ==
  ASSUME NEW n \in Nat, NEW q, q = [k \in 1..n |-> q[k]]
  PROVE  IsSeq(q)
<1>1. q \in [1..n -> Range(q)]
  BY DEF Range
<1> QED BY <1>1 DEF IsSeq

(* The addresses an object is about.                                       *)
LEMMA CoversOf ==
  ASSUME NEW a \in Asdus, NEW k \in DOMAIN a.objects
  PROVE  /\ a.objects[k].ioa \in Nat
         /\ ~Packed(a) => Covers(a, k) = {a.objects[k].ioa}
         /\ Packed(a) => Covers(a, k) = {a.objects[k].ioa + j : j \in 0..(PackWidth - 1)}
<1>1. a.objects[k].ioa \in Nat /\ PackWidth \in Nat
  BY ObjectsAssumption, PipelineAssumption
<1> DEFINE x == a.objects[k].ioa
           w == PackWidth
<1>2. ~Packed(a) => Covers(a, k) = x..(x + 0)
  BY DEF Covers, Packed
<1>3. Packed(a) => Covers(a, k) = x..(x + (w - 1))
  BY DEF Covers, Packed
<1> HIDE DEF x, w
<1>4. x \in Nat /\ w \in Nat
  BY <1>1 DEF x, w
<1>5. x..(x + 0) = {x}
  BY <1>4
<1>6. x..(x + (w - 1)) = {x + j : j \in 0..(w - 1)}
  <2>1. ASSUME NEW y \in x..(x + (w - 1)) PROVE y \in {x + j : j \in 0..(w - 1)}
    <3>1. y - x \in 0..(w - 1) /\ y = x + (y - x)
      BY <1>4
    <3> QED BY <3>1
  <2>2. ASSUME NEW j \in 0..(w - 1) PROVE x + j \in x..(x + (w - 1))
    BY <1>4
  <2> QED BY <2>1, <2>2
<1> QED BY <1>2, <1>3, <1>4, <1>5, <1>6 DEF x, w

(* The point at position n of an ASDU of packed points: bit j of an object.*)
PackedAt(a, now, n) ==
    \E i \in Nat, j \in 0..(PackWidth - 1) : LET p == Decode(a, now)[n] IN
        /\ i + 1 \in DOMAIN a.objects /\ n = PackWidth * i + j + 1
        /\ p.kind = "digital" /\ p.type = a.type
        /\ p.ioa = a.objects[i + 1].ioa + j
        /\ p.value = IF j \in a.objects[i + 1].value THEN 1 ELSE 0
        /\ p.quality = a.objects[i + 1].quality
(* Decode of packed points: what stands at each position.                  *)
LEMMA PackedPoint ==
  ASSUME NEW a \in Asdus, NEW now, Packed(a), Decode(a, now) # <<>>
  PROVE  /\ PackWidth \in Nat /\ PackWidth > 0 /\ Len(a.objects) \in Nat
         /\ DOMAIN a.objects = 1..Len(a.objects)
         /\ Decode(a, now) = [n \in 1..(Len(a.objects) * PackWidth) |-> Decode(a, now)[n]]
         /\ \A n \in DOMAIN Decode(a, now) : PackedAt(a, now, n)
<1> DEFINE w == PackWidth
           len == Len(a.objects)
<1>1. w \in Nat /\ len \in Nat /\ DOMAIN a.objects = 1..len
  <2>1. IsSeq(a.objects)
    BY ObjectsAssumption DEF IsSeq, Range
  <2> QED BY <2>1, SeqParts, PipelineAssumption
<1>2. Decode(a, now) = Unpack(a, now, 0)
  BY DEF Packed, Decode, DecodePackedPoints,
         SinglePoint, DoublePoint, StepPosition, Bitstring, Normalized, NoQuality, Scaled,
         ShortFloat, Counter, SingleEvent, PackedEvents, PackedPoints
<1>3. Decode(a, now) = [n \in 1..(len * w) |-> Decode(a, now)[n]]
  BY <1>2 DEF Unpack
<1>4. w > 0
  <2>1. SUFFICES ASSUME w = 0 PROVE FALSE
    BY <1>1
  <2>2. 1..(len * w) = {}
    BY <1>1, <2>1
  <2>3. Unpack(a, now, 0) = <<>>
    BY <2>2 DEF Unpack
  <2> QED BY <1>2, <2>3
<1>5. ASSUME NEW n \in 1..(len * w)
      PROVE  PackedAt(a, now, n)
  <2> DEFINE i == (n - 1) \div w
             j == (n - 1) % w
  <2>1. i \in Nat /\ j \in Nat /\ j < w /\ n - 1 = w * i + j
    BY <1>1, <1>4, Divides
  <2>2. n - 1 < len * w /\ n \in Nat
    BY <1>1
  <2>3. Decode(a, now)[n] =
          [Point(a, i + 1, "digital", IF j \in a.objects[i + 1].value THEN 1 ELSE 0,
                 a.objects[i + 1].quality, now) EXCEPT !.ioa = @ + 0 + j]
    BY <1>2 DEF Unpack
  <2> HIDE DEF i, j
  <2>4. i < len
    BY <1>1, <1>4, <2>1, <2>2
  <2>5. i + 1 \in DOMAIN a.objects
    BY <1>1, <2>1, <2>4
  <2>6. a.objects[i + 1].ioa \in Nat
    BY <2>5, ObjectsAssumption
  <2>7. LET p == Decode(a, now)[n] IN
          /\ p.kind = "digital" /\ p.type = a.type /\ p.ioa = a.objects[i + 1].ioa + j
          /\ p.value = IF j \in a.objects[i + 1].value THEN 1 ELSE 0
          /\ p.quality = a.objects[i + 1].quality
    BY <2>1, <2>3, <2>6 DEF Point
  <2>8. n = w * i + j + 1 /\ j \in 0..(w - 1)
    BY <1>1, <2>1, <2>2
  <2> QED BY <2>1, <2>5, <2>7, <2>8 DEF PackedAt
<1>6. DOMAIN Decode(a, now) = 1..(len * w)
  BY <1>3
<1> QED BY <1>1, <1>3, <1>4, <1>5, <1>6

(* Telemetry is what the types of measured values give, and its value is   *)
(* one they may have.                                                      *)
Doubled(p) ==
    /\ p.kind = "telemetry" <=> p.type \in Measured
    /\ p.type \in Measured => p.value \in NonFinite \/ Countable(p.value)

(* Every point is one that an object is about.                             *)
LEMMA DecodedPoints ==
  ASSUME NEW a \in Asdus, NEW now, Decode(a, now) # <<>>
  PROVE  /\ IsSeq(Decode(a, now)) /\ IsSeq(a.objects)
         /\ \A n \in DOMAIN Decode(a, now) : LET p == Decode(a, now)[n] IN
              /\ p.kind \in Kinds /\ p.type = a.type
              /\ p.kind = "protection" <=> a.type \in Protection
              /\ Doubled(p)
              /\ \E k \in DOMAIN a.objects : p.ioa \in Covers(a, k)
<1>1. IsSeq(a.objects)
  BY ObjectsAssumption DEF IsSeq, Range
<1>2. CASE Packed(a)
  <2>1. Len(a.objects) * PackWidth \in Nat
    BY <1>2, PackedPoint
  <2>2. IsSeq(Decode(a, now))
    BY <1>2, <2>1, PackedPoint, FunctionSeq
  <2>3. a.type \notin Protection /\ a.type \notin Measured
    BY <1>2 DEF Packed, Protection, PackedPoints, SingleEvent, PackedEvents, Measured,
                Normalized, NoQuality, Scaled, ShortFloat
  <2>4. ASSUME NEW n \in DOMAIN Decode(a, now)
        PROVE  LET p == Decode(a, now)[n] IN
               /\ p.kind = "digital" /\ p.type = a.type
               /\ \E k \in DOMAIN a.objects : p.ioa \in Covers(a, k)
    <3>1. PICK i \in Nat, j \in 0..(PackWidth - 1) :
            LET p == Decode(a, now)[n] IN
            /\ i + 1 \in DOMAIN a.objects
            /\ p.kind = "digital" /\ p.type = a.type /\ p.ioa = a.objects[i + 1].ioa + j
      <4>1. PackedAt(a, now, n)
        BY <1>2, PackedPoint
      <4> QED BY <4>1 DEF PackedAt
    <3>2. Covers(a, i + 1) = {a.objects[i + 1].ioa + l : l \in 0..(PackWidth - 1)}
      BY <1>2, <3>1, CoversOf
    <3> QED BY <3>1, <3>2
  <2> QED BY <1>1, <2>2, <2>3, <2>4 DEF Kinds, Doubled
<1>3. CASE ~Packed(a)
  <2>1. DOMAIN Decode(a, now) = DOMAIN a.objects
    BY <1>3, PlainPoint
  <2>2. \E kind : \/ Decode(a, now) = WithQuality(a, kind, now)
                  \/ Decode(a, now) = QualityGood(a, kind, now)
                  \/ Decode(a, now) = DecodePackedEvents(a, now)
    BY <1>3, DecodeFamilies
  <2>3. Decode(a, now) = [k \in DOMAIN a.objects |-> Decode(a, now)[k]]
    BY <2>2 DEF WithQuality, QualityGood, DecodePackedEvents
  <2>4. DOMAIN a.objects = 1..Len(a.objects) /\ Len(a.objects) \in Nat
    BY <1>1, SeqParts
  <2>5. IsSeq(Decode(a, now))
    BY <2>3, <2>4, FunctionSeq
  <2>6. \A k \in DOMAIN a.objects : a.objects[k].ioa \in Covers(a, k)
    BY <1>3, CoversOf
  <2>7. ASSUME NEW k \in DOMAIN Decode(a, now) PROVE Doubled(Decode(a, now)[k])
    <3> DEFINE p == Decode(a, now)[k]
    <3>1. /\ k \in DOMAIN a.objects /\ p.type = a.type
          /\ p.kind = "telemetry" <=> a.type \in Measured
          /\ a.type \notin Protection => p.value = a.objects[k].value
      BY <1>3, <2>1, PlainPoint
    <3>2. a.type \in Measured => a.type \notin Protection
      BY DEF Measured, Normalized, NoQuality, Scaled, ShortFloat, Protection, SingleEvent,
             PackedEvents
    <3>3. a.type \in Measured =>
            a.objects[k].value \in NonFinite \/ Countable(a.objects[k].value)
      BY <3>1, MeasuredAssumption
    <3> HIDE DEF p
    <3>4. Doubled(p)
      BY <3>1, <3>2, <3>3 DEF Doubled
    <3> QED BY <3>4 DEF p
  <2> QED BY <1>1, <1>3, <2>1, <2>5, <2>6, <2>7, PlainPoint
<1> QED BY <1>2, <1>3

(* The last point of an address has what the last object about it says.    *)
Said(p, r) == p.type = r.type /\ p.value = r.value /\ p.quality = r.quality
(* The last point decoded for an address says what Report reads off the ASDU. *)
LEMMA LastDecoded ==
  ASSUME NEW a \in Asdus, NEW now, Decode(a, now) # <<>>, a.type \notin Protection,
         NEW ioa, About(a, ioa) # {}, NEW n
  PROVE  \E k \in DOMAIN Decode(a, now) :
            /\ Decode(a, now)[k].ioa = ioa
            /\ \A j \in DOMAIN Decode(a, now) : Decode(a, now)[j].ioa = ioa => j <= k
            /\ Said(Decode(a, now)[k], Report(a, ioa, n))
<1> DEFINE points == Decode(a, now)
           len == Len(a.objects)
           last == CHOOSE k \in About(a, ioa) : \A j \in About(a, ioa) : j <= k
           o == a.objects[last]
<1>1. len \in Nat /\ DOMAIN a.objects = 1..len
  BY DecodedPoints, SeqParts
<1>2. last \in About(a, ioa) /\ \A j \in About(a, ioa) : j <= last
  <2> DEFINE A == About(a, ioa)
  <2>1. A \in SUBSET (1..len) /\ A # {}
    BY <1>1 DEF About
  <2> HIDE DEF A
  <2>2. Max(A) \in A /\ \A j \in A : j <= Max(A)
    BY <1>1, <2>1, MaxInside
  <2>3. \E k \in A : \A j \in A : j <= k
    BY <2>2
  <2> QED BY <2>3 DEF A
<1>3. LET r == Report(a, ioa, n) IN
      /\ r.type = a.type
      /\ r.value = IF a.type \in PackedPoints
                   THEN IF ioa - o.ioa \in o.value THEN 1 ELSE 0 ELSE o.value
      /\ r.quality = IF a.type \in Qualified THEN o.quality ELSE 0
  BY DEF Report
<1> HIDE DEF last
<1>4. last \in DOMAIN a.objects /\ last \in 1..len /\ ioa \in Covers(a, last)
  BY <1>1, <1>2 DEF About
<1>5. CASE ~Packed(a)
  <2>1. \A k \in DOMAIN a.objects : k \in About(a, ioa) <=> a.objects[k].ioa = ioa
    BY <1>5, CoversOf DEF About
  <2>2. DOMAIN points = DOMAIN a.objects
    BY <1>5, PlainPoint
  <2>3. \A k \in DOMAIN points : points[k].ioa = a.objects[k].ioa
    BY <1>5, PlainPoint
  <2>4. /\ points[last].type = a.type /\ points[last].value = o.value
        /\ points[last].quality = IF a.type \in Qualified THEN o.quality ELSE 0
    BY <1>4, <1>5, PlainPoint
  <2> HIDE DEF points
  <2>5. Said(points[last], Report(a, ioa, n))
    BY <1>3, <1>5, <2>4 DEF Said, Packed
  <2>6. points[last].ioa = ioa /\ \A j \in DOMAIN points : points[j].ioa = ioa => j <= last
    BY <1>2, <1>4, <2>1, <2>2, <2>3
  <2> QED BY <1>4, <2>2, <2>5, <2>6 DEF points
<1>6. CASE Packed(a)
  <2> DEFINE w == PackWidth
             b == ioa - o.ioa
             before == last - 1
             k == w * before + b + 1
  <2>1. w \in Nat /\ w > 0
    BY <1>6, PackedPoint
  <2>2. DOMAIN points = 1..(len * w)
    BY <1>6, PackedPoint
  <2>3. b \in Nat /\ b < w /\ ioa = o.ioa + b /\ o.ioa \in Nat /\ ioa \in Nat
    <3>1. PICK j \in 0..(w - 1) : ioa = o.ioa + j
      BY <1>4, <1>6, CoversOf
    <3>2. o.ioa \in Nat
      BY <1>4, CoversOf
    <3>3. b = j
      BY <3>1, <3>2
    <3> HIDE DEF b
    <3> QED BY <2>1, <3>1, <3>2, <3>3
  <2>0. before \in Nat /\ before < len /\ last = before + 1
    BY <1>1, <1>4
  <2> HIDE DEF before
  <2>4. k \in DOMAIN points
    <3> HIDE DEF b, w
    <3>1. w * before + b < len * w /\ w * before + b \in Nat
      BY <1>1, <2>0, <2>1, <2>3, PacksIn
    <3>2. len * w \in Nat
      BY <1>1, <2>1
    <3> HIDE DEF len
    <3>3. w * before + b + 1 \in 1..(len * w)
      BY <3>1, <3>2
    <3> QED BY <2>2, <3>3 DEF w
  <2>5. ASSUME NEW m \in DOMAIN points
        PROVE  \E i \in Nat, j \in 0..(w - 1) :
                 /\ i + 1 \in DOMAIN a.objects /\ m = w * i + j + 1
                 /\ points[m].type = a.type /\ points[m].ioa = a.objects[i + 1].ioa + j
                 /\ points[m].value = IF j \in a.objects[i + 1].value THEN 1 ELSE 0
                 /\ points[m].quality = a.objects[i + 1].quality
    <3>1. PackedAt(a, now, m)
      BY <1>6, PackedPoint
    <3> QED BY <3>1 DEF PackedAt
  <2>6. ASSUME NEW i \in Nat, i + 1 \in DOMAIN a.objects, NEW j \in 0..(w - 1),
               ioa = a.objects[i + 1].ioa + j
        PROVE  i + 1 \in About(a, ioa)
    BY <1>6, <2>6, CoversOf DEF About
  <2> HIDE DEF w, points, b
  <2>7. ASSUME NEW m \in DOMAIN points, points[m].ioa = ioa PROVE m <= k
    <3>1. PICK i \in Nat, j \in 0..(w - 1) :
            /\ i + 1 \in DOMAIN a.objects /\ m = w * i + j + 1
            /\ points[m].ioa = a.objects[i + 1].ioa + j
      BY <2>5
    <3>2. i + 1 <= last
      BY <1>2, <2>6, <2>7, <3>1
    <3>0. j \in Nat /\ j < w
      BY <2>1
    <3>3. i < before => w * i + j < w * before + b
      BY <2>0, <2>1, <2>3, <3>0, Packs
    <3>4. i = before => j = b
      BY <2>0, <2>3, <2>7, <3>1 DEF b
    <3>5. w * i + j <= w * before + b
      <4>1. w * i + j \in Nat /\ w * before + b \in Nat
        BY <2>0, <2>1, <2>3, <3>0, PackedNat
      <4> QED BY <2>0, <3>2, <3>3, <3>4, <4>1
    <3> QED BY <2>0, <2>1, <2>3, <3>1, <3>5
  <2>8. PICK i \in Nat, j \in 0..(w - 1) :
          /\ i + 1 \in DOMAIN a.objects /\ k = w * i + j + 1
          /\ points[k].type = a.type /\ points[k].ioa = a.objects[i + 1].ioa + j
          /\ points[k].value = IF j \in a.objects[i + 1].value THEN 1 ELSE 0
          /\ points[k].quality = a.objects[i + 1].quality
    BY <2>4, <2>5
  <2>9. i = before /\ j = b
    <3>1. w * i + j = w * before + b
      <4>0. j \in Nat
        BY <2>1
      <4>1. w * i + j \in Nat /\ w * before + b \in Nat
        BY <2>0, <2>1, <2>3, <4>0, PackedNat
      <4>2. w * i + j + 1 = w * before + b + 1
        BY <2>8
      <4> QED BY <4>1, <4>2
    <3>2. (w * i + j) \div w = i /\ (w * i + j) % w = j
      BY <2>1, DividesOnce
    <3>3. (w * before + b) \div w = before /\ (w * before + b) % w = b
      BY <2>0, <2>1, <2>3, DividesOnce
    <3> QED BY <3>1, <3>2, <3>3
  <2>10. i + 1 = last
    BY <2>0, <2>9
  <2>11. a.type \in Qualified /\ a.type \in PackedPoints
    BY <1>6 DEF Packed, Qualified
  <2>12. points[k].ioa = ioa /\ Said(points[k], Report(a, ioa, n))
    BY <1>3, <2>3, <2>8, <2>9, <2>10, <2>11 DEF Said, b
  <2> HIDE DEF k
  <2> QED BY <2>4, <2>7, <2>12 DEF points
<1> QED BY <1>5, <1>6
-----------------------------------------------------------------------------
(* Kept(q, I) has the elements at the positions in I, one for each.        *)
Picks(e, r, q, I) ==
    /\ e \in Bijection(1..Len(r), I)
    /\ \A i \in 1..Len(r) : r[i] = q[e[i]]

(* Kept gives a sequence of the elements at the positions, in their order. *)
LEMMA KeptParts ==
  ASSUME NEW q, IsSeq(q), NEW I, I \subseteq DOMAIN q
  PROVE  IsSeq(Kept(q, I)) /\ \E e : Picks(e, Kept(q, I), q, I)
<1> DEFINE n == Len(q)
<1>1. n \in Nat /\ DOMAIN q = 1..n
  BY SeqParts
<1>2. PICK f : /\ f[0] = <<>>
               /\ \A k \in 1..n :
                     f[k] = IF k \in I THEN Append(f[k - 1], q[k]) ELSE f[k - 1]
               /\ f[n] = Kept(q, I)
  BY KeptSteps
<1> HIDE DEF n
<1> DEFINE P(k) == IsSeq(f[k]) /\ \E e : Picks(e, f[k], q, I \cap (1..k))
           S == {k \in Nat : k <= n => P(k)}
<1>3. 0 \in S
  <2>1. IsSeq(<<>>) /\ Len(<<>>) = 0
    BY DEF IsSeq
  <2>2. I \cap (1..0) = {} /\ 1..0 = {}
    OBVIOUS
  <2>3. Picks(<<>>, <<>>, q, {})
    BY <2>1, <2>2 DEF Picks, Bijection, Injection, Surjection, IsInjective
  <2> QED BY <1>2, <2>1, <2>2, <2>3
<1> HIDE DEF P
<1>4. ASSUME NEW k \in Nat, k \in S PROVE k + 1 \in S
  <2> SUFFICES ASSUME k + 1 <= n PROVE P(k + 1)
    OBVIOUS
  <2>0. P(k)
    BY <1>1, <1>4
  <2>1. IsSeq(f[k])
    BY <2>0 DEF P
  <2>2. PICK e : Picks(e, f[k], q, I \cap (1..k))
    BY <2>0 DEF P
  <2>3. f[k + 1] = IF k + 1 \in I THEN Append(f[k], q[k + 1]) ELSE f[k]
    BY <1>1, <1>2
  <2>4. CASE k + 1 \notin I
    <3>1. I \cap (1..(k + 1)) = I \cap (1..k)
      BY <2>4
    <3>2. f[k + 1] = f[k]
      BY <2>3, <2>4
    <3> QED BY <2>1, <2>2, <3>1, <3>2 DEF P
  <2>5. CASE k + 1 \in I
    <3> DEFINE r == f[k]
               len == Len(r)
               J == I \cap (1..k)
               h == [i \in 1..(len + 1) |-> IF i = len + 1 THEN k + 1 ELSE e[i]]
    <3>1. /\ IsSeq(Append(r, q[k + 1])) /\ Len(Append(r, q[k + 1])) = len + 1 /\ len \in Nat
          /\ Append(r, q[k + 1])[len + 1] = q[k + 1]
          /\ \A i \in 1..len : Append(r, q[k + 1])[i] = r[i]
      BY <2>1, AppendParts
    <3>2. f[k + 1] = Append(r, q[k + 1])
      BY <2>3, <2>5
    <3>3. I \cap (1..(k + 1)) = J \cup {k + 1} /\ k + 1 \notin J
      BY <2>5
    <3>4. /\ e \in [1..len -> J]
          /\ \A i, j \in 1..len : e[i] = e[j] => i = j
          /\ \A x \in J : \E i \in 1..len : e[i] = x
          /\ \A i \in 1..len : r[i] = q[e[i]]
      BY <2>2 DEF Picks, Bijection, Injection, Surjection, IsInjective
    <3> HIDE DEF r, len, J
    <3>5. h \in [1..(len + 1) -> J \cup {k + 1}]
      BY <3>1, <3>4
    <3>6. \A i, j \in 1..(len + 1) : h[i] = h[j] => i = j
      BY <3>1, <3>3, <3>4
    <3>7. ASSUME NEW x \in J \cup {k + 1} PROVE \E i \in 1..(len + 1) : h[i] = x
      <4>1. CASE x = k + 1
        BY <3>1, <4>1
      <4>2. CASE x \in J
        <5>1. PICK i \in 1..len : e[i] = x
          BY <3>4, <4>2
        <5>2. h[i] = x /\ i \in 1..(len + 1)
          BY <3>1, <5>1
        <5> QED BY <5>2
      <4> QED BY <4>1, <4>2
    <3>8. \A i \in 1..(len + 1) : Append(r, q[k + 1])[i] = q[h[i]]
      BY <3>1, <3>4
    <3> HIDE DEF h
    <3>9. Picks(h, Append(r, q[k + 1]), q, J \cup {k + 1})
      BY <3>1, <3>5, <3>6, <3>7, <3>8 DEF Picks, Bijection, Injection, Surjection, IsInjective
    <3> QED BY <3>1, <3>2, <3>3, <3>9 DEF P
  <2> QED BY <2>4, <2>5
<1>5. n \in S
  <2> HIDE DEF S
  <2> QED BY <1>1, <1>3, <1>4, Induction
<1>6. P(n)
  BY <1>1, <1>5
<1>7. I \cap (1..n) = I
  BY <1>1
<1> QED BY <1>2, <1>6, <1>7 DEF P

(* The same, without the bijection.                                        *)
LEMMA KeptElements ==
  ASSUME NEW q, IsSeq(q), NEW I, I \subseteq DOMAIN q
  PROVE  /\ IsSeq(Kept(q, I))
         /\ Range(Kept(q, I)) = {q[k] : k \in I}
         /\ IsFiniteSet(I) /\ Len(Kept(q, I)) = Cardinality(I)
         /\ \A i, j \in DOMAIN Kept(q, I) :
               \E k, l \in I : /\ Kept(q, I)[i] = q[k] /\ Kept(q, I)[j] = q[l]
                               /\ k = l => i = j
<1> DEFINE r == Kept(q, I)
<1>1. IsSeq(r)
  BY KeptParts
<1>2. PICK e : Picks(e, r, q, I)
  BY KeptParts
<1> HIDE DEF r
<1>3. Len(r) \in Nat /\ DOMAIN r = 1..Len(r)
  BY <1>1, SeqParts
<1>4. /\ e \in [1..Len(r) -> I]
      /\ \A i, j \in 1..Len(r) : e[i] = e[j] => i = j
      /\ \A x \in I : \E i \in 1..Len(r) : e[i] = x
      /\ \A i \in 1..Len(r) : r[i] = q[e[i]]
  BY <1>2 DEF Picks, Bijection, Injection, Surjection, IsInjective
<1>5. Range(r) = {q[k] : k \in I}
  BY <1>3, <1>4 DEF Range
<1>6. IsFiniteSet(I) /\ Cardinality(I) = Len(r)
  <2>1. ExistsBijection(1..Len(r), I)
    BY <1>2 DEF Picks, ExistsBijection
  <2> QED BY <1>3, <2>1, FS_CountingElements, FS_NatBijection
<1> QED BY <1>1, <1>3, <1>4, <1>5, <1>6 DEF r
-----------------------------------------------------------------------------
(* The points after an update, and after a batch.                          *)
Distinct(points) ==
    \A i, j \in DOMAIN points : points[i].key = points[j].key => i = j

(* An update changes the point of its key or adds one, and no other.       *)
LEMMA UpdateApplied ==
  ASSUME NEW points, IsSeq(points), Distinct(points), NEW m, NEW second
  PROVE  LET r == ApplyUpdate(points, m, second) IN
         /\ IsSeq(r) /\ Distinct(r) /\ Len(r) >= Len(points)
         /\ KeysOf(r) = KeysOf(points) \cup {Key(m)}
         /\ \A p \in Range(r) : \/ p = Entry(m, second)
                                \/ p \in Range(points) /\ p.key # Key(m)
<1> DEFINE r == ApplyUpdate(points, m, second)
           e == Entry(m, second)
           len == Len(points)
<1>1. len \in Nat /\ DOMAIN points = 1..len
  BY SeqParts
<1>2. e.key = Key(m)
  BY DEF Entry
<1>3. CASE Key(m) \notin KeysOf(points)
  <2>1. r = Append(points, e)
    BY <1>3 DEF ApplyUpdate
  <2>2. IsSeq(r) /\ Len(r) = len + 1 /\ r[len + 1] = e /\ \A k \in 1..len : r[k] = points[k]
    BY <2>1, AppendParts
  <2> HIDE DEF r, e, len
  <2>3. DOMAIN r = 1..(len + 1)
    BY <2>2, SeqParts
  <2>4. \A k \in 1..len : points[k].key # Key(m)
    BY <1>1, <1>3 DEF KeysOf
  <2>5. Distinct(r)
    BY <1>1, <1>2, <2>2, <2>3, <2>4 DEF Distinct
  <2>6. KeysOf(r) = KeysOf(points) \cup {Key(m)}
    <3>1. ASSUME NEW x \in KeysOf(r) PROVE x \in KeysOf(points) \cup {Key(m)}
      BY <1>1, <1>2, <2>2, <2>3 DEF KeysOf
    <3>2. ASSUME NEW k \in 1..len PROVE points[k].key \in KeysOf(r)
      <4>1. k \in DOMAIN r /\ r[k] = points[k]
        BY <1>1, <2>2, <2>3
      <4> QED BY <4>1 DEF KeysOf
    <3>3. Key(m) \in KeysOf(r)
      <4>1. len + 1 \in DOMAIN r
        BY <1>1, <2>3
      <4> QED BY <1>2, <2>2, <4>1 DEF KeysOf
    <3>4. KeysOf(points) = {points[k].key : k \in 1..len}
      BY <1>1 DEF KeysOf
    <3> QED BY <3>1, <3>2, <3>3, <3>4
  <2>7. ASSUME NEW p \in Range(r)
        PROVE  p = e \/ (p \in Range(points) /\ p.key # Key(m))
    <3>1. PICK k \in 1..(len + 1) : p = r[k]
      BY <2>3 DEF Range
    <3>2. CASE k = len + 1
      BY <2>2, <3>1, <3>2
    <3>3. CASE k \in 1..len
      <4>1. p = points[k] /\ k \in DOMAIN points
        BY <1>1, <2>2, <3>1, <3>3
      <4>2. p \in Range(points)
        BY <4>1 DEF Range
      <4> QED BY <2>4, <3>3, <4>1, <4>2
    <3> QED BY <1>1, <3>2, <3>3
  <2> QED BY <1>1, <2>2, <2>5, <2>6, <2>7 DEF r, e, len
<1>4. CASE Key(m) \in KeysOf(points)
  <2>1. r = [k \in 1..len |-> IF points[k].key = Key(m) THEN e ELSE points[k]]
    BY <1>1, <1>4 DEF ApplyUpdate
  <2> HIDE DEF r, e, len
  <2>2. r = [k \in 1..len |-> r[k]]
    BY <2>1
  <2>3. IsSeq(r) /\ DOMAIN r = 1..len
    BY <1>1, <2>1, <2>2, FunctionSeq
  <2>4. Len(r) = len
    BY <1>1, <2>3, SeqParts
  <2>5. \A k \in 1..len : r[k].key = points[k].key
    BY <1>2, <2>1
  <2>6. Distinct(r)
    BY <1>1, <2>3, <2>5 DEF Distinct
  <2>7. KeysOf(r) = KeysOf(points)
    BY <1>1, <2>3, <2>5 DEF KeysOf
  <2>8. ASSUME NEW p \in Range(r)
        PROVE  p = e \/ (p \in Range(points) /\ p.key # Key(m))
    <3>1. PICK k \in 1..len : p = r[k]
      BY <2>3 DEF Range
    <3>2. CASE points[k].key = Key(m)
      BY <2>1, <3>1, <3>2
    <3>3. CASE points[k].key # Key(m)
      <4>1. p = points[k] /\ k \in DOMAIN points
        BY <1>1, <2>1, <3>1, <3>3
      <4>2. p \in Range(points)
        BY <4>1 DEF Range
      <4> QED BY <3>3, <4>1, <4>2
    <3> QED BY <3>2, <3>3
  <2> QED BY <1>1, <1>4, <2>3, <2>4, <2>6, <2>7, <2>8 DEF r, e, len
<1> QED BY <1>3, <1>4

(* What the batch brings up to date has the last update of its key.        *)
Updated(p, points, ms, k, second) ==
    \/ p \in Range(points) /\ \A i \in 1..k : Key(ms[i]) # p.key
    \/ \E j \in 1..k : /\ p = Entry(ms[j], second)
                       /\ \A i \in 1..k : Key(ms[i]) = p.key => i <= j
Applied(r, points, ms, k, second) ==
    /\ IsSeq(r) /\ Distinct(r) /\ Len(r) >= Len(points)
    /\ KeysOf(r) = KeysOf(points) \cup {Key(ms[i]) : i \in 1..k}
    /\ \A p \in Range(r) : Updated(p, points, ms, k, second)

(* After a batch each point has the last update of its key, or was there before. *)
LEMMA BatchApplied ==
  ASSUME NEW points, IsSeq(points), Distinct(points), NEW ms, IsSeq(ms), NEW second
  PROVE  Applied(ApplyBatch(points, ms, second), points, ms, Len(ms), second)
<1> DEFINE n == Len(ms)
<1>1. n \in Nat /\ DOMAIN ms = 1..n
  BY SeqParts
<1>2. PICK f : /\ f[0] = points
               /\ \A k \in 1..n : f[k] = ApplyUpdate(f[k - 1], ms[k], second)
               /\ f[n] = ApplyBatch(points, ms, second)
  <2>1. \E f : /\ f[0] = points
               /\ \A k \in 1..Len(ms) : f[k] = ApplyUpdate(f[k - 1], ms[k], second)
               /\ f[Len(ms)] = ApplyBatch(points, ms, second)
    BY BatchSteps
  <2> QED BY <2>1, Zenon
<1> HIDE DEF n
<1> DEFINE P(k) == Applied(f[k], points, ms, k, second)
           S == {k \in Nat : k <= n => P(k)}
<1>3. 0 \in S
  <2>1. 1..0 = {}
    OBVIOUS
  <2>2. Len(points) \in Nat
    BY SeqParts
  <2> QED BY <1>2, <2>1, <2>2 DEF Applied, Updated
<1> HIDE DEF P
<1>4. ASSUME NEW k \in Nat, k \in S PROVE k + 1 \in S
  <2> SUFFICES ASSUME k + 1 <= n PROVE P(k + 1)
    OBVIOUS
  <2> DEFINE q == f[k]
             m == ms[k + 1]
             r == f[k + 1]
  <2>1. Applied(q, points, ms, k, second)
    BY <1>1, <1>4 DEF P
  <2>2. r = ApplyUpdate(q, m, second)
    BY <1>1, <1>2
  <2>3. /\ IsSeq(r) /\ Distinct(r) /\ Len(r) >= Len(q)
        /\ KeysOf(r) = KeysOf(q) \cup {Key(m)}
        /\ \A p \in Range(r) : p = Entry(m, second) \/ (p \in Range(q) /\ p.key # Key(m))
    BY <2>1, <2>2, UpdateApplied DEF Applied
  <2>4. {Key(ms[i]) : i \in 1..(k + 1)} = {Key(ms[i]) : i \in 1..k} \cup {Key(m)}
    <3>1. \A i : i \in 1..(k + 1) <=> i \in 1..k \/ i = k + 1
      OBVIOUS
    <3> QED BY <3>1
  <2>5. Len(r) >= Len(points)
    <3>1. Len(q) \in Nat /\ Len(r) \in Nat /\ Len(points) \in Nat
      BY <2>1, <2>3, SeqParts DEF Applied
    <3> QED BY <2>1, <2>3, <3>1 DEF Applied
  <2> HIDE DEF q, m, r
  <2>6. ASSUME NEW p \in Range(r) PROVE Updated(p, points, ms, k + 1, second)
    <3>1. CASE p = Entry(m, second)
      <4>1. p = Entry(ms[k + 1], second)
        BY <3>1 DEF m
      <4> QED BY <4>1 DEF Updated
    <3>2. CASE p \in Range(q) /\ p.key # Key(m)
      <4>1. Updated(p, points, ms, k, second)
        BY <2>1, <3>2 DEF Applied
      <4>2. p.key # Key(ms[k + 1])
        BY <3>2 DEF m
      <4>3. \A i \in 1..(k + 1) : i \in 1..k \/ i = k + 1
        OBVIOUS
      <4>4. CASE p \in Range(points) /\ \A i \in 1..k : Key(ms[i]) # p.key
        BY <4>2, <4>3, <4>4 DEF Updated
      <4>5. CASE \E j \in 1..k : /\ p = Entry(ms[j], second)
                                 /\ \A i \in 1..k : Key(ms[i]) = p.key => i <= j
        <5>1. PICK j \in 1..k : /\ p = Entry(ms[j], second)
                                /\ \A i \in 1..k : Key(ms[i]) = p.key => i <= j
          BY <4>5
        <5>2. \A i \in 1..(k + 1) : Key(ms[i]) = p.key => i <= j
          BY <4>2, <4>3, <5>1
        <5>3. j \in 1..(k + 1)
          OBVIOUS
        <5> QED BY <5>1, <5>2, <5>3 DEF Updated
      <4> QED BY <4>1, <4>4, <4>5 DEF Updated
    <3> QED BY <2>3, <3>1, <3>2
  <2>7. KeysOf(r) = KeysOf(points) \cup {Key(ms[i]) : i \in 1..(k + 1)}
    BY <2>1, <2>3, <2>4 DEF Applied
  <2>8. Applied(r, points, ms, k + 1, second)
    BY <2>3, <2>5, <2>6, <2>7 DEF Applied
  <2> QED BY <2>8 DEF P, r
<1>5. n \in S
  <2> HIDE DEF S
  <2> QED BY <1>1, <1>3, <1>4, Induction
<1>6. P(n)
  BY <1>1, <1>5
<1> QED BY <1>2, <1>6 DEF P, n
-----------------------------------------------------------------------------
(* A cleanup ranks the points by how many are newer; no two have one rank. *)
Dated(points) == \A k \in DOMAIN points : points[k].second \in Nat
Rank(points) ==
    [k \in DOMAIN points |-> Cardinality({j \in DOMAIN points : Newer(points, j, k)})]

(* The ranks of the points: Newer is a strict total order.                 *)
LEMMA RankOrder ==
  ASSUME NEW points, IsSeq(points), Dated(points)
  PROVE  /\ Rank(points) \in [1..Len(points) -> 0..(Len(points) - 1)]
         /\ \A j, k \in 1..Len(points) :
              /\ Newer(points, j, k) => Rank(points)[j] < Rank(points)[k]
              /\ j # k => Newer(points, j, k) \/ Newer(points, k, j)
<1> DEFINE n == Len(points)
           N(k) == {j \in DOMAIN points : Newer(points, j, k)}
<1>1. n \in Nat /\ DOMAIN points = 1..n
  BY SeqParts
<1>2. Rank(points) = [k \in 1..n |-> Cardinality(N(k))]
  BY <1>1 DEF Rank
<1> HIDE DEF n
<1>3. \A k \in 1..n : points[k].second \in Nat
  BY <1>1 DEF Dated
<1>4. IsFiniteSet(1..n) /\ Cardinality(1..n) = n
  BY <1>1, FS_Interval
<1>5. ASSUME NEW k \in 1..n
      PROVE  IsFiniteSet(N(k)) /\ Cardinality(N(k)) \in Nat /\ Cardinality(N(k)) <= n - 1
  <2>1. N(k) \subseteq (1..n) \ {k}
    BY <1>1, <1>3 DEF Newer
  <2>2. IsFiniteSet((1..n) \ {k}) /\ Cardinality((1..n) \ {k}) = n - 1
    BY <1>4, FS_RemoveElement
  <2> HIDE DEF N
  <2>3. IsFiniteSet(N(k)) /\ Cardinality(N(k)) <= n - 1
    BY <2>1, <2>2, FS_Subset
  <2> QED BY <2>3, FS_CardinalityType
<1>6. ASSUME NEW j \in 1..n, NEW k \in 1..n, Newer(points, j, k)
      PROVE  Cardinality(N(j)) < Cardinality(N(k))
  <2>1. N(j) \subseteq N(k) /\ j \in N(k) /\ j \notin N(j)
    BY <1>1, <1>3, <1>6 DEF Newer
  <2> HIDE DEF N
  <2>2. IsFiniteSet(N(k)) /\ IsFiniteSet(N(j))
    BY <1>5
  <2>3. /\ Cardinality(N(j)) <= Cardinality(N(k))
        /\ Cardinality(N(j)) = Cardinality(N(k)) => N(j) = N(k)
    BY <2>1, <2>2, FS_Subset
  <2>4. Cardinality(N(j)) \in Nat /\ Cardinality(N(k)) \in Nat
    BY <1>5
  <2> QED BY <2>1, <2>3, <2>4
<1>7. ASSUME NEW j \in 1..n, NEW k \in 1..n, j # k
      PROVE  Newer(points, j, k) \/ Newer(points, k, j)
  BY <1>3, <1>7 DEF Newer
<1> HIDE DEF N
<1>8. \A k \in 1..n : Cardinality(N(k)) \in 0..(n - 1)
  BY <1>1, <1>5
<1>9. Rank(points) \in [1..n -> 0..(n - 1)]
  BY <1>2, <1>8
<1> QED BY <1>2, <1>6, <1>7, <1>9 DEF n

(* A cleanup keeps the points of the first ranks.                          *)
LEMMA KeepsRank ==
  ASSUME NEW points, IsSeq(points), Dated(points)
  PROVE  Keeps(points) = {k \in 1..Len(points) : Rank(points)[k] < MAX_POINTS}
  BY SeqParts DEF Keeps, Rank

(* MAX_POINTS ranks are kept, if there are as many points.                 *)
LEMMA KeepsNumber ==
  ASSUME NEW points, IsSeq(points), Dated(points), Len(points) >= MAX_POINTS
  PROVE  Cardinality(Keeps(points)) = MAX_POINTS
<1> DEFINE n == Len(points)
           rank == Rank(points)
           K == Keeps(points)
           top == [k \in K |-> rank[k]]
<1>1. n \in Nat /\ MAX_POINTS \in Nat /\ MAX_POINTS <= n
  BY SeqParts, ClientAssumption
<1>2. K = {k \in 1..n : rank[k] < MAX_POINTS}
  BY KeepsRank
<1>3. /\ rank \in [1..n -> 0..(n - 1)]
      /\ \A j, k \in 1..n : rank[j] = rank[k] => j = k
  <2>1. rank \in [1..n -> 0..(n - 1)]
    BY RankOrder
  <2>2. \A j, k \in 1..n : j # k => rank[j] < rank[k] \/ rank[k] < rank[j]
    BY RankOrder
  <2> HIDE DEF n, rank
  <2> QED BY <1>1, <2>1, <2>2
<1> HIDE DEF n, rank
<1>4. rank \in Injection(1..n, 0..(n - 1))
  BY <1>3 DEF Injection, IsInjective
<1>5. rank \in Surjection(1..n, 0..(n - 1))
  <2>1. IsFiniteSet(1..n) /\ Cardinality(1..n) = n
    BY <1>1, FS_Interval
  <2>2. IsFiniteSet(0..(n - 1)) /\ Cardinality(0..(n - 1)) = n
    BY <1>1, FS_Interval
  <2> QED BY <1>4, <2>1, <2>2, FS_Injection
<1>6. \A r \in 0..(n - 1) : \E k \in 1..n : rank[k] = r
  BY <1>5 DEF Surjection
<1> HIDE DEF K
<1>7. top \in [K -> 0..(MAX_POINTS - 1)]
  BY <1>1, <1>2, <1>3
<1>8. \A j, k \in K : top[j] = top[k] => j = k
  BY <1>2, <1>3
<1>9. ASSUME NEW r \in 0..(MAX_POINTS - 1) PROVE \E k \in K : top[k] = r
  <2>1. PICK k \in 1..n : rank[k] = r
    BY <1>1, <1>6
  <2>2. k \in K
    BY <1>1, <1>2, <2>1
  <2> QED BY <2>1, <2>2
<1> HIDE DEF top
<1>10. top \in Bijection(K, 0..(MAX_POINTS - 1))
  BY <1>7, <1>8, <1>9 DEF Bijection, Injection, Surjection, IsInjective
<1>11. IsFiniteSet(K)
  <2>1. IsFiniteSet(1..n) /\ K \in SUBSET (1..n)
    BY <1>1, <1>2, FS_Interval
  <2> QED BY <2>1, FS_Subset
<1>12. Cardinality(0..(MAX_POINTS - 1)) = Cardinality(K)
  BY <1>10, <1>11, FS_Bijection DEF ExistsBijection
<1>13. Cardinality(0..(MAX_POINTS - 1)) = MAX_POINTS
  BY <1>1, FS_Interval
<1> QED BY <1>12, <1>13 DEF K

(* What a cleanup leaves.                                                  *)
LEMMA CleanupApplied ==
  ASSUME NEW points, IsSeq(points), Distinct(points), Dated(points)
  PROVE  LET r == Cleanup(points) IN
         /\ IsSeq(r) /\ Distinct(r) /\ Len(r) <= POINTS_CLEANUP_THRESHOLD
         /\ Range(r) \subseteq Range(points)
         /\ Range(points) \ Range(r) # {} =>
              /\ Len(r) = MAX_POINTS
              /\ \A p \in Range(points) \ Range(r), q \in Range(r) : p.second <= q.second
<1> DEFINE r == Cleanup(points)
           K == Keeps(points)
<1>1. /\ MAX_POINTS \in Nat /\ POINTS_CLEANUP_THRESHOLD \in Nat
      /\ MAX_POINTS <= POINTS_CLEANUP_THRESHOLD
  BY ClientAssumption
<1>2. Len(points) \in Nat /\ DOMAIN points = 1..Len(points)
  BY SeqParts
<1>3. CASE ~TooMany(points)
  <2>1. r = points
    BY <1>3 DEF Cleanup
  <2>2. Len(points) <= POINTS_CLEANUP_THRESHOLD
    BY <1>1, <1>2, <1>3 DEF TooMany
  <2> HIDE DEF r
  <2>3. Range(points) \ Range(r) = {}
    BY <2>1
  <2> QED BY <2>1, <2>2, <2>3 DEF r
<1>4. CASE TooMany(points)
  <2>1. r = Kept(points, K) /\ Len(points) >= MAX_POINTS
    BY <1>1, <1>2, <1>4 DEF Cleanup, TooMany
  <2>2. K \subseteq DOMAIN points /\ Cardinality(K) = MAX_POINTS
    BY <2>1, KeepsNumber DEF Keeps
  <2>3. K = {k \in 1..Len(points) : Rank(points)[k] < MAX_POINTS}
    BY KeepsRank
  <2> HIDE DEF r, K
  <2>4. /\ IsSeq(r) /\ Range(r) = {points[k] : k \in K} /\ Len(r) = MAX_POINTS
        /\ \A i, j \in DOMAIN r :
              \E k, l \in K : /\ r[i] = points[k] /\ r[j] = points[l]
                              /\ k = l => i = j
    BY <2>1, <2>2, KeptElements
  <2>5. Distinct(r)
    BY <2>2, <2>4 DEF Distinct
  <2>6. Range(r) \subseteq Range(points)
    BY <2>2, <2>4 DEF Range
  <2>7. ASSUME NEW p \in Range(points) \ Range(r), NEW q \in Range(r)
        PROVE  p.second <= q.second
    <3>1. PICK i \in DOMAIN points : p = points[i]
      BY DEF Range
    <3>2. i \notin K
      BY <2>4, <3>1
    <3>3. PICK j \in K : q = points[j]
      BY <2>4
    <3>4. i \in 1..Len(points) /\ j \in 1..Len(points)
      BY <1>2, <2>2
    <3>5. Rank(points) \in [1..Len(points) -> 0..(Len(points) - 1)]
      BY RankOrder
    <3>6. ~(Rank(points)[i] < Rank(points)[j])
      BY <1>1, <1>2, <2>3, <3>2, <3>4, <3>5
    <3>7. ~Newer(points, i, j)
      BY <3>4, <3>6, RankOrder
    <3>8. points[i].second \in Nat /\ points[j].second \in Nat
      BY <1>2, <3>4 DEF Dated
    <3> QED BY <3>1, <3>3, <3>7, <3>8 DEF Newer
  <2> QED BY <1>1, <2>4, <2>5, <2>6, <2>7 DEF r
<1> QED BY <1>3, <1>4
-----------------------------------------------------------------------------
(* The messages an ASDU is turned into.                                    *)
Tells(m) == m.type \notin {"packet", "control_result"}
Concerns(m, key) == Tells(m) /\ Key(m) = key
MessageTypes == {"telemetry", "digital", "counter", "malformed"}
Repeats(m, r) ==
    /\ m.ptype = r.type /\ m.quality = r.quality
    /\ r.type \notin Protection /\ r.value \notin NonFinite =>
          m.type # "malformed" /\ Agrees(m.value, r)

(* RoundTo moves a number by half a unit at most.                          *)
LEMMA RoundedNear ==
  ASSUME NEW n \in Nat, NEW u \in Nat \ {0}
  PROVE  /\ RoundTo(n, u) \in Int
         /\ 2 * (RoundTo(n, u) - n) <= u /\ 2 * (n - RoundTo(n, u)) <= u
         /\ u = 1 => RoundTo(n, u) = n
<1> DEFINE rest == n % u
           down == 2 * rest < u \/ (2 * rest = u /\ (n \div u) % 2 = 0)
<1>1. rest \in Nat /\ rest < u
  OBVIOUS
<1>2. RoundTo(n, u) = IF down THEN n - rest ELSE n - rest + u
  BY DEF RoundTo
<1>3. (down => 2 * rest <= u) /\ (~down => 2 * rest >= u)
  BY <1>1
<1> HIDE DEF rest, down
<1> QED BY <1>1, <1>2, <1>3

(* What is written of a measured value is the value to six digits.         *)
LEMMA SixDigitsAgree ==
  ASSUME NEW r, r.type \in Measured, Countable(r.value)
  PROVE  Agrees(SixDigits(r.value), r)
<1> DEFINE v == r.value
           n == Magnitude(v)
           u == LastDigit(n)
           m == RoundTo(n, u)
<1>0. Million \in Nat
  BY SMT DEF Million
<1>1. v \in Int /\ n \in Nat /\ n = IF v < 0 THEN -v ELSE v
  BY DEF Countable, Magnitude
<1>2. u \in Nat \ {0} /\ (n < Million => u = 1) /\ (n >= Million => Million * u <= 10 * n)
  <2>1. CASE n < Million
    BY <1>0, <1>1, <2>1 DEF LastDigit
  <2>2. CASE ~(n < Million)
    <3>1. \E w \in Decades : InDecade(n, w)
      BY <2>2 DEF Countable
    <3>2. u \in Decades /\ InDecade(n, u)
      BY <2>2, <3>1 DEF LastDigit
    <3> QED BY <2>2, <3>2, MeasuredAssumption DEF InDecade
  <2> QED BY <2>1, <2>2
<1> HIDE DEF u
<1>3. m \in Int /\ 2 * (m - n) <= u /\ 2 * (n - m) <= u /\ (u = 1 => m = n)
  BY <1>1, <1>2, RoundedNear
<1>4. SixDigits(v) = IF v < 0 THEN -m ELSE m
  BY DEF SixDigits, u
<1> HIDE DEF m, n
<1>5. CASE n < Million
  <2>1. SixDigits(v) = v
    BY <1>1, <1>2, <1>3, <1>4, <1>5
  <2> QED BY <1>5, <2>1 DEF Agrees, n
<1>6. CASE ~(n < Million)
  <2> DEFINE e == SixDigits(v) - v
  <2>1. e \in Int /\ 2 * e <= u /\ 2 * (-e) <= u
    BY <1>1, <1>2, <1>3, <1>4
  <2>2. Million * u <= 10 * n
    BY <1>0, <1>1, <1>2, <1>6
  <2> HIDE DEF e
  <2>3. e <= (5 * n) \div Million /\ -e <= (5 * n) \div Million
    BY <1>1, <1>2, <2>1, <2>2, SMT DEF Million
  <2>4. Magnitude(e) <= (5 * n) \div Million
    BY <2>3 DEF Magnitude
  <2> QED BY <1>6, <2>4 DEF Agrees, n, e
<1> QED BY <1>5, <1>6

(* What is written of a point agrees with a report of the same value.      *)
LEMMA WrittenAgrees ==
  ASSUME NEW p, Doubled(p), NEW r, r.type = p.type, r.value = p.value,
         p.value \notin NonFinite
  PROVE  Agrees(Written(p), r)
<1>1. CASE p.type \in Measured
  <2>1. Countable(r.value) /\ Written(p) = SixDigits(r.value)
    BY <1>1 DEF Doubled, Written
  <2> QED BY <1>1, <2>1, SixDigitsAgree
<1>2. CASE p.type \notin Measured
  BY <1>2 DEF Doubled, Written, Agrees
<1> QED BY <1>1, <1>2

(* A key is among those of a sequence if a message in it is about it.      *)
LEMMA KeysIn ==
  ASSUME NEW q, NEW key
  PROVE  key \in Keys(q) <=> \E k \in DOMAIN q : Concerns(q[k], key)
  BY DEF Keys, Concerns, Tells

(* What the message of a point says.                                       *)
LEMMA MessageOf ==
  ASSUME NEW s, NEW p, p.kind \in Kinds, NEW n
  PROVE  LET m == PointMessage(s, p, n) IN
         /\ m.type \in MessageTypes /\ Tells(m)
         /\ m.station = s /\ m.asdu = n /\ Key(m) = <<s, p.ioa>>
         /\ m.ptype = p.type /\ m.value = Written(p) /\ m.quality = p.quality
         /\ m.type = "malformed" <=> p.value \in NonFinite \/ p.kind = "protection"
<1> DEFINE m == PointMessage(s, p, n)
<1>1. /\ m.type = MessageType(p) /\ m.station = s /\ m.asdu = n /\ m.ioa = p.ioa
      /\ m.ptype = p.type /\ m.value = Written(p) /\ m.quality = p.quality
  BY DEF PointMessage
<1> HIDE DEF m
<1>2. CASE p.value \in NonFinite \/ p.kind = "protection"
  <2>1. MessageType(p) = "malformed"
    BY <1>2 DEF MessageType
  <2> QED BY <1>1, <1>2, <2>1 DEF MessageTypes, Tells, Key, m
<1>3. CASE p.value \notin NonFinite /\ p.kind \in {"step", "bitstring"}
  <2>1. MessageType(p) = "telemetry" /\ p.kind # "protection"
    BY <1>3 DEF MessageType
  <2> QED BY <1>1, <1>3, <2>1 DEF MessageTypes, Tells, Key, m
<1>4. CASE p.value \notin NonFinite /\ p.kind \in {"digital", "telemetry", "counter"}
  <2>1. MessageType(p) = p.kind /\ p.kind # "protection"
    BY <1>4 DEF MessageType
  <2> QED BY <1>1, <1>4, <2>1 DEF MessageTypes, Tells, Key, m
<1> QED BY <1>2, <1>3, <1>4 DEF Kinds

(* One message per point.                                                  *)
LEMMA MessagesOf ==
  ASSUME NEW s, NEW points, IsSeq(points), NEW n
  PROVE  /\ IsSeq(Messages(s, points, n)) /\ DOMAIN Messages(s, points, n) = DOMAIN points
         /\ Len(Messages(s, points, n)) = Len(points)
         /\ \A k \in DOMAIN points : Messages(s, points, n)[k] = PointMessage(s, points[k], n)
<1> DEFINE q == Messages(s, points, n)
<1>1. Len(points) \in Nat /\ DOMAIN points = 1..Len(points)
  BY SeqParts
<1>2. q = [k \in 1..Len(points) |-> PointMessage(s, points[k], n)]
  BY <1>1 DEF Messages
<1> HIDE DEF q
<1>3. q = [k \in 1..Len(points) |-> q[k]]
  BY <1>2
<1>4. IsSeq(q)
  BY <1>1, <1>3, FunctionSeq
<1>5. Len(q) = Len(points)
  BY <1>1, <1>2, <1>4, SeqParts
<1> QED BY <1>1, <1>2, <1>4, <1>5 DEF q

(* A sequence of one.                                                      *)
LEMMA SingleMessage ==
  ASSUME NEW m PROVE IsSeq(<<m>>) /\ Len(<<m>>) = 1 /\ <<m>>[1] = m /\ DOMAIN <<m>> = {1}
  BY DEF IsSeq, Range

(* The elements of a concatenation.                                        *)
LEMMA ConcatElements ==
  ASSUME NEW q, IsSeq(q), NEW r, IsSeq(r)
  PROVE  Range(q \o r) = Range(q) \cup Range(r)
<1>1. /\ IsSeq(q \o r) /\ Len(q \o r) = Len(q) + Len(r)
      /\ Len(q) \in Nat /\ Len(r) \in Nat
      /\ \A k \in 1..Len(q) : (q \o r)[k] = q[k]
      /\ \A k \in 1..Len(r) : (q \o r)[Len(q) + k] = r[k]
  BY ConcatParts
<1>2. /\ DOMAIN q = 1..Len(q) /\ DOMAIN r = 1..Len(r)
      /\ DOMAIN (q \o r) = 1..(Len(q) + Len(r))
  BY <1>1, SeqParts
<1> DEFINE t == q \o r
           i == Len(q)
           j == Len(r)
<1> HIDE DEF t, i, j
<1>3. /\ DOMAIN q = 1..i /\ DOMAIN r = 1..j /\ DOMAIN t = 1..(i + j) /\ i \in Nat /\ j \in Nat
      /\ \A k \in 1..i : t[k] = q[k]
      /\ \A k \in 1..j : t[i + k] = r[k]
  BY <1>1, <1>2 DEF t, i, j
<1>4. ASSUME NEW k \in 1..(i + j) PROVE t[k] \in Range(q) \cup Range(r)
  <2>1. CASE k \in 1..i
    BY <1>3, <2>1 DEF Range
  <2>2. CASE k \notin 1..i
    <3>1. k - i \in 1..j /\ i + (k - i) = k
      BY <1>3, <2>2
    <3>2. t[k] = r[k - i]
      BY <1>3, <3>1
    <3> QED BY <1>3, <3>1, <3>2 DEF Range
  <2> QED BY <2>1, <2>2
<1>5. ASSUME NEW k \in 1..i PROVE q[k] \in Range(t)
  <2>1. k \in 1..(i + j)
    BY <1>3
  <2> QED BY <1>3, <2>1 DEF Range
<1>6. ASSUME NEW k \in 1..j PROVE r[k] \in Range(t)
  <2>1. i + k \in 1..(i + j)
    BY <1>3
  <2> QED BY <1>3, <2>1 DEF Range
<1> QED BY <1>3, <1>4, <1>5, <1>6 DEF t, Range

(* Decode: kinds, types, addresses.                                        *)
LEMMA ParsedPoints ==
  ASSUME NEW a \in Asdus, NEW now
  PROVE  /\ IsSeq(Decode(a, now)) /\ IsSeq(a.objects)
         /\ \A n \in DOMAIN Decode(a, now) : LET p == Decode(a, now)[n] IN
              /\ p.kind \in Kinds /\ p.type = a.type
              /\ p.kind = "protection" <=> a.type \in Protection
              /\ Doubled(p)
              /\ \E k \in DOMAIN a.objects : p.ioa \in Covers(a, k)
<1>1. IsSeq(a.objects)
  BY ObjectsAssumption DEF IsSeq, Range
<1>2. CASE Decode(a, now) = <<>>
  <2>1. IsSeq(<<>>) /\ DOMAIN <<>> = {}
    BY DEF IsSeq
  <2> QED BY <1>1, <1>2, <2>1
<1> QED BY <1>1, <1>2, DecodedPoints

(* The points of an ASDU: the data callback repeats some of them, the ASDU *)
(* callback has them all.                                                  *)
Chained(q, d, s, points, n) ==
    /\ d = DataCallback(s, points, n)
    /\ q = PacketCallback(s, FALSE) \o (d \o ASDUDataCallback(s, points, n))
ChainParts(q, d, s, points, n) ==
    /\ IsSeq(q) /\ Len(q) = 1 + Len(d) + Len(points) /\ Len(d) \in Nat
    /\ \A m \in Range(q) :
          \/ m = PacketCallback(s, FALSE)[1]
          \/ \E k \in DOMAIN points : m = PointMessage(s, points[k], n)
    /\ \A k \in DOMAIN points : q[1 + Len(d) + k] = PointMessage(s, points[k], n)

(* The messages of the points are all there, in order, at the end.         *)
LEMMA PointBroadcasts ==
  ASSUME NEW s, NEW points, IsSeq(points), NEW n, NEW d, NEW q, Chained(q, d, s, points, n)
  PROVE  ChainParts(q, d, s, points, n)
<1> DEFINE e == ASDUDataCallback(s, points, n)
           c == PacketCallback(s, FALSE)
           taken == {k \in DOMAIN points : points[k].kind \in {"digital", "telemetry"}}
           kept == Kept(points, taken)
<1>1. Len(points) \in Nat /\ DOMAIN points = 1..Len(points)
  BY SeqParts
<1>2. IsSeq(kept) /\ Range(kept) = {points[k] : k \in taken}
  BY KeptElements
<1>3. d = Messages(s, kept, n)
  BY DEF DataCallback, Chained
<1>4. e = Messages(s, points, n)
  BY DEF ASDUDataCallback
<1>5. c = <<c[1]>>
  BY DEF PacketCallback
<1>0. q = c \o (d \o e)
  BY DEF Chained
<1> HIDE DEF c, e, kept
<1>6. /\ IsSeq(d) /\ DOMAIN d = DOMAIN kept
      /\ \A k \in DOMAIN kept : d[k] = PointMessage(s, kept[k], n)
  BY <1>2, <1>3, MessagesOf
<1>7. /\ IsSeq(e) /\ DOMAIN e = DOMAIN points /\ Len(e) = Len(points)
      /\ \A k \in DOMAIN points : e[k] = PointMessage(s, points[k], n)
  BY <1>4, MessagesOf
<1>8. IsSeq(c) /\ Len(c) = 1 /\ DOMAIN c = {1}
  BY <1>5, SingleMessage
<1>9. /\ IsSeq(d \o e) /\ Len(d \o e) = Len(d) + Len(points) /\ Len(d) \in Nat
      /\ \A k \in 1..Len(points) : (d \o e)[Len(d) + k] = e[k]
      /\ Range(d \o e) = Range(d) \cup Range(e)
  <2>0. IsSeq(d) /\ IsSeq(e)
    BY <1>6, <1>7
  <2>1. /\ IsSeq(d \o e) /\ Len(d \o e) = Len(d) + Len(e) /\ Len(d) \in Nat
        /\ \A k \in 1..Len(e) : (d \o e)[Len(d) + k] = e[k]
    BY <2>0, ConcatParts
  <2>2. Range(d \o e) = Range(d) \cup Range(e)
    BY <2>0, ConcatElements
  <2>3. Len(e) = Len(points)
    BY <1>7
  <2> QED BY <2>1, <2>2, <2>3
<1>10. /\ IsSeq(q) /\ Len(q) = 1 + (Len(d) + Len(points))
       /\ \A k \in 1..(Len(d) + Len(points)) : q[1 + k] = (d \o e)[k]
       /\ Range(q) = Range(c) \cup Range(d \o e)
  <2>1. IsSeq(c) /\ IsSeq(d \o e)
    BY <1>8, <1>9
  <2> DEFINE r == d \o e
  <2> HIDE DEF r
  <2>0. q = c \o r /\ IsSeq(r)
    BY <1>0, <2>1 DEF r
  <2>2. /\ IsSeq(c \o r) /\ Len(c \o r) = Len(c) + Len(r)
        /\ \A k \in 1..Len(r) : (c \o r)[Len(c) + k] = r[k]
    BY <2>0, <2>1, ConcatParts
  <2>3. Range(c \o r) = Range(c) \cup Range(r)
    BY <2>0, <2>1, ConcatElements
  <2>4. Len(c) = 1 /\ Len(r) = Len(d) + Len(points)
    BY <1>8, <1>9 DEF r
  <2> QED BY <2>0, <2>2, <2>3, <2>4 DEF r
<1>11. ASSUME NEW m \in Range(q)
       PROVE  m = c[1] \/ \E k \in DOMAIN points : m = PointMessage(s, points[k], n)
  <2>1. CASE m \in Range(c)
    BY <1>8, <2>1 DEF Range
  <2>2. CASE m \in Range(d)
    <3>1. PICK i \in DOMAIN kept : m = PointMessage(s, kept[i], n)
      BY <1>6, <2>2 DEF Range
    <3>2. kept[i] \in Range(kept)
      BY DEF Range
    <3>3. PICK k \in taken : kept[i] = points[k]
      BY <1>2, <3>2
    <3> QED BY <3>1, <3>3
  <2>3. CASE m \in Range(e)
    BY <1>7, <2>3 DEF Range
  <2> QED BY <1>9, <1>10, <2>1, <2>2, <2>3
<1>12. ASSUME NEW k \in DOMAIN points
       PROVE  q[1 + Len(d) + k] = PointMessage(s, points[k], n)
  <2> DEFINE l == Len(d)
             len == Len(points)
  <2>1. l \in Nat /\ len \in Nat /\ k \in 1..len
    BY <1>1, <1>9
  <2> HIDE DEF l, len
  <2>2. l + k \in 1..(l + len) /\ 1 + l + k = 1 + (l + k)
    BY <2>1
  <2>3. q[1 + (l + k)] = (d \o e)[l + k]
    BY <1>10, <2>2 DEF l, len
  <2>4. (d \o e)[l + k] = e[k]
    BY <1>9, <2>1 DEF l, len
  <2> QED BY <1>7, <2>2, <2>3, <2>4 DEF l
<1>13. Len(q) = 1 + Len(d) + Len(points)
  <2> DEFINE i == Len(d)
             j == Len(points)
  <2>1. Len(q) = 1 + (i + j) /\ i \in Nat /\ j \in Nat
    BY <1>1, <1>9, <1>10
  <2> HIDE DEF i, j
  <2>2. Len(q) = 1 + i + j
    BY <2>1
  <2> QED BY <2>2 DEF i, j
<1> QED BY <1>9, <1>10, <1>11, <1>12, <1>13 DEF c, ChainParts

(* What Broadcasts makes of an ASDU: the raw message, a result that the    *)
(* ASDU gives, and a message for each of the points.                       *)
Answers == {Answer(c, cot, negative) :
                c \in Commands, cot \in {"con", "term"}, negative \in BOOLEAN}
Source(a) == a \in Asdus \/ a \in Answers
PointsOf(a, now) == IF IsControlResponse(a) THEN <<>> ELSE Decode(a, now)
ResultOf(m) == [station |-> m.station, ioa |-> m.ioa, success |-> m.success]
PointMade(m, s, a, now, n) ==
    \E k \in DOMAIN PointsOf(a, now) : m = PointMessage(s, PointsOf(a, now)[k], n)

(* What may be parsed.                                                     *)
LEMMA SourceParts ==
  ASSUME NEW a, Source(a), NEW now
  PROVE  /\ IsControlResponse(a) => 1 \in DOMAIN a.objects
         /\ ~IsControlResponse(a) => a \in Asdus
         /\ IsSeq(PointsOf(a, now))
<1>1. CASE a \in Asdus
  <2>1. IsSeq(a.objects) /\ IsSeq(Decode(a, now))
    BY <1>1, ParsedPoints
  <2>2. IsSeq(<<>>)
    BY DEF IsSeq
  <2>3. a.objects # <<>> => 1 \in DOMAIN a.objects
    BY <2>1, SeqParts
  <2> QED BY <1>1, <2>1, <2>2, <2>3 DEF IsControlResponse, PointsOf
<1>2. CASE a \in Answers
  <2>1. /\ a.cot \in {"con", "term"} /\ a.objects # <<>> /\ 1 \in DOMAIN a.objects
    BY <1>2 DEF Answers, Answer
  <2>2. IsSeq(<<>>)
    BY DEF IsSeq
  <2> QED BY <2>1, <2>2 DEF IsControlResponse, PointsOf
<1> QED BY <1>1, <1>2 DEF Source

(* Every message of an ASDU is a packet, a result it gives or a point of it. *)
LEMMA BroadcastsMade ==
  ASSUME NEW a, Source(a), NEW now, NEW s, NEW n
  PROVE  LET q == Broadcasts(s, a, PointsOf(a, now), n) IN
         /\ IsSeq(q)
         /\ \A m \in Range(q) :
              \/ m.type = "packet" /\ m.station = s
              \/ m.type = "control_result" /\ m.station = s /\ ResultOf(m) \in Results(s, a)
              \/ ~IsControlResponse(a) /\ PointMade(m, s, a, now, n)
<1> DEFINE points == PointsOf(a, now)
           c == PacketCallback(s, FALSE)
           d == DataCallback(s, points, n)
           q == Broadcasts(s, a, points, n)
<1>1. c = <<c[1]>> /\ c[1].type = "packet" /\ c[1].station = s
  BY DEF PacketCallback
<1>2. IsSeq(points)
  BY SourceParts
<1>3. CASE IsControlResponse(a)
  <2> DEFINE e == ControlResultCallback(s, a.objects[1].ioa, IsPositive(a))
  <2>1. e = <<e[1]>> /\ e[1].type = "control_result" /\ e[1].station = s
        /\ ResultOf(e[1]) = [station |-> s, ioa |-> a.objects[1].ioa, success |-> IsPositive(a)]
    BY DEF ControlResultCallback, ResultOf
  <2>2. 1 \in DOMAIN a.objects
    BY <1>3, SourceParts
  <2>3. ResultOf(e[1]) \in Results(s, a)
    BY <1>3, <2>1, <2>2 DEF Results, IsControlResponse, IsPositive
  <2>4. q = c \o e
    BY <1>3 DEF Broadcasts
  <2> HIDE DEF c, e, q
  <2>5. IsSeq(c) /\ IsSeq(e) /\ Range(c) = {c[1]} /\ Range(e) = {e[1]}
    BY <1>1, <2>1, SingleMessage DEF Range
  <2>6. IsSeq(q) /\ Range(q) = Range(c) \cup Range(e)
    BY <2>4, <2>5, ConcatParts, ConcatElements
  <2> QED BY <1>1, <2>1, <2>3, <2>5, <2>6 DEF q
<1>4. CASE ~IsControlResponse(a)
  <2>1. Chained(q, d, s, points, n)
    BY <1>4 DEF Broadcasts, Chained
  <2> HIDE DEF q, points, d
  <2>2. /\ IsSeq(q)
        /\ \A m \in Range(q) :
              \/ m = c[1]
              \/ \E k \in DOMAIN points : m = PointMessage(s, points[k], n)
    <3>1. ChainParts(q, d, s, points, n)
      BY <1>2, <2>1, PointBroadcasts
    <3> QED BY <3>1 DEF ChainParts
  <2> HIDE DEF c
  <2> QED BY <1>1, <1>4, <2>2 DEF q, points, PointMade
<1> QED BY <1>3, <1>4

(* What the message of a decoded point says, against the ASDU.             *)
LEMMA PointMadeParts ==
  ASSUME NEW a \in Asdus, ~IsControlResponse(a), NEW now, NEW s, NEW n, NEW m,
         PointMade(m, s, a, now, n)
  PROVE  /\ Decode(a, now) # <<>>
         /\ m.type \in MessageTypes /\ Tells(m) /\ m.station = s /\ m.asdu = n
         /\ m.ptype = a.type /\ Key(m) = <<s, m.ioa>>
         /\ m.ioa \in Addresses /\ About(a, m.ioa) # {}
<1>1. PICK k \in DOMAIN Decode(a, now) : m = PointMessage(s, Decode(a, now)[k], n)
  BY DEF PointMade, PointsOf
<1> DEFINE p == Decode(a, now)[k]
<1>2. /\ p.kind \in Kinds /\ p.type = a.type
      /\ p.kind = "protection" <=> a.type \in Protection
      /\ \E l \in DOMAIN a.objects : p.ioa \in Covers(a, l)
  BY ParsedPoints
<1>3. Decode(a, now) # <<>>
  <2>1. IsSeq(Decode(a, now))
    BY ParsedPoints
  <2> QED BY <2>1, SeqParts
<1> HIDE DEF p
<1>4. /\ m.type \in MessageTypes /\ Tells(m)
      /\ m.station = s /\ m.asdu = n /\ Key(m) = <<s, p.ioa>>
      /\ m.ptype = p.type
  BY <1>1, <1>2, MessageOf DEF p
<1>5. m.ioa = p.ioa
  BY <1>1 DEF PointMessage, p
<1>6. PICK l \in DOMAIN a.objects : p.ioa \in Covers(a, l)
  BY <1>2
<1>7. p.ioa \in Addresses /\ l \in About(a, p.ioa)
  BY <1>6, ObjectsAssumption DEF About
<1> QED BY <1>2, <1>3, <1>4, <1>5, <1>7

(* The last of the messages about an address repeats the report of it.     *)
LEMMA BroadcastsLast ==
  ASSUME NEW a \in Asdus, ~IsControlResponse(a), NEW now, NEW s, NEW n,
         Decode(a, now) # <<>>, a.type \notin Protection, NEW ioa, About(a, ioa) # {}
  PROVE  LET q == Broadcasts(s, a, PointsOf(a, now), n) IN
         \E k \in DOMAIN q :
            /\ Concerns(q[k], <<s, ioa>>) /\ Repeats(q[k], Report(a, ioa, n))
            /\ \A j \in DOMAIN q : Concerns(q[j], <<s, ioa>>) => j <= k
<1> DEFINE points == Decode(a, now)
           c == PacketCallback(s, FALSE)
           d == DataCallback(s, points, n)
           e == ASDUDataCallback(s, points, n)
           q == Broadcasts(s, a, PointsOf(a, now), n)
           l == Len(d)
           len == Len(points)
<1>1. PICK k \in DOMAIN points :
        /\ points[k].ioa = ioa
        /\ \A j \in DOMAIN points : points[j].ioa = ioa => j <= k
        /\ Said(points[k], Report(a, ioa, n))
  BY LastDecoded
<1>2. Chained(q, d, s, points, n)
  BY DEF Broadcasts, PointsOf, Chained
<1>3. /\ IsSeq(points)
      /\ \A j \in DOMAIN points :
            /\ points[j].kind \in Kinds /\ Doubled(points[j])
            /\ points[j].kind = "protection" <=> points[j].type \in Protection
  BY ParsedPoints
<1> HIDE DEF points, c, d, e, q, l, len
<1>4. /\ IsSeq(q) /\ Len(q) = 1 + Len(d) + Len(points) /\ Len(d) \in Nat
      /\ \A j \in DOMAIN points : q[1 + Len(d) + j] = PointMessage(s, points[j], n)
  <2>1. ChainParts(q, d, s, points, n)
    BY <1>2, <1>3, PointBroadcasts
  <2> QED BY <2>1 DEF ChainParts
<1>5. DOMAIN points = 1..len /\ len \in Nat /\ DOMAIN q = 1..(1 + l + len) /\ l \in Nat
  BY <1>3, <1>4, SeqParts DEF l, len
<1>6. ASSUME NEW j \in 1..len
      PROVE  /\ Tells(q[1 + l + j]) /\ Key(q[1 + l + j]) = <<s, points[j].ioa>>
             /\ Said(points[j], Report(a, ioa, n)) => Repeats(q[1 + l + j], Report(a, ioa, n))
  <2>1. /\ q[1 + l + j] = PointMessage(s, points[j], n) /\ points[j].kind \in Kinds
        /\ Doubled(points[j])
        /\ points[j].kind = "protection" <=> points[j].type \in Protection
    BY <1>3, <1>4, <1>5 DEF l
  <2>2. /\ Tells(q[1 + l + j]) /\ Key(q[1 + l + j]) = <<s, points[j].ioa>>
        /\ q[1 + l + j].ptype = points[j].type /\ q[1 + l + j].value = Written(points[j])
        /\ q[1 + l + j].quality = points[j].quality
        /\ q[1 + l + j].type = "malformed" <=>
              points[j].value \in NonFinite \/ points[j].kind = "protection"
    BY <2>1, MessageOf
  <2> DEFINE p == points[j]
             r == Report(a, ioa, n)
  <2>3. Said(p, r) /\ r.value \notin NonFinite => Agrees(Written(p), r)
    BY <2>1, WrittenAgrees DEF Said
  <2> HIDE DEF p, r
  <2> QED BY <2>1, <2>2, <2>3 DEF Said, Repeats, p, r
<1>7. 1 + l + k \in DOMAIN q /\ k \in 1..len
  BY <1>1, <1>5
<1>8. Concerns(q[1 + l + k], <<s, ioa>>) /\ Repeats(q[1 + l + k], Report(a, ioa, n))
  BY <1>1, <1>6, <1>7 DEF Concerns
<1>9. ASSUME NEW j \in DOMAIN q, Concerns(q[j], <<s, ioa>>) PROVE j <= 1 + l + k
  <2>1. CASE j <= 1 + l
    BY <1>5, <1>7, <2>1
  <2>2. CASE j > 1 + l
    <3> DEFINE i == j - 1 - l
    <3>1. i \in 1..len /\ j = 1 + l + i
      BY <1>5, <2>2
    <3> HIDE DEF i
    <3>2. points[i].ioa = ioa
      <4>1. Key(q[1 + l + i]) = <<s, points[i].ioa>> /\ Key(q[1 + l + i]) = <<s, ioa>>
        BY <1>6, <1>9, <3>1 DEF Concerns
      <4> QED BY <4>1
    <3>3. i <= k
      BY <1>1, <1>5, <3>1, <3>2
    <3> QED BY <1>5, <1>7, <3>1, <3>3
  <2> QED BY <1>5, <2>1, <2>2
<1> QED BY <1>7, <1>8, <1>9 DEF q
-----------------------------------------------------------------------------
(* What parseASDU leaves to be broadcast, and what becomes of the history. *)
Latest(q, key, r) ==
    \E k \in DOMAIN q :
        /\ Concerns(q[k], key) /\ Repeats(q[k], r)
        /\ \A j \in DOMAIN q : Concerns(q[j], key) => j <= k
Wellformed(m) == m.type \in MessageTypes

(* Parse, as far as messages and histories are concerned.                  *)
LEMMA ParseParts ==
  ASSUME NEW s \in Stations, NEW a, Source(a), NEW now, Parse(s, a, now),
         todo = [r \in Stations |-> todo[r]], received \in [Stations -> Nat]
  PROVE  \E q, n :
         /\ n = received[s] + 1 /\ received' = [received EXCEPT ![s] = n]
         /\ todo[s] = <<>> /\ todo' = [todo EXCEPT ![s] = q] /\ IsSeq(q)
         /\ answers \subseteq answers' /\ DOMAIN truth \subseteq DOMAIN truth'
         /\ DOMAIN truth' \subseteq DOMAIN truth \cup ({s} \X Addresses)
         /\ \A m \in Range(q) :
              /\ m.station = s
              /\ \/ m.type = "packet"
                 \/ m.type = "control_result" /\ ResultOf(m) \in answers'
                 \/ Wellformed(m) /\ Key(m) \in DOMAIN truth' /\ m.asdu = n
         /\ \A key \in DOMAIN truth' :
              \/ /\ key[1] = s
                 /\ truth'[key].type \in Protection \/ Latest(q, key, truth'[key])
              \/ /\ key \in DOMAIN truth /\ truth'[key] = truth[key]
                 /\ key \notin Keys(q)
<1> DEFINE points == PointsOf(a, now)
           told == IF IsControlResponse(a) \/ points = <<>> THEN {} ELSE Reported(s, a)
<1>0. PICK n : n = received[s] + 1
  OBVIOUS
<1>1. PICK q : q = Broadcasts(s, a, points, n)
  OBVIOUS
<1>2. /\ todo[s] = <<>> /\ todo' = [todo EXCEPT ![s] = q]
      /\ received' = [received EXCEPT ![s] = n]
      /\ truth' = [key \in DOMAIN truth \cup told |->
                      IF key \in told THEN Report(a, key[2], n) ELSE truth[key]]
      /\ answers' = answers \cup Results(s, a)
  BY <1>0, <1>1 DEF Parse, PointsOf
<1>3. /\ IsSeq(q)
      /\ \A m \in Range(q) :
            \/ m.type = "packet" /\ m.station = s
            \/ m.type = "control_result" /\ m.station = s /\ ResultOf(m) \in Results(s, a)
            \/ ~IsControlResponse(a) /\ PointMade(m, s, a, now, n)
  BY <1>1, BroadcastsMade
<1>4. ~IsControlResponse(a) => a \in Asdus /\ points = Decode(a, now)
  BY SourceParts DEF PointsOf
<1>5. told \subseteq {s} \X Addresses
  BY DEF Reported
<1>6. ASSUME NEW m, ~IsControlResponse(a), PointMade(m, s, a, now, n)
      PROVE  /\ Wellformed(m) /\ m.station = s /\ Key(m) \in told /\ m.asdu = n
             /\ Tells(m)
  <2>1. /\ Decode(a, now) # <<>>
        /\ m.type \in MessageTypes /\ Tells(m) /\ m.station = s /\ m.asdu = n
        /\ m.ptype = a.type /\ Key(m) = <<s, m.ioa>>
        /\ m.ioa \in Addresses /\ About(a, m.ioa) # {}
    BY <1>4, <1>6, PointMadeParts
  <2>2. <<s, m.ioa>> \in Reported(s, a)
    BY <2>1 DEF Reported
  <2>3. points # <<>>
    BY <1>4, <1>6, <2>1
  <2>4. Key(m) \in told
    BY <1>6, <2>1, <2>2, <2>3
  <2> QED BY <2>1, <2>4 DEF Wellformed
<1>7. ASSUME NEW key \in told
      PROVE  /\ key[1] = s
             /\ truth'[key].type \in Protection \/ Latest(q, key, truth'[key])
  <2>1. /\ ~IsControlResponse(a) /\ a \in Asdus /\ Decode(a, now) # <<>>
        /\ key \in {s} \X Addresses /\ About(a, key[2]) # {}
    BY <1>4, <1>7 DEF Reported
  <2>2. truth'[key] = Report(a, key[2], n) /\ key = <<s, key[2]>>
    BY <1>2, <1>7, <2>1
  <2>3. truth'[key].type = a.type
    BY <2>2 DEF Report
  <2>4. CASE a.type \notin Protection
    <3>1. \E k \in DOMAIN q :
            /\ Concerns(q[k], <<s, key[2]>>) /\ Repeats(q[k], Report(a, key[2], n))
            /\ \A j \in DOMAIN q : Concerns(q[j], <<s, key[2]>>) => j <= k
      BY <1>1, <2>1, <2>4, BroadcastsLast
    <3> QED BY <2>2, <3>1 DEF Latest
  <2> QED BY <2>2, <2>3, <2>4
<1>8. ASSUME NEW key \in DOMAIN truth, key \notin told PROVE key \notin Keys(q)
  <2>1. SUFFICES ASSUME NEW k \in DOMAIN q, Concerns(q[k], key) PROVE FALSE
    BY KeysIn
  <2>2. q[k] \in Range(q) /\ Tells(q[k]) /\ Key(q[k]) = key
    BY <2>1 DEF Range, Concerns
  <2>3. ~IsControlResponse(a) /\ PointMade(q[k], s, a, now, n)
    BY <1>3, <2>2 DEF Tells
  <2> QED BY <1>6, <1>8, <2>2, <2>3
<1> HIDE DEF told, points
<1>9. ASSUME NEW m \in Range(q)
      PROVE  /\ m.station = s
             /\ \/ m.type = "packet"
                \/ m.type = "control_result" /\ ResultOf(m) \in answers'
                \/ Wellformed(m) /\ Key(m) \in DOMAIN truth' /\ m.asdu = n
  BY <1>2, <1>3, <1>6
<1>10. ASSUME NEW key \in DOMAIN truth'
       PROVE  \/ /\ key[1] = s
                 /\ truth'[key].type \in Protection \/ Latest(q, key, truth'[key])
              \/ /\ key \in DOMAIN truth /\ truth'[key] = truth[key]
                 /\ key \notin Keys(q)
  <2>1. CASE key \in told
    BY <1>7, <2>1
  <2>2. CASE key \notin told
    BY <1>2, <1>8, <2>2
  <2> QED BY <2>1, <2>2
<1> QED BY <1>0, <1>2, <1>3, <1>5, <1>9, <1>10
=============================================================================
