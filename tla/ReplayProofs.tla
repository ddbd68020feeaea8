---------------------------- MODULE ReplayProofs ----------------------------
(***************************************************************************)
(* The replays of one cache for every capacity and every set of objects:   *)
(* ARC keeps the bounds of its paper, the two segments of W-TinyLFU lose   *)
(* track of no prefetch, the contended link creates no bandwidth, the LRU  *)
(* simulator, S3-FIFO and the self-tuned pool count what they hold, and    *)
(* S3-FIFO that deletes lazily is S3-FIFO as published.                    *)
(***************************************************************************)
EXTENDS ArcReplay, LfuReplay, Link, Replay, Subsequence,
        SequenceTheorems, FiniteSetTheorems, TLAPS

-----------------------------------------------------------------------------
(* Sequences of which no element occurs twice.                             *)

IsList(q, S) == q \in Seq(S) /\ IsInjective(q)

(* What q has become: without e, or with it.                               *)
Less(r, q, e) == e \in Range(q) /\ Range(r) = Range(q) \ {e} /\ Len(r) = Len(q) - 1
More(r, q, e) == e \notin Range(q) /\ Range(r) = Range(q) \cup {e} /\ Len(r) = Len(q) + 1

(* remove takes out one entry, and closes the gap.                         *)
LEMMA CutOut ==
    ASSUME NEW S, NEW q, q \in Seq(S), NEW i \in DOMAIN q
    PROVE  /\ RemoveAt(q, i) \in Seq(S) /\ Len(RemoveAt(q, i)) = Len(q) - 1
           /\ \A j \in 1 .. Len(q) - 1 : RemoveAt(q, i)[j] = IF j < i THEN q[j] ELSE q[j + 1]
<1> DEFINE r == RemoveAt(q, i)
           left == SubSeq(q, 1, i - 1)
           right == SubSeq(q, i + 1, Len(q))
<1>1. q \in Seq(S) /\ Len(q) \in Nat /\ DOMAIN q = 1 .. Len(q) /\ \A j \in 1 .. Len(q) : q[j] \in S
    BY LenProperties, ElementOfSeq
<1>2. left \in Seq(S) /\ Len(left) = i - 1 /\ \A j \in 1 .. i - 1 : left[j] = q[j]
    <2>1. \A j \in 1 .. i - 1 : q[j] \in S
        BY <1>1
    <2>2. 1 \in Int /\ i - 1 \in Int /\ Len(left) = IF 1 <= i - 1 THEN (i - 1) - 1 + 1 ELSE 0
        BY <1>1, <2>1, SubSeqProperties
    <2>3. left \in Seq(S) /\ \A j \in 1 .. (i - 1) - 1 + 1 : left[j] = q[1 + j - 1]
        BY <1>1, <2>1, <2>2, SubSeqProperties
    <2> QED BY <1>1, <2>2, <2>3
<1>3. right \in Seq(S) /\ Len(right) = Len(q) - i /\ \A j \in 1 .. Len(q) - i : right[j] = q[i + j]
    <2>1. \A j \in i + 1 .. Len(q) : q[j] \in S
        BY <1>1
    <2>2. i + 1 \in Int /\ Len(right) = IF i + 1 <= Len(q) THEN Len(q) - (i + 1) + 1 ELSE 0
        BY <1>1, <2>1, SubSeqProperties
    <2>3. right \in Seq(S) /\ \A j \in 1 .. Len(q) - (i + 1) + 1 : right[j] = q[(i + 1) + j - 1]
        BY <1>1, <2>1, <2>2, SubSeqProperties
    <2>4. \A j \in 1 .. Len(q) - i : (i + 1) + j - 1 = i + j /\ j \in 1 .. Len(q) - (i + 1) + 1
        BY <1>1
    <2>5. \A j \in 1 .. Len(q) - i : right[j] = q[i + j]
        BY <2>3, <2>4
    <2>6. Len(right) = Len(q) - i
        BY <1>1, <2>2
    <2> QED BY <2>3, <2>5, <2>6
<1> HIDE DEF left, right
<1>4. r = left \o right
    BY DEF RemoveAt, left, right
<1>5. r \in Seq(S) /\ Len(r) = Len(q) - 1
      /\ \A j \in 1 .. Len(q) - 1 : r[j] = IF j < i THEN q[j] ELSE q[j + 1]
    <2> HIDE DEF r
    <2>1. /\ left \o right \in Seq(S) /\ Len(left \o right) = Len(left) + Len(right)
          /\ \A j \in 1 .. Len(left) + Len(right) :
                (left \o right)[j] = IF j <= Len(left) THEN left[j] ELSE right[j - Len(left)]
        BY <1>2, <1>3, ConcatProperties
    <2>2. i \in Nat /\ Len(left) = i - 1 /\ Len(left) + Len(right) = Len(q) - 1
        BY <1>1, <1>2, <1>3
    <2>3. ASSUME NEW j \in 1 .. Len(q) - 1
          PROVE  r[j] = IF j < i THEN q[j] ELSE q[j + 1]
        <3>1. r[j] = IF j <= i - 1 THEN left[j] ELSE right[j - (i - 1)]
            BY <1>4, <2>1, <2>2
        <3>2. CASE j < i
            BY <3>1, <3>2, <2>2, <1>2
        <3>3. CASE j >= i
            <4>1. j - (i - 1) \in 1 .. Len(q) - i /\ i + (j - (i - 1)) = j + 1
                BY <3>3, <2>2, <1>1
            <4>2. right[j - (i - 1)] = q[j + 1]
                BY <1>3, <4>1
            <4>3. ~(j <= i - 1) /\ ~(j < i)
                BY <3>3, <2>2
            <4> QED BY <3>1, <4>2, <4>3
        <3> QED BY <2>2, <3>2, <3>3
    <2> QED BY <1>4, <2>1, <2>2, <2>3
<1> QED BY <1>5 DEF r

(* An entry cut out of a list leaves a list of the others.                 *)
LEMMA RemoveAtIs ==
    ASSUME NEW S, NEW q, IsList(q, S), NEW i \in DOMAIN q
    PROVE  IsList(RemoveAt(q, i), S) /\ Less(RemoveAt(q, i), q, q[i])
<1> DEFINE r == RemoveAt(q, i)
<1>1. q \in Seq(S) /\ Len(q) \in Nat /\ DOMAIN q = 1 .. Len(q)
    BY LenProperties DEF IsList
<1>2. r \in Seq(S) /\ Len(r) = Len(q) - 1
      /\ \A j \in 1 .. Len(q) - 1 : r[j] = IF j < i THEN q[j] ELSE q[j + 1]
    BY <1>1, CutOut
<1> HIDE DEF r
<1>3. DOMAIN r = 1 .. Len(q) - 1
    BY <1>2, LenProperties
<1>4. \A j \in DOMAIN r : \E h \in DOMAIN q : h # i /\ r[j] = q[h] /\ h = IF j < i THEN j ELSE j + 1
    BY <1>1, <1>2, <1>3
<1>5. IsInjective(r)
    <2> SUFFICES ASSUME NEW j \in DOMAIN r, NEW k \in DOMAIN r, r[j] = r[k] PROVE j = k
        BY DEF IsInjective
    <2>1. (IF j < i THEN j ELSE j + 1) = (IF k < i THEN k ELSE k + 1)
        BY <1>4 DEF IsInjective, IsList
    <2> QED BY <1>1, <1>3, <2>1
<1>6. \A h \in DOMAIN q \ {i} : \E j \in DOMAIN r : r[j] = q[h]
    <2> SUFFICES ASSUME NEW h \in DOMAIN q \ {i} PROVE \E j \in DOMAIN r : r[j] = q[h]
        OBVIOUS
    <2>1. CASE h < i
        BY <2>1, <1>1, <1>2, <1>3
    <2>2. CASE h > i
        <3>1. h - 1 \in DOMAIN r /\ r[h - 1] = q[h]
            BY <2>2, <1>1, <1>2, <1>3
        <3> QED BY <3>1
    <2> QED BY <1>1, <2>1, <2>2
<1>7. Range(r) = Range(q) \ {q[i]}
    BY <1>4, <1>6 DEF Range, IsList, IsInjective
<1> QED BY <1>2, <1>5, <1>7 DEF IsList, Less, Range, r

(* Appending what is new.                                                  *)
LEMMA AppendIs ==
    ASSUME NEW S, NEW q, IsList(q, S), NEW e \in S, e \notin Range(q)
    PROVE  IsList(Append(q, e), S) /\ More(Append(q, e), q, e)
<1> DEFINE r == Append(q, e)
<1>1. q \in Seq(S) /\ Len(q) \in Nat /\ DOMAIN q = 1 .. Len(q)
    BY LenProperties DEF IsList
<1>2. /\ r \in Seq(S) /\ Len(r) = Len(q) + 1
      /\ \A i \in 1 .. Len(q) : r[i] = q[i]
      /\ r[Len(q) + 1] = e
    BY <1>1, AppendProperties
<1> HIDE DEF r
<1>3. DOMAIN r = 1 .. Len(q) + 1
    BY <1>2, LenProperties
<1>4. Range(r) = Range(q) \cup {e}
    <2>1. \A i \in DOMAIN r : r[i] \in Range(q) \cup {e}
        BY <1>1, <1>2, <1>3 DEF Range
    <2>2. \A i \in DOMAIN q : i \in DOMAIN r /\ r[i] = q[i]
        BY <1>1, <1>2, <1>3
    <2>3. Len(q) + 1 \in DOMAIN r
        BY <1>1, <1>3
    <2> QED BY <1>2, <2>1, <2>2, <2>3 DEF Range
<1>5. IsInjective(r)
    <2>1. \A i \in DOMAIN q : q[i] # e
        BY DEF Range
    <2>2. \A i, j \in DOMAIN q : q[i] = q[j] => i = j
        BY DEF IsList, IsInjective
    <2> QED BY <1>1, <1>2, <1>3, <2>1, <2>2 DEF IsInjective
<1> QED BY <1>2, <1>4, <1>5 DEF IsList, More, r

(* The oldest entry leaves.                                                *)
LEMMA TailIs ==
    ASSUME NEW S, NEW q, IsList(q, S), q # <<>>
    PROVE  IsList(Tail(q), S) /\ Less(Tail(q), q, Head(q)) /\ Head(q) \in S
<1> DEFINE r == Tail(q)
<1>1. q \in Seq(S) /\ Len(q) \in Nat \ {0} /\ DOMAIN q = 1 .. Len(q)
    BY LenProperties, EmptySeq DEF IsList
<1>2. /\ Head(q) \in S /\ Head(q) = q[1] /\ r \in Seq(S) /\ Len(r) = Len(q) - 1
      /\ \A i \in 1 .. Len(r) : r[i] = q[i + 1]
    BY <1>1, HeadTailProperties
<1> HIDE DEF r
<1>3. DOMAIN r = 1 .. Len(q) - 1
    BY <1>2, LenProperties
<1>4. \A i, j \in DOMAIN q : q[i] = q[j] => i = j
    BY DEF IsList, IsInjective
<1>5. IsInjective(r)
    <2> SUFFICES ASSUME NEW i \in DOMAIN r, NEW j \in DOMAIN r, r[i] = r[j] PROVE i = j
        BY DEF IsInjective
    <2>1. i + 1 \in DOMAIN q /\ j + 1 \in DOMAIN q /\ i \in Int /\ j \in Int
        BY <1>1, <1>3
    <2>2. q[i + 1] = q[j + 1]
        BY <1>2, <1>3
    <2> QED BY <1>4, <2>1, <2>2
<1>6. Range(r) = Range(q) \ {q[1]}
    <2>1. \A i \in DOMAIN r : i + 1 \in DOMAIN q \ {1} /\ r[i] = q[i + 1]
        BY <1>1, <1>2, <1>3
    <2>2. \A i \in DOMAIN q \ {1} : i - 1 \in DOMAIN r /\ r[i - 1] = q[i]
        BY <1>1, <1>2, <1>3
    <2>3. 1 \in DOMAIN q
        BY <1>1
    <2> QED BY <2>1, <2>2, <2>3, <1>4 DEF Range
<1>7. q[1] \in Range(q)
    BY <1>1 DEF Range
<1> QED BY <1>2, <1>5, <1>6, <1>7 DEF IsList, Less, r

LEMMA EmptyIs ==
    ASSUME NEW S
    PROVE  IsList(<<>>, S) /\ Range(<<>>) = {} /\ Len(<<>>) = 0
BY EmptySeq, LenProperties DEF IsList, IsInjective, Range

LEMMA LenIs ==
    ASSUME NEW S, NEW q, IsList(q, S)
    PROVE  /\ Len(q) \in Nat /\ (Len(q) = 0 <=> q = <<>>) /\ (Len(q) = 0 <=> Range(q) = {})
           /\ Range(q) \subseteq S
<1>1. q \in Seq(S)
    BY DEF IsList
<1>2. Len(q) \in Nat /\ DOMAIN q = 1 .. Len(q) /\ (Len(q) = 0 <=> q = <<>>)
    BY <1>1, LenProperties, EmptySeq
<1>3. Range(q) \subseteq S
    BY <1>1, RangeOfSeq
<1>4. Len(q) # 0 => 1 \in DOMAIN q
    BY <1>2
<1>5. Len(q) = 0 => DOMAIN q = {}
    BY <1>2
<1> QED BY <1>2, <1>3, <1>4, <1>5 DEF Range


LEMMA MinIs ==
    ASSUME NEW I \in SUBSET Nat, I # {}
    PROVE  Min(I) \in I /\ \A i \in I : Min(I) <= i
<1>1. PICK m \in I : \A i \in I : <<i, m>> \notin OpToRel(<, Nat)
    BY NatLessThanWellFounded, WFMin
<1>2. ASSUME NEW i \in I PROVE m <= i
    <2>1. <<i, m>> \in Nat \X Nat /\ i \in Nat /\ m \in Nat
        OBVIOUS
    <2>2. ~(i < m)
        BY <1>1, <2>1, Zenon DEF OpToRel
    <2> QED BY <2>1, <2>2
<1> QED BY <1>2 DEF Min

(* Min and Max of two.                                                     *)
LEMMA MaxOfTwo ==
    ASSUME NEW x \in Int, NEW y \in Int
    PROVE  Max({x, y}) = IF x >= y THEN x ELSE y
BY DEF Max

LEMMA MinOfTwo ==
    ASSUME NEW x \in Int, NEW y \in Int
    PROVE  Min({x, y}) = IF x <= y THEN x ELSE y
BY DEF Min

(* LruList: remove takes the key out where it is, and nothing else.        *)
Dropped(r, q, e, S) == IsList(r, S) /\ IF e \in Range(q) THEN Less(r, q, e) ELSE r = q

LEMMA WithoutIs ==
    ASSUME NEW S, NEW q, IsList(q, S), NEW k
    PROVE  Dropped(Without(q, k), q, k, S)
<1>1. q \in Seq(S) /\ Len(q) \in Nat /\ DOMAIN q = 1 .. Len(q)
    BY LenProperties DEF IsList
<1> DEFINE I == { i \in 1 .. Len(q) : q[i] = k }
<1>2. CASE k \in Range(q)
    <2>1. PICK i \in DOMAIN q : q[i] = k
        BY <1>2 DEF Range
    <2>2. I \in SUBSET Nat /\ I # {} /\ I \subseteq DOMAIN q
        BY <1>1, <2>1
    <2>3. Min(I) \in I
        BY <2>2, MinIs
    <2>4. SelectInSeq(q, LAMBDA v : v = k) = Min(I)
        BY <2>2 DEF SelectInSeq
    <2>5. Without(q, k) = RemoveAt(q, Min(I))
        BY <1>1, <2>1, <2>4 DEF Without, RemoveFirst
    <2>6. Min(I) \in DOMAIN q /\ q[Min(I)] = k
        BY <2>2, <2>3
    <2> QED BY <1>2, <2>5, <2>6, RemoveAtIs DEF Dropped
<1>3. CASE k \notin Range(q)
    <2>1. ~ \E i \in 1 .. Len(q) : q[i] = k
        BY <1>1, <1>3 DEF Range
    <2>2. Without(q, k) = q
        BY <2>1 DEF Without, RemoveFirst
    <2> QED BY <1>3, <2>2 DEF Dropped
<1> QED BY <1>2, <1>3

LEMMA TouchedIs ==
    ASSUME NEW S, NEW q, IsList(q, S), NEW k \in S
    PROVE  /\ IsList(Touched(q, k), S) /\ Range(Touched(q, k)) = Range(q) \cup {k}
           /\ Len(Touched(q, k)) = IF k \in Range(q) THEN Len(q) ELSE Len(q) + 1
<1> DEFINE w == Without(q, k)
<1>1. IsList(w, S) /\ (k \in Range(q) => Less(w, q, k)) /\ (k \notin Range(q) => w = q)
    BY WithoutIs DEF Dropped
<1> HIDE DEF w
<1>2. k \notin Range(w)
    BY <1>1 DEF Less
<1>3. IsList(Append(w, k), S) /\ More(Append(w, k), w, k)
    BY <1>1, <1>2, AppendIs
<1>4. Touched(q, k) = Append(w, k)
    BY DEF Touched, w
<1>5. Len(w) \in Nat /\ Len(q) \in Nat
    BY <1>1, LenIs
<1> QED BY <1>1, <1>3, <1>4, <1>5 DEF Less, More

-----------------------------------------------------------------------------
(* ARC. The four lists share no key.                                       *)

ArcCache == [p : Nat, t1 : Seq(Objects), t2 : Seq(Objects), b1 : Seq(Objects), b2 : Seq(Objects)]

ArcTyped(a) ==
    /\ a \in ArcCache /\ a.p \in 0 .. Cap
    /\ IsList(a.t1, Objects) /\ IsList(a.t2, Objects) /\ IsList(a.b1, Objects) /\ IsList(a.b2, Objects)

Apart(a) ==
    /\ Range(a.t1) \cap Range(a.t2) = {} /\ Range(a.t1) \cap Range(a.b1) = {}
    /\ Range(a.t1) \cap Range(a.b2) = {} /\ Range(a.t2) \cap Range(a.b1) = {}
    /\ Range(a.t2) \cap Range(a.b2) = {} /\ Range(a.b1) \cap Range(a.b2) = {}

Sized(a) == Resident(a) <= Cap /\ Recency(a) <= Cap /\ Directory(a) <= 2 * Cap

ArcInv(a) == ArcTyped(a) /\ Apart(a) /\ Sized(a)

Holds(a) == Range(a.t1) \cup Range(a.t2)
ArcKeys(a) == Holds(a) \cup Range(a.b1) \cup Range(a.b2)

T1(a) == Len(a.t1)
T2(a) == Len(a.t2)
B1(a) == Len(a.b1)
B2(a) == Len(a.b2)

Lens(a) == T1(a) \in Nat /\ T2(a) \in Nat /\ B1(a) \in Nat /\ B2(a) \in Nat

LEMMA ArcLens ==
    ASSUME NEW a, ArcTyped(a)
    PROVE  Lens(a)
BY LenIs DEF ArcTyped, Lens, T1, T2, B1, B2

LEMMA SizesAre ==
    ASSUME NEW a
    PROVE  /\ Resident(a) = T1(a) + T2(a) /\ Recency(a) = T1(a) + B1(a)
           /\ Directory(a) = T1(a) + T2(a) + B1(a) + B2(a)
BY DEF Resident, Recency, Directory, T1, T2, B1, B2

(* The new target of t1 is within the capacity.                            *)
LEMMA TargetIs ==
    ASSUME NEW a, ArcTyped(a)
    PROVE  /\ GrowRecency(Cap, a) = [a EXCEPT !.p = GrowRecency(Cap, a).p]
           /\ GrowRecency(Cap, a).p \in 0 .. Cap
           /\ GrowFrequency(a) = [a EXCEPT !.p = GrowFrequency(a).p]
           /\ GrowFrequency(a).p \in 0 .. Cap
<1> DEFINE x == RatioAtLeastOne(Len(a.b2), Len(a.b1))
           y == RatioAtLeastOne(Len(a.b1), Len(a.b2))
<1>1. \A m, n \in Nat : RatioAtLeastOne(m, n) \in Nat
    <2> TAKE m \in Nat, n \in Nat
    <2>1. CASE n = 0
        BY <2>1 DEF RatioAtLeastOne
    <2>2. CASE n # 0
        <3>1. m \div n \in Int
            BY <2>2
        <3>2. Max({1, m \div n}) = IF 1 >= m \div n THEN 1 ELSE m \div n
            BY <3>1, MaxOfTwo
        <3> QED BY <2>2, <3>1, <3>2 DEF RatioAtLeastOne
    <2> QED BY <2>1, <2>2
<1>2. x \in Nat /\ y \in Nat
    BY <1>1, ArcLens DEF Lens, B1, B2
<1> HIDE DEF x, y
<1>3. Cap \in Nat /\ a.p \in Nat /\ a.p <= Cap /\ a \in ArcCache
    BY TraceAssumption DEF ArcTyped
<1>4. Min({a.p + x, Cap}) \in 0 .. Cap /\ Max({a.p - y, 0}) \in 0 .. Cap
    <2>1. Min({a.p + x, Cap}) = IF a.p + x <= Cap THEN a.p + x ELSE Cap
        BY <1>2, <1>3, MinOfTwo
    <2>2. Max({a.p - y, 0}) = IF a.p - y >= 0 THEN a.p - y ELSE 0
        BY <1>2, <1>3, MaxOfTwo
    <2> QED BY <1>2, <1>3, <2>1, <2>2
<1>5. GrowRecency(Cap, a) = [a EXCEPT !.p = Min({a.p + x, Cap})]
    BY DEF GrowRecency, x
<1>6. GrowFrequency(a) = [a EXCEPT !.p = Max({a.p - y, 0})]
    BY DEF GrowFrequency, y
<1> QED BY <1>3, <1>4, <1>5, <1>6 DEF ArcCache

LEMMA Retargeted ==
    ASSUME NEW a, ArcInv(a), NEW p \in 0 .. Cap, NEW b, b = [a EXCEPT !.p = p]
    PROVE  /\ ArcInv(b) /\ b.t1 = a.t1 /\ b.t2 = a.t2 /\ b.b1 = a.b1 /\ b.b2 = a.b2 /\ b.p = p
           /\ Holds(b) = Holds(a) /\ ArcKeys(b) = ArcKeys(a) /\ Resident(b) = Resident(a)
<1>1. p \in Nat /\ a \in ArcCache
    BY TraceAssumption DEF ArcInv, ArcTyped
<1>2. b \in ArcCache /\ b.t1 = a.t1 /\ b.t2 = a.t2 /\ b.b1 = a.b1 /\ b.b2 = a.b2 /\ b.p = p
    BY <1>1 DEF ArcCache
<1> QED BY <1>2 DEF ArcInv, ArcTyped, Apart, Sized, Holds, ArcKeys, Resident, Recency, Directory

(* REPLACE moves the oldest resident of one half to its ghosts; it finds   *)
(* none only when all that is resident is in t1 and within its target.     *)
Moved(b, a) ==
    \E e \in Holds(a) :
       /\ Holds(b) = Holds(a) \ {e} /\ ArcKeys(b) = ArcKeys(a)
       /\ \/ /\ T1(b) = T1(a) - 1 /\ B1(b) = B1(a) + 1
             /\ T2(b) = T2(a) /\ B2(b) = B2(a) /\ Range(b.b2) = Range(a.b2)
             /\ Range(a.b1) \subseteq Range(b.b1)
          \/ /\ T2(b) = T2(a) - 1 /\ B2(b) = B2(a) + 1
             /\ T1(b) = T1(a) /\ B1(b) = B1(a) /\ Range(b.b1) = Range(a.b1)
             /\ Range(a.b2) \subseteq Range(b.b2)

Stuck(a, k) == T2(a) = 0 /\ (T1(a) = 0 \/ (T1(a) <= a.p /\ (T1(a) = a.p => k \notin Range(a.b2))))

LEMMA ReplaceIs ==
    ASSUME NEW a, ArcTyped(a), Apart(a), NEW k
    PROVE  /\ ArcTyped(Replace(a, k)) /\ Apart(Replace(a, k)) /\ Replace(a, k).p = a.p
           /\ Stuck(a, k) => Replace(a, k) = a
           /\ ~Stuck(a, k) => Moved(Replace(a, k), a)
<1> DEFINE b == Replace(a, k)
<1>1. /\ a \in ArcCache /\ a.p \in 0 .. Cap /\ Cap \in Nat
      /\ IsList(a.t1, Objects) /\ IsList(a.t2, Objects) /\ IsList(a.b1, Objects) /\ IsList(a.b2, Objects)
    BY TraceAssumption DEF ArcTyped
<1>2. Lens(a) /\ (a.t1 = <<>> <=> T1(a) = 0) /\ (a.t2 = <<>> <=> T2(a) = 0)
    BY <1>1, LenIs DEF Lens, T1, T2, B1, B2
<1>3. CASE FromT1(a, k)
    <2> DEFINE e == Head(a.t1)  t == Tail(a.t1)  g == Touched(a.b1, e)
    <2>1. a.t1 # <<>> /\ ~Stuck(a, k)
        BY <1>2, <1>3, <1>1 DEF FromT1, Stuck, Lens, Has, T1, T2
    <2>2. IsList(t, Objects) /\ Less(t, a.t1, e) /\ e \in Objects
        BY <1>1, <2>1, TailIs
    <2>3. e \notin Range(a.b1)
        BY <2>2 DEF Apart, Less
    <2>4. IsList(g, Objects) /\ Range(g) = Range(a.b1) \cup {e} /\ Len(g) = B1(a) + 1
        BY <1>1, <2>2, <2>3, TouchedIs DEF B1
    <2>5. b = [a EXCEPT !.t1 = t, !.b1 = g]
        BY <1>3 DEF Replace
    <2> HIDE DEF e, t, g, b
    <2>6. b \in ArcCache /\ b.t1 = t /\ b.b1 = g /\ b.t2 = a.t2 /\ b.b2 = a.b2 /\ b.p = a.p
        BY <1>1, <2>2, <2>4, <2>5 DEF ArcCache, IsList
    <2>7. ArcTyped(b) /\ b.p = a.p
        BY <1>1, <2>2, <2>4, <2>6 DEF ArcTyped
    <2>8. Apart(b)
        BY <2>2, <2>4, <2>6 DEF Apart, Less
    <2>9. Moved(b, a)
        <3>1. e \in Holds(a) /\ Holds(b) = Holds(a) \ {e} /\ ArcKeys(b) = ArcKeys(a)
            BY <2>2, <2>4, <2>6 DEF Apart, Less, Holds, ArcKeys
        <3>2. /\ T1(b) = T1(a) - 1 /\ B1(b) = B1(a) + 1
              /\ T2(b) = T2(a) /\ B2(b) = B2(a) /\ Range(b.b2) = Range(a.b2)
             /\ Range(a.b1) \subseteq Range(b.b1)
            BY <2>2, <2>4, <2>6 DEF Less, T1, T2, B1, B2
        <3> QED BY <3>1, <3>2 DEF Moved
    <2> QED BY <2>1, <2>7, <2>8, <2>9 DEF b
<1>4. CASE ~FromT1(a, k) /\ a.t2 # <<>>
    <2> DEFINE e == Head(a.t2)  t == Tail(a.t2)  g == Touched(a.b2, e)
    <2>1. a.t2 # <<>> /\ ~Stuck(a, k)
        BY <1>2, <1>4 DEF Stuck
    <2>2. IsList(t, Objects) /\ Less(t, a.t2, e) /\ e \in Objects
        BY <1>1, <2>1, TailIs
    <2>3. e \notin Range(a.b2)
        BY <2>2 DEF Apart, Less
    <2>4. IsList(g, Objects) /\ Range(g) = Range(a.b2) \cup {e} /\ Len(g) = B2(a) + 1
        BY <1>1, <2>2, <2>3, TouchedIs DEF B2
    <2>5. b = [a EXCEPT !.t2 = t, !.b2 = g]
        BY <1>4 DEF Replace
    <2> HIDE DEF e, t, g, b
    <2>6. b \in ArcCache /\ b.t2 = t /\ b.b2 = g /\ b.t1 = a.t1 /\ b.b1 = a.b1 /\ b.p = a.p
        BY <1>1, <2>2, <2>4, <2>5 DEF ArcCache, IsList
    <2>7. ArcTyped(b) /\ b.p = a.p
        BY <1>1, <2>2, <2>4, <2>6 DEF ArcTyped
    <2>8. Apart(b)
        BY <2>2, <2>4, <2>6 DEF Apart, Less
    <2>9. Moved(b, a)
        <3>1. e \in Holds(a) /\ Holds(b) = Holds(a) \ {e} /\ ArcKeys(b) = ArcKeys(a)
            BY <2>2, <2>4, <2>6 DEF Apart, Less, Holds, ArcKeys
        <3>2. /\ T2(b) = T2(a) - 1 /\ B2(b) = B2(a) + 1
              /\ T1(b) = T1(a) /\ B1(b) = B1(a) /\ Range(b.b1) = Range(a.b1)
             /\ Range(a.b2) \subseteq Range(b.b2)
            BY <2>2, <2>4, <2>6 DEF Less, T1, T2, B1, B2
        <3> QED BY <3>1, <3>2 DEF Moved
    <2> QED BY <2>1, <2>7, <2>8, <2>9 DEF b
<1>5. CASE ~FromT1(a, k) /\ a.t2 = <<>>
    <2>1. b = a
        BY <1>5 DEF Replace
    <2>2. Stuck(a, k)
        BY <1>1, <1>2, <1>5 DEF Stuck, FromT1, Lens, Has, T1, T2
    <2> QED BY <2>1, <2>2
<1> QED BY <1>3, <1>4, <1>5

(* A hit or a ghost hit: the key is in t2 and nowhere else.                *)
LEMMA PromoteIs ==
    ASSUME NEW a, ArcTyped(a), Apart(a), NEW k \in Objects
    PROVE  /\ ArcTyped(Promote(a, k)) /\ Apart(Promote(a, k)) /\ Promote(a, k).p = a.p
           /\ Holds(Promote(a, k)) = Holds(a) \cup {k}
           /\ T1(Promote(a, k)) = T1(a) - (IF k \in Range(a.t1) THEN 1 ELSE 0)
           /\ B1(Promote(a, k)) = B1(a) - (IF k \in Range(a.b1) THEN 1 ELSE 0)
           /\ B2(Promote(a, k)) = B2(a) - (IF k \in Range(a.b2) THEN 1 ELSE 0)
           /\ T2(Promote(a, k)) = T2(a) + (IF k \in Range(a.t2) THEN 0 ELSE 1)
<1> DEFINE b == Promote(a, k)
           t1 == Without(a.t1, k)  b1 == Without(a.b1, k)  b2 == Without(a.b2, k)  t2 == Touched(a.t2, k)
<1>1. /\ a \in ArcCache /\ a.p \in 0 .. Cap
      /\ IsList(a.t1, Objects) /\ IsList(a.t2, Objects) /\ IsList(a.b1, Objects) /\ IsList(a.b2, Objects)
    BY DEF ArcTyped
<1>2. Dropped(t1, a.t1, k, Objects) /\ Dropped(b1, a.b1, k, Objects) /\ Dropped(b2, a.b2, k, Objects)
    BY <1>1, WithoutIs
<1>3. /\ IsList(t2, Objects) /\ Range(t2) = Range(a.t2) \cup {k}
      /\ Len(t2) = IF k \in Range(a.t2) THEN T2(a) ELSE T2(a) + 1
    BY <1>1, TouchedIs DEF T2
<1>4. b = [a EXCEPT !.t1 = t1, !.b1 = b1, !.b2 = b2, !.t2 = t2]
    BY DEF Promote
<1> HIDE DEF b, t1, b1, b2, t2
<1>5. t1 \in Seq(Objects) /\ t2 \in Seq(Objects) /\ b1 \in Seq(Objects) /\ b2 \in Seq(Objects)
    BY <1>2, <1>3 DEF Dropped, IsList
<1>6. b \in ArcCache /\ b.t1 = t1 /\ b.t2 = t2 /\ b.b1 = b1 /\ b.b2 = b2 /\ b.p = a.p
    BY <1>1, <1>4, <1>5 DEF ArcCache
<1>7. Lens(a)
    BY ArcLens
<1>8. /\ Range(t1) = Range(a.t1) \ {k} /\ Len(t1) = T1(a) - (IF k \in Range(a.t1) THEN 1 ELSE 0)
      /\ Range(b1) = Range(a.b1) \ {k} /\ Len(b1) = B1(a) - (IF k \in Range(a.b1) THEN 1 ELSE 0)
      /\ Range(b2) = Range(a.b2) \ {k} /\ Len(b2) = B2(a) - (IF k \in Range(a.b2) THEN 1 ELSE 0)
    BY <1>2, <1>7 DEF Dropped, Less, Lens, T1, B1, B2
<1>9. ArcTyped(b)
    BY <1>1, <1>2, <1>3, <1>6 DEF ArcTyped, Dropped
<1>10. Apart(b)
    BY <1>3, <1>6, <1>8 DEF Apart
<1>11. Holds(b) = Holds(a) \cup {k}
    BY <1>3, <1>6, <1>8 DEF Holds
<1>12. Len(t2) = T2(a) + (IF k \in Range(a.t2) THEN 0 ELSE 1)
    <2>1. Len(t2) = IF k \in Range(a.t2) THEN T2(a) ELSE T2(a) + 1
        BY <1>3
    <2> QED BY <2>1, <1>7 DEF Lens
<1>13. T1(b) = Len(t1) /\ T2(b) = Len(t2) /\ B1(b) = Len(b1) /\ B2(b) = Len(b2)
    BY <1>6 DEF T1, T2, B1, B2
<1> QED BY <1>6, <1>8, <1>9, <1>10, <1>11, <1>12, <1>13 DEF b

(* What a read does to the residents: k comes in, and of a full cache one  *)
(* object at most goes.                                                    *)
Exchanged(b, a, k) ==
    /\ k \in Holds(b) /\ Holds(b) \subseteq Holds(a) \cup {k}
    /\ Resident(a) < Cap => Holds(a) \subseteq Holds(b)
    /\ \E v \in Objects : Holds(a) \ {v} \subseteq Holds(b)

LEMMA HeldObjects ==
    ASSUME NEW a, ArcTyped(a)
    PROVE  Holds(a) \subseteq Objects /\ ArcKeys(a) \subseteq Objects
BY LenIs DEF ArcTyped, Holds, ArcKeys

LEMMA HitStep ==
    ASSUME NEW a, ArcInv(a), NEW k \in Objects, ArcHit(a, k)
    PROVE  ArcInv(Promote(a, k)) /\ Exchanged(Promote(a, k), a, k)
<1> DEFINE b == Promote(a, k)
<1>1. ArcTyped(b) /\ Apart(b) /\ Holds(b) = Holds(a) \cup {k}
    BY PromoteIs DEF ArcInv
<1>2. k \in Range(a.t1) \/ k \in Range(a.t2)
    BY DEF ArcHit, Has
<1>3. /\ k \in Range(a.t1) => k \notin Range(a.t2)
      /\ k \notin Range(a.b1) /\ k \notin Range(a.b2)
    BY <1>2 DEF ArcInv, Apart
<1>4. Lens(a)
    BY ArcLens DEF ArcInv
<1>5. B1(b) = B1(a) /\ B2(b) = B2(a) /\ T1(b) <= T1(a)
      /\ T1(b) + T2(b) = T1(a) + T2(a) /\ Lens(b)
    <2>1. Lens(b)
        BY <1>1, ArcLens
    <2> HIDE DEF b
    <2>2. /\ T1(b) = T1(a) - (IF k \in Range(a.t1) THEN 1 ELSE 0)
          /\ B1(b) = B1(a) - (IF k \in Range(a.b1) THEN 1 ELSE 0)
          /\ B2(b) = B2(a) - (IF k \in Range(a.b2) THEN 1 ELSE 0)
          /\ T2(b) = T2(a) + (IF k \in Range(a.t2) THEN 0 ELSE 1)
        BY PromoteIs DEF ArcInv, b
    <2> QED BY <2>1, <2>2, <1>2, <1>3, <1>4 DEF Lens
<1> HIDE DEF b
<1>6. Sized(b)
    BY <1>4, <1>5, TraceAssumption, SizesAre DEF ArcInv, Sized, Lens
<1>7. Exchanged(b, a, k)
    BY <1>1 DEF Exchanged
<1> QED BY <1>1, <1>6, <1>7 DEF ArcInv, b

(* A ghost hit, its target already moved.                                  *)
LEMMA GhostStep ==
    ASSUME NEW a, ArcInv(a), NEW k \in Objects, k \in Range(a.b1) \/ k \in Range(a.b2)
    PROVE  /\ ArcInv(Promote(EvictIfFull(Cap, a, k), k))
           /\ Exchanged(Promote(EvictIfFull(Cap, a, k), k), a, k)
<1> DEFINE r == EvictIfFull(Cap, a, k)
           b == Promote(r, k)
<1>1. Lens(a) /\ Holds(a) \subseteq Objects /\ a.p \in 0 .. Cap /\ Cap \in Nat \ {0}
    BY ArcLens, HeldObjects, TraceAssumption DEF ArcInv, ArcTyped
<1>2. k \notin Holds(a)
    BY DEF ArcInv, Apart, Holds
<1>3. Range(a.b1) # {} => B1(a) > 0
    BY <1>1, LenIs DEF ArcInv, ArcTyped, Lens, B1, B2
<1>4. Range(a.b2) # {} => B2(a) > 0
    BY <1>1, LenIs DEF ArcInv, ArcTyped, Lens, B1, B2
<1>5. /\ ArcTyped(r) /\ Apart(r)
      /\ Resident(a) < Cap => r = a
      /\ Resident(a) >= Cap => Moved(r, a)
    <2>1. CASE Resident(a) < Cap
        <3>1. ~(Resident(a) >= Cap)
            BY <2>1, <1>1, SizesAre DEF Lens
        <3>2. r = a
            BY <3>1 DEF EvictIfFull
        <3> QED BY <2>1, <3>1, <3>2 DEF ArcInv
    <2>2. CASE Resident(a) >= Cap
        <3>1. r = Replace(a, k)
            BY <2>2 DEF EvictIfFull
        <3>2. ~Stuck(a, k)
            BY <2>2, <1>1, <1>3, <1>4, SizesAre DEF Stuck, ArcInv, Sized, Lens
        <3>3. ~(Resident(a) < Cap)
            BY <2>2, <1>1, SizesAre DEF Lens
        <3> QED BY <3>1, <3>2, <3>3, ReplaceIs DEF ArcInv
    <2> QED BY <2>1, <2>2, <1>1, SizesAre DEF Lens
<1> HIDE DEF r
<1>6. Lens(r)
    BY <1>5, ArcLens
<1>7. /\ ArcTyped(b) /\ Apart(b) /\ Holds(b) = Holds(r) \cup {k}
      /\ T1(b) = T1(r) - (IF k \in Range(r.t1) THEN 1 ELSE 0)
      /\ B1(b) = B1(r) - (IF k \in Range(r.b1) THEN 1 ELSE 0)
      /\ B2(b) = B2(r) - (IF k \in Range(r.b2) THEN 1 ELSE 0)
      /\ T2(b) = T2(r) + (IF k \in Range(r.t2) THEN 0 ELSE 1)
    BY <1>5, PromoteIs
<1> HIDE DEF b
<1>8. Lens(b)
    BY <1>7, ArcLens
<1>9. CASE Resident(a) < Cap
    <2>1. r = a
        BY <1>5, <1>9
    <2>2. T1(b) = T1(a) /\ T2(b) = T2(a) + 1 /\ B1(b) <= B1(a)
          /\ B1(b) + B2(b) < B1(a) + B2(a)
        BY <1>1, <1>2, <1>7, <1>8, <2>1 DEF Lens, Holds
    <2>3. Sized(b)
        BY <1>1, <1>8, <1>9, <2>2, SizesAre DEF ArcInv, Sized, Lens
    <2>4. Exchanged(b, a, k)
        BY <1>7, <2>1 DEF Exchanged
    <2> QED BY <1>7, <2>3, <2>4 DEF ArcInv, b, r
<1>10. CASE Resident(a) >= Cap
    <2>1. Moved(r, a)
        BY <1>5, <1>10
    <2>2. PICK e \in Holds(a) :
             /\ Holds(r) = Holds(a) \ {e} /\ ArcKeys(r) = ArcKeys(a)
             /\ \/ /\ T1(r) = T1(a) - 1 /\ B1(r) = B1(a) + 1
                   /\ T2(r) = T2(a) /\ B2(r) = B2(a) /\ Range(r.b2) = Range(a.b2)
                   /\ Range(a.b1) \subseteq Range(r.b1)
                \/ /\ T2(r) = T2(a) - 1 /\ B2(r) = B2(a) + 1
                   /\ T1(r) = T1(a) /\ B1(r) = B1(a) /\ Range(r.b1) = Range(a.b1)
                   /\ Range(a.b2) \subseteq Range(r.b2)
        BY <2>1 DEF Moved
    <2>3. k \in Range(r.b1) \/ k \in Range(r.b2)
        BY <2>2
    <2>4. k \notin Range(r.t1) /\ k \notin Range(r.t2)
        BY <1>2, <2>2 DEF Holds
    <2>5. T1(b) = T1(r) /\ T2(b) = T2(r) + 1 /\ B1(b) <= B1(r)
          /\ B1(b) + B2(b) < B1(r) + B2(r)
        BY <1>6, <1>7, <1>8, <2>3, <2>4 DEF Lens
    <2>6. T1(r) + B1(r) = T1(a) + B1(a) /\ T1(r) + T2(r) = T1(a) + T2(a) - 1
          /\ T2(r) + B2(r) = T2(a) + B2(a)
        BY <1>1, <1>6, <2>2 DEF Lens
    <2>7. Sized(b)
        BY <1>1, <1>6, <1>8, <2>5, <2>6, SizesAre DEF ArcInv, Sized, Lens
    <2>8. Exchanged(b, a, k)
        <3>1. ~(Resident(a) < Cap)
            BY <1>1, <1>10, SizesAre DEF Lens
        <3> QED BY <1>1, <1>7, <2>2, <3>1 DEF Exchanged
    <2> QED BY <1>7, <2>7, <2>8 DEF ArcInv, b, r
<1> QED BY <1>1, <1>9, <1>10, SizesAre DEF Lens

(* The oldest of a list goes without a ghost: a ghost itself, or a resident *)
(* of t1.                                                                   *)
LEMMA PopIs ==
    ASSUME NEW q, IsList(q, Objects), q # <<>>
    PROVE  IsList(PopLru(q), Objects) /\ \E e \in Objects : Less(PopLru(q), q, e)
<1>1. PopLru(q) = Tail(q)
    BY DEF PopLru
<1> QED BY <1>1, TailIs

(* Room for a key in no list, before it is put into t1.                    *)
Roomy(r, a, k) ==
    /\ ArcTyped(r) /\ Apart(r) /\ ArcKeys(r) \subseteq ArcKeys(a)
    /\ T1(r) + T2(r) < Cap /\ T1(r) + B1(r) < Cap /\ T1(r) + T2(r) + B1(r) + B2(r) < 2 * Cap
    /\ Holds(r) \subseteq Holds(a) /\ (Resident(a) < Cap => Holds(r) = Holds(a))
    /\ \E v \in Objects : Holds(a) \ {v} \subseteq Holds(r)

Dismissed(b, a) ==
    /\ ArcTyped(b) /\ Apart(b) /\ b.p = a.p /\ ArcKeys(b) \subseteq ArcKeys(a)

LEMMA DismissIs ==
    ASSUME NEW a, ArcInv(a)
    PROVE  /\ B1(a) > 0 =>
                /\ Dismissed([a EXCEPT !.b1 = PopLru(@)], a)
                /\ Holds([a EXCEPT !.b1 = PopLru(@)]) = Holds(a)
                /\ T1([a EXCEPT !.b1 = PopLru(@)]) = T1(a) /\ T2([a EXCEPT !.b1 = PopLru(@)]) = T2(a)
                /\ B1([a EXCEPT !.b1 = PopLru(@)]) = B1(a) - 1 /\ B2([a EXCEPT !.b1 = PopLru(@)]) = B2(a)
           /\ B2(a) > 0 =>
                /\ Dismissed([a EXCEPT !.b2 = PopLru(@)], a)
                /\ Holds([a EXCEPT !.b2 = PopLru(@)]) = Holds(a)
                /\ T1([a EXCEPT !.b2 = PopLru(@)]) = T1(a) /\ T2([a EXCEPT !.b2 = PopLru(@)]) = T2(a)
                /\ B1([a EXCEPT !.b2 = PopLru(@)]) = B1(a) /\ B2([a EXCEPT !.b2 = PopLru(@)]) = B2(a) - 1
           /\ T1(a) > 0 =>
                /\ Dismissed([a EXCEPT !.t1 = PopLru(@)], a)
                /\ \E v \in Objects : Holds([a EXCEPT !.t1 = PopLru(@)]) = Holds(a) \ {v}
                /\ T1([a EXCEPT !.t1 = PopLru(@)]) = T1(a) - 1 /\ T2([a EXCEPT !.t1 = PopLru(@)]) = T2(a)
                /\ B1([a EXCEPT !.t1 = PopLru(@)]) = B1(a) /\ B2([a EXCEPT !.t1 = PopLru(@)]) = B2(a)
<1>1. /\ a \in ArcCache /\ a.p \in 0 .. Cap /\ Apart(a)
      /\ IsList(a.t1, Objects) /\ IsList(a.t2, Objects) /\ IsList(a.b1, Objects) /\ IsList(a.b2, Objects)
    BY DEF ArcInv, ArcTyped
<1>2. ASSUME B1(a) > 0, NEW b, b = [a EXCEPT !.b1 = PopLru(@)]
      PROVE  /\ Dismissed(b, a) /\ Holds(b) = Holds(a)
             /\ T1(b) = T1(a) /\ T2(b) = T2(a) /\ B1(b) = B1(a) - 1 /\ B2(b) = B2(a)
    <2> DEFINE q == PopLru(a.b1)
    <2>1. a.b1 # <<>>
        BY <1>2, LenIs, <1>1 DEF B1
    <2>2. IsList(q, Objects) /\ \E e \in Objects : Less(q, a.b1, e)
        BY <1>1, <2>1, PopIs
    <2>3. PICK e \in Objects : Less(q, a.b1, e)
        BY <2>2
    <2> HIDE DEF q
    <2>4. b \in ArcCache /\ b.t1 = a.t1 /\ b.t2 = a.t2 /\ b.b1 = q /\ b.b2 = a.b2 /\ b.p = a.p
        BY <1>1, <1>2, <2>2 DEF ArcCache, IsList, q
    <2> QED BY <1>1, <2>2, <2>3, <2>4 DEF Dismissed, ArcTyped, Apart, ArcKeys, Holds, Less, T1, T2, B1, B2
<1>3. ASSUME B2(a) > 0, NEW b, b = [a EXCEPT !.b2 = PopLru(@)]
      PROVE  /\ Dismissed(b, a) /\ Holds(b) = Holds(a)
             /\ T1(b) = T1(a) /\ T2(b) = T2(a) /\ B1(b) = B1(a) /\ B2(b) = B2(a) - 1
    <2> DEFINE q == PopLru(a.b2)
    <2>1. a.b2 # <<>>
        BY <1>3, LenIs, <1>1 DEF B2
    <2>2. IsList(q, Objects) /\ \E e \in Objects : Less(q, a.b2, e)
        BY <1>1, <2>1, PopIs
    <2>3. PICK e \in Objects : Less(q, a.b2, e)
        BY <2>2
    <2> HIDE DEF q
    <2>4. b \in ArcCache /\ b.t1 = a.t1 /\ b.t2 = a.t2 /\ b.b1 = a.b1 /\ b.b2 = q /\ b.p = a.p
        BY <1>1, <1>3, <2>2 DEF ArcCache, IsList, q
    <2> QED BY <1>1, <2>2, <2>3, <2>4 DEF Dismissed, ArcTyped, Apart, ArcKeys, Holds, Less, T1, T2, B1, B2
<1>4. ASSUME T1(a) > 0, NEW b, b = [a EXCEPT !.t1 = PopLru(@)]
      PROVE  /\ Dismissed(b, a) /\ \E v \in Objects : Holds(b) = Holds(a) \ {v}
             /\ T1(b) = T1(a) - 1 /\ T2(b) = T2(a) /\ B1(b) = B1(a) /\ B2(b) = B2(a)
    <2> DEFINE q == PopLru(a.t1)
    <2>1. a.t1 # <<>>
        BY <1>4, LenIs, <1>1 DEF T1
    <2>2. IsList(q, Objects) /\ \E e \in Objects : Less(q, a.t1, e)
        BY <1>1, <2>1, PopIs
    <2>3. PICK e \in Objects : Less(q, a.t1, e)
        BY <2>2
    <2> HIDE DEF q
    <2>4. b \in ArcCache /\ b.t1 = q /\ b.t2 = a.t2 /\ b.b1 = a.b1 /\ b.b2 = a.b2 /\ b.p = a.p
        BY <1>1, <1>4, <2>2 DEF ArcCache, IsList, q
    <2>5. Holds(b) = Holds(a) \ {e}
        BY <1>1, <2>3, <2>4 DEF Holds, Less, Apart
    <2> QED BY <1>1, <2>2, <2>3, <2>4, <2>5 DEF Dismissed, ArcTyped, Apart, ArcKeys, Holds, Less, T1, T2, B1, B2
<1> QED BY <1>2, <1>3, <1>4

(* The key is put into t1.                                                 *)
LEMMA EnteredIs ==
    ASSUME NEW a, ArcTyped(a), NEW k \in Objects, k \notin ArcKeys(a), NEW r, Roomy(r, a, k),
           NEW b, b = [r EXCEPT !.t1 = Touched(@, k)]
    PROVE  ArcInv(b) /\ Exchanged(b, a, k)
<1> DEFINE q == Touched(r.t1, k)
<1>1. /\ r \in ArcCache /\ r.p \in 0 .. Cap /\ Apart(r)
      /\ IsList(r.t1, Objects) /\ IsList(r.t2, Objects) /\ IsList(r.b1, Objects) /\ IsList(r.b2, Objects)
    BY DEF Roomy, ArcTyped
<1>2. k \notin ArcKeys(r)
    BY DEF Roomy
<1>3. IsList(q, Objects) /\ Range(q) = Range(r.t1) \cup {k} /\ Len(q) = T1(r) + 1
    BY <1>1, <1>2, TouchedIs DEF ArcKeys, Holds, T1
<1> HIDE DEF q
<1>4. b \in ArcCache /\ b.t1 = q /\ b.t2 = r.t2 /\ b.b1 = r.b1 /\ b.b2 = r.b2 /\ b.p = r.p
    BY <1>1, <1>3 DEF ArcCache, IsList, q
<1>5. ArcTyped(b) /\ Apart(b) /\ Holds(b) = Holds(r) \cup {k}
    BY <1>1, <1>2, <1>3, <1>4 DEF ArcTyped, Apart, ArcKeys, Holds
<1>6. T1(b) = T1(r) + 1 /\ T2(b) = T2(r) /\ B1(b) = B1(r) /\ B2(b) = B2(r)
    BY <1>3, <1>4 DEF T1, T2, B1, B2
<1>7. Lens(r)
    BY ArcLens DEF Roomy
<1>8. Sized(b)
    BY <1>6, <1>7, SizesAre, TraceAssumption DEF Sized, Roomy, Lens
<1>9. Exchanged(b, a, k)
    BY <1>5 DEF Exchanged, Roomy
<1> QED BY <1>5, <1>8, <1>9 DEF ArcInv

LEMMA MovedRoom ==
    ASSUME NEW a, NEW m, ArcTyped(a), Dismissed(m, a), Holds(m) = Holds(a), Lens(m), NEW k, ~Stuck(m, k),
           T1(m) + T2(m) <= Cap, T1(m) + B1(m) < Cap, T1(m) + T2(m) + B1(m) + B2(m) < 2 * Cap,
           Resident(a) >= Cap
    PROVE  Roomy(Replace(m, k), a, k)
<1> DEFINE r == Replace(m, k)
<1>1. ArcTyped(r) /\ Apart(r) /\ Moved(r, m)
    BY ReplaceIs DEF Dismissed
<1> HIDE DEF r
<1>2. Lens(r) /\ Lens(a) /\ Cap \in Nat
    BY <1>1, ArcLens, TraceAssumption
<1>3. PICK e \in Holds(m) :
         /\ Holds(r) = Holds(m) \ {e} /\ ArcKeys(r) = ArcKeys(m)
         /\ \/ T1(r) = T1(m) - 1 /\ B1(r) = B1(m) + 1 /\ T2(r) = T2(m) /\ B2(r) = B2(m)
            \/ T2(r) = T2(m) - 1 /\ B2(r) = B2(m) + 1 /\ T1(r) = T1(m) /\ B1(r) = B1(m)
    BY <1>1 DEF Moved
<1>4. T1(r) + T2(r) < Cap /\ T1(r) + B1(r) < Cap /\ T1(r) + T2(r) + B1(r) + B2(r) < 2 * Cap
    BY <1>2, <1>3 DEF Lens
<1>5. e \in Objects
    BY HeldObjects
<1>6. ~(Resident(a) < Cap)
    BY <1>2, SizesAre DEF Lens
<1> QED BY <1>1, <1>3, <1>4, <1>5, <1>6 DEF Roomy, Dismissed, r

LEMMA FullRoom ==
    ASSUME NEW a, ArcInv(a), NEW k \in Objects, k \notin ArcKeys(a), Resident(a) >= Cap
    PROVE  Roomy(RoomInFull(Cap, a, k), a, k)
<1>1. Lens(a) /\ Cap \in Nat \ {0} /\ a.p \in 0 .. Cap /\ ArcTyped(a)
    BY ArcLens, TraceAssumption DEF ArcInv, ArcTyped
<1>2. T1(a) + T2(a) = Cap /\ T1(a) + B1(a) <= Cap /\ T1(a) + T2(a) + B1(a) + B2(a) <= 2 * Cap
    BY <1>1, SizesAre DEF ArcInv, Sized, Lens
<1>3. Recency(a) = T1(a) + B1(a) /\ Len(a.t1) = T1(a) /\ Directory(a) = T1(a) + T2(a) + B1(a) + B2(a)
    BY SizesAre DEF T1
<1>4. CASE Recency(a) = Cap /\ Len(a.t1) < Cap
    <2> DEFINE m == [a EXCEPT !.b1 = PopLru(@)]
    <2>1. B1(a) > 0
        BY <1>1, <1>2, <1>3, <1>4 DEF Lens
    <2>2. Dismissed(m, a) /\ Holds(m) = Holds(a)
          /\ T1(m) = T1(a) /\ T2(m) = T2(a) /\ B1(m) = B1(a) - 1 /\ B2(m) = B2(a)
        BY <2>1, DismissIs
    <2>3. RoomInFull(Cap, a, k) = Replace(m, k)
        <3>1. Recency(a) = Cap /\ Len(a.t1) < Cap /\ ~(Len(a.t1) >= Cap)
            BY <1>1, <1>3, <1>4 DEF Lens
        <3> HIDE DEF m
        <3>2. RoomInFull(Cap, a, k) = Replace([a EXCEPT !.b1 = PopLru(@)], k)
            BY <3>1 DEF RoomInFull
        <3> QED BY <3>2 DEF m
    <2> HIDE DEF m
    <2>4. Lens(m)
        BY <2>2, ArcLens DEF Dismissed
    <2>5. ~Stuck(m, k)
        <3>1. T2(m) # 0
            BY <1>1, <1>2, <1>3, <1>4, <2>2 DEF Lens
        <3> QED BY <3>1 DEF Stuck
    <2>6. T1(m) + T2(m) <= Cap /\ T1(m) + B1(m) < Cap /\ T1(m) + T2(m) + B1(m) + B2(m) < 2 * Cap
        BY <1>1, <1>2, <2>1, <2>2 DEF Lens
    <2> QED BY <1>1, <2>2, <2>3, <2>4, <2>5, <2>6, MovedRoom
<1>5. CASE Recency(a) = Cap /\ Len(a.t1) >= Cap
    <2> DEFINE r == [a EXCEPT !.t1 = PopLru(@)]
    <2>1. T1(a) > 0 /\ ~(Len(a.t1) < Cap)
        BY <1>1, <1>2, <1>3, <1>5 DEF Lens
    <2>2. Dismissed(r, a) /\ (\E v \in Objects : Holds(r) = Holds(a) \ {v})
          /\ T1(r) = T1(a) - 1 /\ T2(r) = T2(a) /\ B1(r) = B1(a) /\ B2(r) = B2(a)
        BY <2>1, DismissIs
    <2>3. RoomInFull(Cap, a, k) = r
        BY <1>5, <2>1 DEF RoomInFull
    <2> HIDE DEF r
    <2>4. T1(r) + T2(r) < Cap /\ T1(r) + B1(r) < Cap /\ T1(r) + T2(r) + B1(r) + B2(r) < 2 * Cap
        <3>1. T1(r) = T1(a) - 1 /\ T2(r) = T2(a) /\ B1(r) = B1(a) /\ B2(r) = B2(a)
            BY <2>2
        <3>2. T1(a) = Cap
            BY <1>1, <1>2, <1>3, <1>5 DEF Lens
        <3>3. T2(a) = 0 /\ B1(a) = 0
            BY <1>1, <1>2, <3>2 DEF Lens
        <3>4. B2(a) <= Cap
            BY <1>1, <1>2, <3>2, <3>3 DEF Lens
        <3> QED BY <1>1, <3>1, <3>2, <3>3, <3>4 DEF Lens
    <2>5. ~(Resident(a) < Cap)
        BY <1>1, <1>2, SizesAre DEF Lens
    <2> QED BY <2>2, <2>3, <2>4, <2>5 DEF Roomy, Dismissed
<1>6. CASE Recency(a) # Cap
    <2> DEFINE m == IF Directory(a) = 2 * Cap THEN [a EXCEPT !.b2 = PopLru(@)] ELSE a
    <2>1. Directory(a) >= Cap
        BY <1>1, <1>2, <1>3 DEF Lens
    <2>2. RoomInFull(Cap, a, k) = Replace(m, k)
        BY <1>6, <2>1 DEF RoomInFull
    <2>3. Directory(a) = 2 * Cap => B2(a) > 0
        BY <1>1, <1>2, <1>3, <1>6 DEF Lens
    <2>4. Dismissed(m, a) /\ Holds(m) = Holds(a) /\ T1(m) = T1(a) /\ T2(m) = T2(a) /\ B1(m) = B1(a)
          /\ B2(m) = IF Directory(a) = 2 * Cap THEN B2(a) - 1 ELSE B2(a)
        <3>1. CASE Directory(a) = 2 * Cap
            BY <2>3, <3>1, DismissIs
        <3>2. CASE Directory(a) # 2 * Cap
            BY <3>2 DEF Dismissed, ArcInv
        <3> QED BY <3>1, <3>2
    <2> HIDE DEF m
    <2>5. Lens(m)
        BY <2>4, ArcLens DEF Dismissed
    <2>6. ~Stuck(m, k)
        <3>1. T2(m) # 0
            BY <1>1, <1>2, <1>3, <1>6, <2>4 DEF Lens
        <3> QED BY <3>1 DEF Stuck
    <2>7. T1(m) + T2(m) <= Cap /\ T1(m) + B1(m) < Cap /\ T1(m) + T2(m) + B1(m) + B2(m) < 2 * Cap
        <3>1. CASE Directory(a) = 2 * Cap
            <4>1. T1(m) = T1(a) /\ T2(m) = T2(a) /\ B1(m) = B1(a) /\ B2(m) = B2(a) - 1
                BY <2>4, <3>1
            <4> QED BY <1>1, <1>2, <1>3, <1>6, <4>1 DEF Lens
        <3>2. CASE Directory(a) # 2 * Cap
            <4>1. T1(m) = T1(a) /\ T2(m) = T2(a) /\ B1(m) = B1(a) /\ B2(m) = B2(a)
                BY <2>4, <3>2
            <4>2. T1(a) + B1(a) # Cap
                BY <1>3, <1>6
            <4>3. T1(a) + T2(a) + B1(a) + B2(a) # 2 * Cap
                BY <1>3, <3>2
            <4>4. T1(a) + B1(a) < Cap /\ T1(a) + T2(a) + B1(a) + B2(a) < 2 * Cap
                BY <1>1, <1>2, <4>2, <4>3 DEF Lens
            <4> QED BY <1>1, <1>2, <4>1, <4>4 DEF Lens
        <3> QED BY <3>1, <3>2
    <2> QED BY <1>1, <2>2, <2>4, <2>5, <2>6, <2>7, MovedRoom
<1> QED BY <1>1, <1>3, <1>4, <1>5, <1>6 DEF Lens

LEMMA HoleRoom ==
    ASSUME NEW a, ArcInv(a), NEW k \in Objects, k \notin ArcKeys(a), Resident(a) < Cap
    PROVE  Roomy(TrimGhost(Cap, a), a, k)
<1> DEFINE r == TrimGhost(Cap, a)
<1>1. Lens(a) /\ Cap \in Nat \ {0} /\ ArcTyped(a) /\ Apart(a)
    BY ArcLens, TraceAssumption DEF ArcInv
<1>2. T1(a) + T2(a) < Cap /\ T1(a) + B1(a) <= Cap /\ T1(a) + T2(a) + B1(a) + B2(a) <= 2 * Cap
    BY <1>1, SizesAre DEF ArcInv, Sized, Lens
<1>3. Recency(a) = T1(a) + B1(a) /\ Directory(a) = T1(a) + T2(a) + B1(a) + B2(a)
    BY SizesAre
<1>4. /\ Dismissed(r, a) /\ Holds(r) = Holds(a)
      /\ T1(r) + T2(r) < Cap /\ T1(r) + B1(r) < Cap /\ T1(r) + T2(r) + B1(r) + B2(r) < 2 * Cap
    <2>1. CASE Recency(a) = Cap
        <3>1. B1(a) > 0
            BY <1>1, <1>2, <1>3, <2>1 DEF Lens
        <3>2. r = [a EXCEPT !.b1 = PopLru(@)]
            BY <2>1 DEF TrimGhost
        <3> HIDE DEF r
        <3>3. Dismissed(r, a) /\ Holds(r) = Holds(a)
              /\ T1(r) = T1(a) /\ T2(r) = T2(a) /\ B1(r) = B1(a) - 1 /\ B2(r) = B2(a)
            BY <3>1, <3>2, DismissIs
        <3> QED BY <1>1, <1>2, <3>1, <3>3 DEF Lens
    <2>2. CASE Recency(a) # Cap /\ Directory(a) = 2 * Cap
        <3>1. B2(a) > 0
            BY <1>1, <1>2, <1>3, <2>2 DEF Lens
        <3>2. r = [a EXCEPT !.b2 = PopLru(@)]
            BY <2>2 DEF TrimGhost
        <3> HIDE DEF r
        <3>3. Dismissed(r, a) /\ Holds(r) = Holds(a)
              /\ T1(r) = T1(a) /\ T2(r) = T2(a) /\ B1(r) = B1(a) /\ B2(r) = B2(a) - 1
            BY <3>1, <3>2, DismissIs
        <3> QED BY <1>1, <1>2, <1>3, <2>2, <3>1, <3>3 DEF Lens
    <2>3. CASE Recency(a) # Cap /\ Directory(a) # 2 * Cap
        <3>1. r = a
            BY <2>3 DEF TrimGhost
        <3> HIDE DEF r
        <3> QED BY <1>1, <1>2, <1>3, <2>3, <3>1 DEF Lens, Dismissed
    <2> QED BY <2>1, <2>2, <2>3
<1> HIDE DEF r
<1>5. Holds(a) \ {k} \subseteq Holds(r)
    BY <1>4
<1> QED BY <1>4, <1>5 DEF Roomy, Dismissed, r

LEMMA MissStep ==
    ASSUME NEW a, ArcInv(a), NEW k \in Objects, ~ArcHit(a, k), ~Has(a.b1, k), ~Has(a.b2, k)
    PROVE  ArcInv(ArcAccess(Cap, a, k)) /\ Exchanged(ArcAccess(Cap, a, k), a, k)
<1> DEFINE r == IF Resident(a) >= Cap THEN RoomInFull(Cap, a, k) ELSE TrimGhost(Cap, a)
           b == [r EXCEPT !.t1 = Touched(@, k)]
<1>1. k \notin ArcKeys(a) /\ ArcTyped(a)
    BY DEF ArcKeys, Holds, ArcHit, Has, ArcInv
<1>2. Roomy(r, a, k)
    <2>1. CASE Resident(a) >= Cap
        BY <1>1, <2>1, FullRoom
    <2>2. CASE ~(Resident(a) >= Cap)
        <3>1. Resident(a) < Cap
            BY <1>1, <2>2, ArcLens, SizesAre, TraceAssumption DEF Lens
        <3> QED BY <1>1, <2>2, <3>1, HoleRoom
    <2> QED BY <2>1, <2>2
<1>3. ArcAccess(Cap, a, k) = b
    BY DEF ArcAccess
<1> HIDE DEF r
<1>4. ArcInv(b) /\ Exchanged(b, a, k)
    BY <1>1, <1>2, EnteredIs
<1> QED BY <1>3, <1>4

(* A read, wherever its key is found.                                      *)
LEMMA AccessStep ==
    ASSUME NEW a, ArcInv(a), NEW k \in Objects
    PROVE  ArcInv(ArcAccess(Cap, a, k)) /\ Exchanged(ArcAccess(Cap, a, k), a, k)
<1>1. CASE ArcHit(a, k)
    <2>1. ~Has(a.b1, k) /\ ~Has(a.b2, k)
        BY <1>1 DEF ArcInv, Apart, ArcHit, Has
    <2>2. ArcAccess(Cap, a, k) = Promote(a, k)
        BY <1>1, <2>1 DEF ArcAccess
    <2> QED BY <1>1, <2>2, HitStep
<1>2. CASE Has(a.b1, k)
    <2> DEFINE g == GrowRecency(Cap, a)
    <2>1. ~ArcHit(a, k) /\ ~Has(a.b2, k)
        BY <1>2 DEF ArcInv, Apart, ArcHit, Has
    <2>2. ArcAccess(Cap, a, k) = Promote(EvictIfFull(Cap, g, k), k)
        BY <1>2, <2>1 DEF ArcAccess
    <2>3. g = [a EXCEPT !.p = g.p] /\ g.p \in 0 .. Cap
        BY TargetIs DEF ArcInv
    <2> HIDE DEF g
    <2>4. ArcInv(g) /\ g.b1 = a.b1 /\ Holds(g) = Holds(a) /\ Resident(g) = Resident(a)
        BY <2>3, Retargeted
    <2>5. ArcInv(Promote(EvictIfFull(Cap, g, k), k)) /\ Exchanged(Promote(EvictIfFull(Cap, g, k), k), g, k)
        BY <1>2, <2>4, GhostStep DEF Has
    <2> QED BY <2>2, <2>4, <2>5 DEF Exchanged
<1>3. CASE Has(a.b2, k)
    <2> DEFINE g == GrowFrequency(a)
    <2>1. ~ArcHit(a, k) /\ ~Has(a.b1, k)
        BY <1>3 DEF ArcInv, Apart, ArcHit, Has
    <2>2. ArcAccess(Cap, a, k) = Promote(EvictIfFull(Cap, g, k), k)
        BY <1>3, <2>1 DEF ArcAccess
    <2>3. g = [a EXCEPT !.p = g.p] /\ g.p \in 0 .. Cap
        BY TargetIs DEF ArcInv
    <2> HIDE DEF g
    <2>4. ArcInv(g) /\ g.b2 = a.b2 /\ Holds(g) = Holds(a) /\ Resident(g) = Resident(a)
        BY <2>3, Retargeted
    <2>5. ArcInv(Promote(EvictIfFull(Cap, g, k), k)) /\ Exchanged(Promote(EvictIfFull(Cap, g, k), k), g, k)
        BY <1>3, <2>4, GhostStep DEF Has
    <2> QED BY <2>2, <2>4, <2>5 DEF Exchanged
<1> QED BY <1>1, <1>2, <1>3, MissStep

(* A write takes the key out of all four lists.                            *)
LEMMA InvalidateStep ==
    ASSUME NEW a, ArcInv(a), NEW k \in Objects
    PROVE  ArcInv(ArcInvalidate(a, k))
<1> DEFINE b == ArcInvalidate(a, k)
           t1 == Without(a.t1, k)  t2 == Without(a.t2, k)  b1 == Without(a.b1, k)  b2 == Without(a.b2, k)
<1>1. /\ a \in ArcCache /\ a.p \in 0 .. Cap /\ Apart(a)
      /\ IsList(a.t1, Objects) /\ IsList(a.t2, Objects) /\ IsList(a.b1, Objects) /\ IsList(a.b2, Objects)
    BY DEF ArcInv, ArcTyped
<1>2. /\ Dropped(t1, a.t1, k, Objects) /\ Dropped(t2, a.t2, k, Objects)
      /\ Dropped(b1, a.b1, k, Objects) /\ Dropped(b2, a.b2, k, Objects)
    BY <1>1, WithoutIs
<1>3. b = [a EXCEPT !.t1 = t1, !.t2 = t2, !.b1 = b1, !.b2 = b2]
    BY DEF ArcInvalidate
<1> HIDE DEF b, t1, t2, b1, b2
<1>4. t1 \in Seq(Objects) /\ t2 \in Seq(Objects) /\ b1 \in Seq(Objects) /\ b2 \in Seq(Objects)
    BY <1>2 DEF Dropped, IsList
<1>5. b \in ArcCache /\ b.t1 = t1 /\ b.t2 = t2 /\ b.b1 = b1 /\ b.b2 = b2 /\ b.p = a.p
    BY <1>1, <1>3, <1>4 DEF ArcCache
<1>6. ArcTyped(b)
    BY <1>1, <1>2, <1>5 DEF ArcTyped, Dropped
<1>7. Lens(a) /\ Lens(b)
    BY <1>6, ArcLens DEF ArcInv
<1>8. /\ Range(t1) \subseteq Range(a.t1) /\ Range(t2) \subseteq Range(a.t2)
      /\ Range(b1) \subseteq Range(a.b1) /\ Range(b2) \subseteq Range(a.b2)
    BY <1>2 DEF Dropped, Less
<1>9. Apart(b)
    BY <1>1, <1>5, <1>8 DEF Apart
<1>10. T1(b) <= T1(a) /\ T2(b) <= T2(a) /\ B1(b) <= B1(a) /\ B2(b) <= B2(a)
    <2>1. ASSUME NEW q, NEW r, Len(q) \in Nat, Dropped(r, q, k, Objects) PROVE Len(r) <= Len(q)
        BY <2>1 DEF Dropped, Less
    <2>2. Len(a.t1) \in Nat /\ Len(a.t2) \in Nat /\ Len(a.b1) \in Nat /\ Len(a.b2) \in Nat
        BY <1>7 DEF Lens, T1, T2, B1, B2
    <2>3. Len(t1) <= Len(a.t1) /\ Len(t2) <= Len(a.t2) /\ Len(b1) <= Len(a.b1) /\ Len(b2) <= Len(a.b2)
        BY <1>2, <2>1, <2>2
    <2> QED BY <1>5, <2>3 DEF T1, T2, B1, B2
<1>11. Sized(b)
    BY <1>7, <1>10, SizesAre, TraceAssumption DEF ArcInv, Sized, Lens
<1> QED BY <1>6, <1>9, <1>11 DEF ArcInv, b

(* The inductive invariant.                                                *)
ArcSafe == ArcInv(arc)

LEMMA ArcStep == ArcSafe /\ [ArcNext]_arc => ArcSafe'
<1> SUFFICES ASSUME ArcInv(arc), [ArcNext]_arc PROVE ArcInv(arc')
    BY DEF ArcSafe
<1>1. CASE UNCHANGED arc
    BY <1>1
<1>2. ASSUME NEW k \in Objects, ArcGet(k) PROVE ArcInv(arc')
    BY <1>2, AccessStep DEF ArcGet
<1>3. ASSUME NEW k \in Objects, ArcWrite(k) PROVE ArcInv(arc')
    BY <1>3, InvalidateStep DEF ArcWrite
<1> QED BY <1>1, <1>2, <1>3 DEF ArcNext

LEMMA ArcInit == ArcStart => ArcSafe
<1> SUFFICES ASSUME ArcStart PROVE ArcInv(arc)
    BY DEF ArcSafe
<1>1. arc.p = 0 /\ arc.t1 = <<>> /\ arc.t2 = <<>> /\ arc.b1 = <<>> /\ arc.b2 = <<>> /\ arc \in ArcCache
    BY EmptySeq DEF ArcStart, ArcNew, ArcCache
<1>2. IsList(<<>>, Objects) /\ Range(<<>>) = {} /\ Len(<<>>) = 0
    BY EmptyIs
<1>3. ArcTyped(arc)
    BY <1>1, <1>2, TraceAssumption DEF ArcTyped
<1>4. Apart(arc)
    BY <1>1, <1>2 DEF Apart
<1>5. T1(arc) = 0 /\ T2(arc) = 0 /\ B1(arc) = 0 /\ B2(arc) = 0
    BY <1>1, <1>2 DEF T1, T2, B1, B2
<1>6. Sized(arc)
    BY <1>5, SizesAre, TraceAssumption DEF Sized
<1> QED BY <1>3, <1>4, <1>6 DEF ArcInv

(* Lists that share no key, in one.                                        *)
LEMMA ConcatIs ==
    ASSUME NEW S, NEW q, NEW r, IsList(q, S), IsList(r, S), Range(q) \cap Range(r) = {}
    PROVE  IsList(q \o r, S) /\ Range(q \o r) = Range(q) \cup Range(r)
<1> DEFINE s == q \o r
<1>1. /\ q \in Seq(S) /\ Len(q) \in Nat /\ DOMAIN q = 1 .. Len(q)
      /\ r \in Seq(S) /\ Len(r) \in Nat /\ DOMAIN r = 1 .. Len(r)
    BY LenProperties DEF IsList
<1>2. /\ s \in Seq(S) /\ Len(s) = Len(q) + Len(r)
      /\ \A i \in 1 .. Len(q) + Len(r) : s[i] = IF i <= Len(q) THEN q[i] ELSE r[i - Len(q)]
    BY <1>1, ConcatProperties
<1> HIDE DEF s
<1>3. DOMAIN s = 1 .. Len(q) + Len(r)
    BY <1>2, LenProperties
<1>4. \A i \in DOMAIN q : i \in DOMAIN s /\ s[i] = q[i]
    BY <1>1, <1>2, <1>3
<1>5. \A i \in DOMAIN r : i + Len(q) \in DOMAIN s /\ s[i + Len(q)] = r[i]
    BY <1>1, <1>2, <1>3
<1>6. \A i \in DOMAIN s : (i \in DOMAIN q /\ s[i] = q[i]) \/ (i - Len(q) \in DOMAIN r /\ s[i] = r[i - Len(q)])
    BY <1>1, <1>2, <1>3
<1>7. Range(s) = Range(q) \cup Range(r)
    BY <1>4, <1>5, <1>6 DEF Range
<1>8. IsInjective(s)
    <2> SUFFICES ASSUME NEW i \in DOMAIN s, NEW j \in DOMAIN s, s[i] = s[j] PROVE i = j
        BY DEF IsInjective
    <2>1. i \in Int /\ j \in Int
        BY <1>3
    <2>2. CASE i \in DOMAIN q /\ s[i] = q[i]
        <3>1. s[i] \notin Range(r)
            BY <2>2 DEF Range
        <3>2. j \in DOMAIN q /\ s[j] = q[j]
            BY <3>1, <1>6 DEF Range
        <3> QED BY <2>2, <3>2 DEF IsList, IsInjective
    <2>3. CASE i - Len(q) \in DOMAIN r /\ s[i] = r[i - Len(q)]
        <3>1. s[i] \notin Range(q)
            BY <2>3 DEF Range
        <3>2. j - Len(q) \in DOMAIN r /\ s[j] = r[j - Len(q)]
            BY <3>1, <1>6 DEF Range
        <3>3. i - Len(q) = j - Len(q)
            BY <2>3, <3>2 DEF IsList, IsInjective
        <3> QED BY <1>1, <2>1, <3>3
    <2> QED BY <2>2, <2>3, <1>6
<1> QED BY <1>2, <1>7, <1>8 DEF IsList, s

(* The lists of arc.rs keep the bounds and the disjointness the paper      *)
(* gives them, writes and their holes included.                            *)
LEMMA ArcHoldsBounds == ArcSpec => []ArcWithinBounds
<1>1. ArcSafe => ArcWithinBounds
    <2> SUFFICES ASSUME ArcInv(arc) PROVE ArcWithinBounds
        BY DEF ArcSafe
    <2>1. /\ IsList(arc.t1, Objects) /\ IsList(arc.t2, Objects) /\ IsList(arc.b1, Objects) /\ IsList(arc.b2, Objects)
          /\ Apart(arc)
        BY DEF ArcInv, ArcTyped
    <2>2. IsList(arc.t1 \o arc.t2, Objects) /\ Range(arc.t1 \o arc.t2) = Range(arc.t1) \cup Range(arc.t2)
        BY <2>1, ConcatIs DEF Apart
    <2> DEFINE u == arc.t1 \o arc.t2
    <2> HIDE DEF u
    <2>3. IsList(u \o arc.b1, Objects) /\ Range(u \o arc.b1) = Range(u) \cup Range(arc.b1)
        BY <2>1, <2>2, ConcatIs DEF Apart, u
    <2> DEFINE v == u \o arc.b1
    <2> HIDE DEF v
    <2>4. IsList(v \o arc.b2, Objects)
        <3>1. Range(v) \cap Range(arc.b2) = {}
            BY <2>1, <2>2, <2>3 DEF Apart, u, v
        <3> QED BY <2>1, <2>3, <3>1, ConcatIs DEF v
    <2> QED BY <2>4 DEF ArcWithinBounds, ArcInv, ArcTyped, Sized, IsList, u, v
<1> QED BY <1>1, ArcInit, ArcStep, PTL DEF ArcSpec

(* A read of a cache with a hole gives up nothing, of a full one at most   *)
(* one object.                                                             *)
LEMMA ArcGivesUpOne == ArcSpec => OneForOne
<1> DEFINE Act == \A k \in Objects : ArcGet(k) =>
                     /\ k \in Held' /\ Held' \subseteq Held \cup {k}
                     /\ Resident(arc) < Cap => Held \subseteq Held'
                     /\ \E v \in Objects : Held \ {v} \subseteq Held'
<1>1. ArcSafe => Act
    <2> SUFFICES ASSUME ArcInv(arc), NEW k \in Objects, ArcGet(k)
                 PROVE  /\ k \in Held' /\ Held' \subseteq Held \cup {k}
                        /\ Resident(arc) < Cap => Held \subseteq Held'
                        /\ \E v \in Objects : Held \ {v} \subseteq Held'
        BY DEF ArcSafe
    <2>1. Exchanged(arc', arc, k)
        BY AccessStep DEF ArcGet
    <2> QED BY <2>1 DEF Exchanged, Held, Holds
<1>2. ArcSafe /\ [ArcNext]_arc => [Act]_arc
    BY <1>1
<1> HIDE DEF Act
<1>3. ArcSpec => [][Act]_arc
    BY <1>2, ArcInit, ArcStep, PTL DEF ArcSpec
<1> QED BY <1>3 DEF OneForOne, Act

(* arc.rs keeps the bounds of the paper across reads and writes, and gives *)
(* up nothing for them but the one object a read of a full cache costs.    *)
THEOREM ArcKeepsPromise == ArcSpec => ArcPromise
BY ArcHoldsBounds, ArcGivesUpOne DEF ArcPromise

-----------------------------------------------------------------------------
(* The segments of hybrid.rs: lists of entries, no two of one object.      *)

Cell == [id : Objects, pf : BOOLEAN]

Keyed(R) == \A e, f \in R : e.id = f.id => e = f

(* The prefetches of a set of entries that nobody has used.                *)
Lent(R) == { e \in R : e.pf }

LEMMA RangeFinite ==
    ASSUME NEW S, NEW q, IsList(q, S)
    PROVE  IsFiniteSet(Range(q)) /\ Cardinality(Range(q)) = Len(q)
<1>1. q \in Seq(S) /\ Len(q) \in Nat /\ DOMAIN q = 1 .. Len(q)
    BY LenProperties DEF IsList
<1>2. q \in [1 .. Len(q) -> Range(q)]
    BY <1>1 DEF Range
<1>3. q \in Surjection(1 .. Len(q), Range(q)) /\ q \in Injection(1 .. Len(q), Range(q))
    BY <1>1, <1>2 DEF Injection, Surjection, Range, IsList, IsInjective
<1>4. IsFiniteSet(1 .. Len(q)) /\ Cardinality(1 .. Len(q)) = Len(q)
    BY <1>1, FS_Interval
<1> QED BY <1>3, <1>4, FS_Surjection

LEMMA IdsAre ==
    ASSUME NEW q, IsList(q, Cell), NEW k
    PROVE  k \in Ids(q) <=> \E e \in Range(q) : e.id = k
BY DEF Ids, Range

LEMMA EntryIs ==
    ASSUME NEW q, IsList(q, Cell), Keyed(Range(q)), NEW e \in Range(q), NEW k, e.id = k
    PROVE  EntryOf(q, k) = e
BY DEF EntryOf, Keyed

(* The entry of an object is cut out of the segment it is in.              *)
LEMMA OthersIs ==
    ASSUME NEW q, IsList(q, Cell), Keyed(Range(q)), NEW k
    PROVE  /\ IsList(Others(q, k), Cell)
           /\ IF k \in Ids(q) THEN Less(Others(q, k), q, EntryOf(q, k)) /\ EntryOf(q, k).id = k
                              ELSE Others(q, k) = q
<1>1. q \in Seq(Cell) /\ Len(q) \in Nat /\ DOMAIN q = 1 .. Len(q)
    BY LenProperties DEF IsList
<1> DEFINE I == { i \in 1 .. Len(q) : q[i].id = k }
<1>2. CASE k \in Ids(q)
    <2>1. PICK i \in DOMAIN q : q[i].id = k
        BY <1>2 DEF Ids
    <2>2. I \in SUBSET Nat /\ I # {} /\ I \subseteq DOMAIN q
        BY <1>1, <2>1
    <2>3. Min(I) \in I
        BY <2>2, MinIs
    <2>4. SelectInSeq(q, LAMBDA e : e.id = k) = Min(I)
        BY <2>2 DEF SelectInSeq
    <2>5. Others(q, k) = RemoveAt(q, Min(I))
        BY <1>1, <2>1, <2>4 DEF Others, RemoveFirstMatch
    <2>6. Min(I) \in DOMAIN q /\ q[Min(I)].id = k /\ q[Min(I)] \in Range(q)
        BY <1>1, <2>3 DEF Range
    <2>7. EntryOf(q, k) = q[Min(I)]
        BY <2>6, EntryIs
    <2> QED BY <1>2, <2>5, <2>6, <2>7, RemoveAtIs
<1>3. CASE k \notin Ids(q)
    <2>1. ~ \E i \in 1 .. Len(q) : q[i].id = k
        BY <1>1, <1>3 DEF Ids
    <2>2. Others(q, k) = q
        BY <2>1 DEF Others, RemoveFirstMatch
    <2> QED BY <1>3, <2>2
<1> QED BY <1>2, <1>3

(* One entry more or less, and what it is owed.                            *)
LEMMA LentIs ==
    ASSUME NEW q, IsList(q, Cell)
    PROVE  Unused(q) = Cardinality(Lent(Range(q))) /\ IsFiniteSet(Lent(Range(q))) /\ Unused(q) \in Nat
<1>1. IsFiniteSet(Range(q))
    BY RangeFinite
<1>2. Lent(Range(q)) \in SUBSET Range(q)
    BY DEF Lent
<1>3. IsFiniteSet(Lent(Range(q)))
    BY <1>1, <1>2, FS_Subset
<1>4. Unused(q) = Cardinality(Lent(Range(q)))
    BY DEF Unused, Lent
<1> QED BY <1>3, <1>4, FS_CardinalityType

LEMMA LessOwed ==
    ASSUME NEW q, NEW r, NEW e, IsList(q, Cell), IsList(r, Cell), Less(r, q, e)
    PROVE  Unused(r) = Unused(q) - Credit(e) /\ Credit(e) \in {0, 1} /\ e \in Cell
<1>1. e \in Cell
    BY LenIs DEF Less
<1>2. CASE e.pf
    <2>1. Lent(Range(r)) = Lent(Range(q)) \ {e} /\ e \in Lent(Range(q))
        BY <1>2 DEF Less, Lent
    <2> QED BY <1>1, <1>2, <2>1, LentIs, FS_RemoveElement DEF Credit
<1>3. CASE ~e.pf
    <2>1. Lent(Range(r)) = Lent(Range(q))
        BY <1>3 DEF Less, Lent
    <2> QED BY <1>1, <1>3, <2>1, LentIs DEF Credit
<1> QED BY <1>2, <1>3

LEMMA MoreOwed ==
    ASSUME NEW q, NEW r, NEW e, IsList(q, Cell), IsList(r, Cell), More(r, q, e)
    PROVE  Unused(r) = Unused(q) + Credit(e) /\ Credit(e) \in {0, 1} /\ e \in Cell
<1>1. e \in Cell
    BY LenIs DEF More
<1>2. CASE e.pf
    <2>1. Lent(Range(r)) = Lent(Range(q)) \cup {e} /\ e \notin Lent(Range(q))
        BY <1>2 DEF More, Lent
    <2> QED BY <1>1, <1>2, <2>1, LentIs, FS_AddElement DEF Credit
<1>3. CASE ~e.pf
    <2>1. Lent(Range(r)) = Lent(Range(q))
        BY <1>3 DEF More, Lent
    <2> QED BY <1>1, <1>3, <2>1, LentIs DEF Credit
<1> QED BY <1>2, <1>3

(* A cache entry at the hot end of its segment, with its credit or not.    *)
Renewed(r, q, e, f) ==
    /\ e \in Range(q) /\ Range(r) = (Range(q) \ {e}) \cup {f} /\ Len(r) = Len(q)
    /\ Unused(r) = Unused(q) - Credit(e) + Credit(f)

LEMMA RenewIs ==
    ASSUME NEW q, IsList(q, Cell), Keyed(Range(q)), NEW k, k \in Ids(q), NEW f \in Cell, f.id = k
    PROVE  /\ IsList(Append(Others(q, k), f), Cell)
           /\ Renewed(Append(Others(q, k), f), q, EntryOf(q, k), f)
           /\ EntryOf(q, k) \in Range(q) /\ EntryOf(q, k).id = k
<1> DEFINE o == Others(q, k)  e == EntryOf(q, k)  r == Append(o, f)
<1>1. IsList(o, Cell) /\ Less(o, q, e) /\ e.id = k
    BY OthersIs
<1> HIDE DEF o, e
<1>2. f \notin Range(o)
    BY <1>1 DEF Less, Keyed
<1>3. IsList(r, Cell) /\ More(r, o, f)
    BY <1>1, <1>2, AppendIs
<1> HIDE DEF r
<1>4. Len(q) \in Nat /\ Unused(q) \in Nat
    BY LenIs, LentIs
<1>5. Unused(o) = Unused(q) - Credit(e) /\ Credit(e) \in {0, 1}
    BY <1>1, LessOwed
<1>6. Unused(r) = Unused(o) + Credit(f) /\ Credit(f) \in {0, 1}
    BY <1>1, <1>3, MoreOwed
<1>7. Unused(r) = Unused(q) - Credit(e) + Credit(f)
    BY <1>4, <1>5, <1>6
<1>8. Len(r) = Len(q) /\ Range(r) = (Range(q) \ {e}) \cup {f}
    BY <1>1, <1>3, <1>4 DEF Less, More
<1> QED BY <1>1, <1>3, <1>7, <1>8 DEF Renewed, Less, r, e, o

LEMMA TouchIs ==
    ASSUME NEW q, IsList(q, Cell), Keyed(Range(q)), NEW k \in Objects
    PROVE  /\ IsList(Touch(q, k), Cell) /\ Keyed(Range(Touch(q, k)))
           /\ Len(Touch(q, k)) = Len(q)
           /\ \A e \in Range(Touch(q, k)) : \E f \in Range(q) : f.id = e.id
           /\ \A e \in Range(q) : \E f \in Range(Touch(q, k)) : f.id = e.id
           /\ Unused(Touch(q, k)) = Unused(q) - (IF k \in Ids(q) THEN Credit(EntryOf(q, k)) ELSE 0)
<1> DEFINE r == Touch(q, k)  e == EntryOf(q, k)  f == Entry(k, FALSE)
<1>1. CASE k \in Ids(q)
    <2>1. f \in Cell /\ f.id = k /\ Credit(f) = 0
        BY DEF Entry, Cell, Credit
    <2>2. r = Append(Others(q, k), f)
        BY <1>1 DEF Touch
    <2> HIDE DEF f, r, e
    <2>3. IsList(r, Cell) /\ Renewed(r, q, e, f) /\ e \in Range(q) /\ e.id = k
        BY <1>1, <2>1, <2>2, RenewIs DEF e
    <2>4. Credit(e) \in {0, 1} /\ Unused(q) \in Nat
        BY LentIs DEF Credit
    <2>5. Unused(r) = Unused(q) - Credit(e)
        BY <2>1, <2>3, <2>4 DEF Renewed
    <2>6. Keyed(Range(r))
        BY <2>1, <2>3 DEF Keyed, Renewed
    <2> QED BY <1>1, <2>1, <2>3, <2>5, <2>6 DEF Renewed, e, r
<1>2. CASE k \notin Ids(q)
    <2>1. r = q
        BY <1>2 DEF Touch
    <2> QED BY <1>2, <2>1, LentIs
<1> QED BY <1>1, <1>2

LEMMA BumpIs ==
    ASSUME NEW q, IsList(q, Cell), Keyed(Range(q)), NEW k \in Objects
    PROVE  /\ IsList(Bump(q, k), Cell) /\ Range(Bump(q, k)) = Range(q)
           /\ Len(Bump(q, k)) = Len(q) /\ Unused(Bump(q, k)) = Unused(q)
<1> DEFINE r == Bump(q, k)  e == EntryOf(q, k)
<1>1. CASE k \in Ids(q)
    <2>1. r = Append(Others(q, k), e)
        BY <1>1 DEF Bump
    <2>2. e \in Range(q) /\ e.id = k
        BY <1>1, OthersIs DEF Less
    <2>3. e \in Cell
        BY <2>2, LenIs
    <2> HIDE DEF r, e
    <2>4. IsList(r, Cell) /\ Renewed(r, q, e, e)
        BY <1>1, <2>1, <2>2, <2>3, RenewIs DEF e
    <2>5. Credit(e) \in {0, 1} /\ Unused(q) \in Nat
        BY LentIs DEF Credit
    <2>6. Unused(r) = Unused(q)
        BY <2>4, <2>5 DEF Renewed
    <2> QED BY <2>2, <2>4, <2>6 DEF Renewed, r
<1>2. CASE k \notin Ids(q)
    <2>1. r = q
        BY <1>2 DEF Bump
    <2> QED BY <2>1
<1> QED BY <1>1, <1>2

-----------------------------------------------------------------------------
(* W-TinyLFU, and the LRU of the gated replay. No object is in both        *)
(* segments.                                                               *)

LfuCache == [window : Seq(Cell), main : Seq(Cell), wcap : Nat, mcap : Nat, drops : Nat]

All(w) == Range(w.window) \cup Range(w.main)

LfuLists(w) ==
    /\ w \in LfuCache /\ w.wcap >= 1 /\ w.wcap + w.mcap = Floor2(Cap)
    /\ IsList(w.window, Cell) /\ IsList(w.main, Cell)
    /\ Keyed(All(w)) /\ Range(w.window) \cap Range(w.main) = {}

WLen(w) == Len(w.window)
MLen(w) == Len(w.main)
WOwed(w) == Unused(w.window)
MOwed(w) == Unused(w.main)

LfuInv(w) == LfuLists(w) /\ WLen(w) <= w.wcap /\ MLen(w) <= w.mcap

(* What the cache still owes, the drops it has counted included.           *)
Debt(w) == WOwed(w) + MOwed(w) + w.drops

LEMMA LfuNumbers ==
    ASSUME NEW w, LfuLists(w)
    PROVE  /\ WLen(w) \in Nat /\ MLen(w) \in Nat /\ WOwed(w) \in Nat /\ MOwed(w) \in Nat
           /\ w.drops \in Nat /\ w.wcap \in Nat /\ w.mcap \in Nat
           /\ Keyed(Range(w.window)) /\ Keyed(Range(w.main)) /\ Debt(w) \in Nat
<1>1. WLen(w) \in Nat /\ MLen(w) \in Nat
    BY LenIs DEF LfuLists, WLen, MLen
<1>2. WOwed(w) \in Nat /\ MOwed(w) \in Nat
    BY LentIs DEF LfuLists, WOwed, MOwed
<1>3. Keyed(Range(w.window)) /\ Keyed(Range(w.main))
    BY DEF LfuLists, Keyed, All
<1>4. w.drops \in Nat /\ w.wcap \in Nat /\ w.mcap \in Nat
    BY DEF LfuLists, LfuCache
<1> QED BY <1>1, <1>2, <1>3, <1>4 DEF Debt

LEMMA HasIs ==
    ASSUME NEW w, LfuLists(w), NEW k
    PROVE  /\ WHas(w, k) <=> \E e \in All(w) : e.id = k
           /\ k \in Ids(w.window) => k \notin Ids(w.main)
<1>1. k \in Ids(w.window) <=> \E e \in Range(w.window) : e.id = k
    BY IdsAre DEF LfuLists
<1>2. k \in Ids(w.main) <=> \E e \in Range(w.main) : e.id = k
    BY IdsAre DEF LfuLists
<1> QED BY <1>1, <1>2 DEF WHas, All, LfuLists, Keyed

(* The credit of an object is that of its entry, in whichever segment.     *)
LEMMA FirstUseIs ==
    ASSUME NEW w, LfuLists(w), NEW k
    PROVE  (IF WFirstUse(w, k) THEN 1 ELSE 0)
              = (IF k \in Ids(w.window) THEN Credit(EntryOf(w.window, k)) ELSE 0)
                + (IF k \in Ids(w.main) THEN Credit(EntryOf(w.main, k)) ELSE 0)
<1> DEFINE both == w.window \o w.main
<1>1. IsList(both, Cell) /\ Range(both) = All(w) /\ Keyed(Range(both))
    <2>1. IsList(w.window, Cell) /\ IsList(w.main, Cell) /\ Range(w.window) \cap Range(w.main) = {}
        BY DEF LfuLists
    <2>2. IsList(both, Cell) /\ Range(both) = All(w)
        BY <2>1, ConcatIs DEF All
    <2> QED BY <2>2 DEF LfuLists
<1> HIDE DEF both
<1>2. WFirstUse(w, k) <=> WHas(w, k) /\ EntryOf(both, k).pf
    BY DEF WFirstUse, both
<1>3. CASE k \in Ids(w.window)
    <2> DEFINE e == EntryOf(w.window, k)
    <2>1. e \in Range(w.window) /\ e.id = k
        BY <1>3, LfuNumbers, OthersIs DEF LfuLists, Less
    <2> HIDE DEF e
    <2>2. EntryOf(both, k) = e
        BY <1>1, <2>1, EntryIs DEF All
    <2>3. WHas(w, k) /\ k \notin Ids(w.main)
        BY <1>3, HasIs DEF WHas
    <2> QED BY <1>2, <1>3, <2>2, <2>3 DEF Credit, e
<1>4. CASE k \in Ids(w.main)
    <2> DEFINE e == EntryOf(w.main, k)
    <2>1. e \in Range(w.main) /\ e.id = k
        BY <1>4, LfuNumbers, OthersIs DEF LfuLists, Less
    <2> HIDE DEF e
    <2>2. EntryOf(both, k) = e
        BY <1>1, <2>1, EntryIs DEF All
    <2>3. WHas(w, k) /\ k \notin Ids(w.window)
        BY <1>4, HasIs DEF WHas
    <2> QED BY <1>2, <1>4, <2>2, <2>3 DEF Credit, e
<1>5. CASE k \notin Ids(w.window) /\ k \notin Ids(w.main)
    BY <1>2, <1>5 DEF WHas
<1> QED BY <1>3, <1>4, <1>5

(* A read of an object takes its credit and moves it, and nothing else.    *)
LEMMA AccessIs ==
    ASSUME NEW w, LfuInv(w), NEW k \in Objects
    PROVE  /\ LfuInv(WAccess(w, k))
           /\ \A o \in Objects : WHas(WAccess(w, k), o) <=> WHas(w, o)
           /\ Debt(WAccess(w, k)) = Debt(w) - (IF WFirstUse(w, k) THEN 1 ELSE 0)
<1> DEFINE b == WAccess(w, k)  q == Touch(w.window, k)  m == Touch(w.main, k)
           cw == IF k \in Ids(w.window) THEN Credit(EntryOf(w.window, k)) ELSE 0
           cm == IF k \in Ids(w.main) THEN Credit(EntryOf(w.main, k)) ELSE 0
<1>1. /\ w \in LfuCache /\ IsList(w.window, Cell) /\ IsList(w.main, Cell)
      /\ Keyed(Range(w.window)) /\ Keyed(Range(w.main))
      /\ WLen(w) \in Nat /\ MLen(w) \in Nat /\ WOwed(w) \in Nat /\ MOwed(w) \in Nat /\ w.drops \in Nat
    BY LfuNumbers DEF LfuInv, LfuLists
<1>2. cw \in {0, 1} /\ cm \in {0, 1}
    BY DEF Credit
<1>3. /\ IsList(q, Cell) /\ Len(q) = WLen(w) /\ Keyed(Range(q)) /\ Unused(q) = WOwed(w) - cw
      /\ \A e \in Range(q) : \E f \in Range(w.window) : f.id = e.id
      /\ \A e \in Range(w.window) : \E f \in Range(q) : f.id = e.id
    BY <1>1, TouchIs DEF WLen, WOwed
<1>4. /\ IsList(m, Cell) /\ Len(m) = MLen(w) /\ Keyed(Range(m)) /\ Unused(m) = MOwed(w) - cm
      /\ \A e \in Range(m) : \E f \in Range(w.main) : f.id = e.id
      /\ \A e \in Range(w.main) : \E f \in Range(m) : f.id = e.id
    BY <1>1, TouchIs DEF MLen, MOwed
<1>5. (IF WFirstUse(w, k) THEN 1 ELSE 0) = cw + cm
    BY FirstUseIs DEF LfuInv
<1>6. b = [w EXCEPT !.window = q, !.main = m]
    BY DEF WAccess
<1> HIDE DEF b, q, m, cw, cm
<1>7. /\ b \in LfuCache /\ b.window = q /\ b.main = m
      /\ b.wcap = w.wcap /\ b.mcap = w.mcap /\ b.drops = w.drops
    BY <1>1, <1>3, <1>4, <1>6 DEF LfuCache, IsList
<1>8. \A e \in Range(q), f \in Range(m) : e.id # f.id
    <2> SUFFICES ASSUME NEW e \in Range(q), NEW f \in Range(m), e.id = f.id PROVE FALSE
        OBVIOUS
    <2>1. PICK g \in Range(w.window) : g.id = e.id
        BY <1>3
    <2>2. PICK h \in Range(w.main) : h.id = f.id
        BY <1>4
    <2> QED BY <2>1, <2>2 DEF LfuInv, LfuLists, Keyed, All
<1>9. LfuLists(b)
    <2>1. Keyed(All(b))
        BY <1>3, <1>4, <1>7, <1>8 DEF Keyed, All
    <2>2. Range(b.window) \cap Range(b.main) = {}
        BY <1>7, <1>8
    <2> QED BY <1>3, <1>4, <1>7, <2>1, <2>2 DEF LfuInv, LfuLists
<1>10. LfuInv(b)
    BY <1>3, <1>4, <1>7, <1>9 DEF LfuInv, WLen, MLen
<1>11. Debt(b) = Debt(w) - (cw + cm)
    <2>1. WOwed(b) = WOwed(w) - cw /\ MOwed(b) = MOwed(w) - cm
        BY <1>3, <1>4, <1>7 DEF WOwed, MOwed
    <2> QED BY <1>1, <1>2, <1>7, <2>1 DEF Debt
<1>12. ASSUME NEW o \in Objects PROVE WHas(b, o) <=> WHas(w, o)
    <2>1. WHas(b, o) <=> \E e \in Range(q) \cup Range(m) : e.id = o
        BY <1>7, <1>9, HasIs DEF All
    <2>2. WHas(w, o) <=> \E e \in Range(w.window) \cup Range(w.main) : e.id = o
        BY HasIs DEF LfuInv, All
    <2> QED BY <1>3, <1>4, <2>1, <2>2
<1> QED BY <1>5, <1>10, <1>11, <1>12 DEF b

(* What the window pushes out goes to main, or is dropped and counted.     *)
LEMMA DemotedIs ==
    ASSUME NEW w, LfuInv(w), NEW e \in Cell, NEW hotter \in BOOLEAN, \A f \in All(w) : f.id # e.id
    PROVE  LfuInv(Demoted(w, e, hotter)) /\ Debt(Demoted(w, e, hotter)) = Debt(w) + Credit(e)
<1> DEFINE b == Demoted(w, e, hotter)
<1>1. /\ w \in LfuCache /\ IsList(w.window, Cell) /\ IsList(w.main, Cell) /\ Keyed(All(w))
      /\ WLen(w) \in Nat /\ MLen(w) \in Nat /\ WOwed(w) \in Nat /\ MOwed(w) \in Nat
      /\ w.drops \in Nat /\ w.mcap \in Nat /\ MLen(w) <= w.mcap /\ MLen(w) = Len(w.main)
    BY LfuNumbers DEF LfuInv, LfuLists, MLen
<1>2. Credit(e) \in {0, 1} /\ e \notin Range(w.main) /\ e \notin Range(w.window)
    BY DEF Credit, All
<1>3. CASE MLen(w) < w.mcap
    <2> DEFINE m == Append(w.main, e)
    <2>1. IsList(m, Cell) /\ More(m, w.main, e)
        BY <1>1, <1>2, AppendIs
    <2>2. b = [w EXCEPT !.main = m]
        <3>1. Len(w.main) < w.mcap /\ ~(Len(w.main) >= w.mcap)
            BY <1>1, <1>3
        <3> QED BY <3>1 DEF Demoted
    <2> HIDE DEF b, m
    <2>3. /\ b \in LfuCache /\ b.window = w.window /\ b.main = m
          /\ b.wcap = w.wcap /\ b.mcap = w.mcap /\ b.drops = w.drops
        BY <1>1, <2>1, <2>2 DEF LfuCache, IsList
    <2>4. WLen(b) = WLen(w) /\ MLen(b) = MLen(w) + 1 /\ WOwed(b) = WOwed(w)
        BY <2>1, <2>3 DEF WLen, MLen, WOwed, More
    <2>5. MOwed(b) = MOwed(w) + Credit(e)
        BY <1>1, <2>1, <2>3, MoreOwed DEF MOwed
    <2>6. LfuLists(b)
        <3>1. Keyed(All(b))
            BY <2>1, <2>3, <1>1 DEF Keyed, All, More
        <3>2. Range(b.window) \cap Range(b.main) = {}
            BY <1>2, <2>1, <2>3 DEF LfuInv, LfuLists, More
        <3> QED BY <2>1, <2>3, <3>1, <3>2 DEF LfuInv, LfuLists
    <2>7. MLen(b) <= w.mcap
        BY <1>1, <1>3, <2>4
    <2>8. LfuInv(b)
        BY <2>3, <2>4, <2>6, <2>7 DEF LfuInv
    <2>9. Debt(b) = Debt(w) + Credit(e)
        BY <1>1, <1>2, <2>3, <2>4, <2>5 DEF Debt
    <2> QED BY <2>8, <2>9 DEF b
<1>4. CASE ~(MLen(w) < w.mcap) /\ w.main # <<>> /\ hotter
    <2> DEFINE h == Head(w.main)  t == Tail(w.main)  m == Append(t, e)
    <2>1. IsList(t, Cell) /\ Less(t, w.main, h)
        BY <1>1, <1>4, TailIs
    <2>2. e \notin Range(t)
        BY <1>2, <2>1 DEF Less
    <2>3. IsList(m, Cell) /\ More(m, t, e)
        BY <2>1, <2>2, AppendIs
    <2>4. b = [w EXCEPT !.main = m, !.drops = w.drops + Credit(h)]
        <3>1. ~(Len(w.main) < w.mcap) /\ Len(w.main) >= w.mcap
            BY <1>1, <1>4
        <3> QED BY <1>4, <3>1 DEF Demoted
    <2> HIDE DEF b, h, t, m
    <2>5. Credit(h) \in {0, 1}
        BY DEF Credit
    <2>6. /\ b \in LfuCache /\ b.window = w.window /\ b.main = m
          /\ b.wcap = w.wcap /\ b.mcap = w.mcap /\ b.drops = w.drops + Credit(h)
        <3>1. w.drops + Credit(h) \in Nat
            BY <1>1, <2>5
        <3> QED BY <1>1, <2>3, <2>4, <3>1 DEF LfuCache, IsList
    <2>7. WLen(b) = WLen(w) /\ MLen(b) = MLen(w) /\ WOwed(b) = WOwed(w)
        <3>1. Len(t) = MLen(w) - 1 /\ Len(m) = Len(t) + 1
            BY <1>1, <2>1, <2>3 DEF Less, More
        <3>2. MLen(b) = Len(m) /\ WLen(b) = WLen(w) /\ WOwed(b) = WOwed(w)
            BY <2>6 DEF WLen, MLen, WOwed
        <3> QED BY <1>1, <3>1, <3>2
    <2>8. MOwed(b) = MOwed(w) - Credit(h) + Credit(e)
        <3>1. Unused(t) = MOwed(w) - Credit(h)
            BY <1>1, <2>1, LessOwed DEF MOwed
        <3>2. Unused(m) = Unused(t) + Credit(e)
            BY <2>1, <2>3, MoreOwed
        <3> QED BY <2>6, <3>1, <3>2 DEF MOwed
    <2>9. LfuLists(b)
        <3>1. Keyed(All(b))
            BY <2>1, <2>3, <2>6, <1>1 DEF Keyed, All, More, Less
        <3>2. Range(b.window) \cap Range(b.main) = {}
            BY <1>2, <2>1, <2>3, <2>6 DEF LfuInv, LfuLists, More, Less
        <3> QED BY <2>3, <2>6, <3>1, <3>2 DEF LfuInv, LfuLists
    <2>10. LfuInv(b)
        BY <2>6, <2>7, <2>9 DEF LfuInv
    <2>11. Debt(b) = Debt(w) + Credit(e)
        <3>1. b.drops = w.drops + Credit(h) /\ WOwed(b) = WOwed(w) /\ MOwed(b) = MOwed(w) - Credit(h) + Credit(e)
            BY <2>6, <2>7, <2>8
        <3>2. Credit(h) \in Int /\ Credit(e) \in Int
            BY <1>2, <2>5
        <3>3. WOwed(w) \in Int /\ MOwed(w) \in Int /\ w.drops \in Int
            BY <1>1
        <3> QED BY <3>1, <3>2, <3>3 DEF Debt
    <2> QED BY <2>10, <2>11 DEF b
<1>5. CASE ~(MLen(w) < w.mcap) /\ ~(w.main # <<>> /\ hotter)
    <2>1. b = [w EXCEPT !.drops = w.drops + Credit(e)]
        <3>1. ~(Len(w.main) < w.mcap)
            BY <1>1, <1>5
        <3> QED BY <1>5, <3>1 DEF Demoted
    <2> HIDE DEF b
    <2>2. /\ b \in LfuCache /\ b.window = w.window /\ b.main = w.main
          /\ b.wcap = w.wcap /\ b.mcap = w.mcap /\ b.drops = w.drops + Credit(e)
        <3>1. w.drops + Credit(e) \in Nat
            BY <1>1, <1>2
        <3> QED BY <1>1, <2>1, <3>1 DEF LfuCache
    <2>3. WLen(b) = WLen(w) /\ MLen(b) = MLen(w) /\ WOwed(b) = WOwed(w) /\ MOwed(b) = MOwed(w)
        BY <2>2 DEF WLen, MLen, WOwed, MOwed
    <2>4. LfuInv(b)
        BY <2>2, <2>3 DEF LfuInv, LfuLists, All
    <2>5. Debt(b) = Debt(w) + Credit(e)
        BY <1>1, <1>2, <2>2, <2>3 DEF Debt
    <2> QED BY <2>4, <2>5 DEF b
<1> QED BY <1>3, <1>4, <1>5

(* An insert of what is there only moves it; of what is not it adds one.   *)
LEMMA InsertIs ==
    ASSUME NEW w, LfuInv(w), NEW k \in Objects, NEW pf \in BOOLEAN, NEW hotter \in BOOLEAN
    PROVE  /\ LfuInv(WInsert(w, k, pf, hotter))
           /\ Debt(WInsert(w, k, pf, hotter)) = Debt(w) + (IF pf /\ ~WHas(w, k) THEN 1 ELSE 0)
<1> DEFINE b == WInsert(w, k, pf, hotter)
<1>1. /\ w \in LfuCache /\ IsList(w.window, Cell) /\ IsList(w.main, Cell)
      /\ Keyed(Range(w.window)) /\ Keyed(Range(w.main)) /\ Keyed(All(w))
      /\ WLen(w) \in Nat /\ MLen(w) \in Nat /\ WOwed(w) \in Nat /\ MOwed(w) \in Nat
      /\ w.drops \in Nat /\ w.wcap \in Nat /\ w.wcap >= 1 /\ WLen(w) <= w.wcap /\ Debt(w) \in Nat
    BY LfuNumbers DEF LfuInv, LfuLists
<1>2. CASE WHas(w, k)
    <2> DEFINE q == Bump(w.window, k)  m == Bump(w.main, k)
    <2>1. IsList(q, Cell) /\ Range(q) = Range(w.window) /\ Len(q) = WLen(w) /\ Unused(q) = WOwed(w)
        BY <1>1, BumpIs DEF WLen, WOwed
    <2>2. IsList(m, Cell) /\ Range(m) = Range(w.main) /\ Len(m) = MLen(w) /\ Unused(m) = MOwed(w)
        BY <1>1, BumpIs DEF MLen, MOwed
    <2>3. b = [w EXCEPT !.window = q, !.main = m]
        BY <1>2 DEF WInsert
    <2> HIDE DEF b, q, m
    <2>4. /\ b \in LfuCache /\ b.window = q /\ b.main = m
          /\ b.wcap = w.wcap /\ b.mcap = w.mcap /\ b.drops = w.drops
        BY <1>1, <2>1, <2>2, <2>3 DEF LfuCache, IsList
    <2>5. WLen(b) = WLen(w) /\ MLen(b) = MLen(w) /\ WOwed(b) = WOwed(w) /\ MOwed(b) = MOwed(w)
        BY <2>1, <2>2, <2>4 DEF WLen, MLen, WOwed, MOwed
    <2>6. LfuInv(b)
        BY <2>1, <2>2, <2>4, <2>5 DEF LfuInv, LfuLists, All
    <2>7. Debt(b) = Debt(w)
        BY <2>4, <2>5 DEF Debt
    <2> QED BY <1>1, <1>2, <2>6, <2>7 DEF b
<1>3. CASE ~WHas(w, k)
    <2> DEFINE e == Entry(k, pf)  q == Append(w.window, e)
    <2>1. e \in Cell /\ e.id = k /\ Credit(e) = IF pf THEN 1 ELSE 0
        BY DEF Entry, Cell, Credit
    <2> HIDE DEF e
    <2>2. \A f \in All(w) : f.id # k
        BY <1>3, HasIs DEF LfuInv
    <2>3. e \notin Range(w.window) /\ e \notin Range(w.main)
        BY <2>1, <2>2 DEF All
    <2>4. IsList(q, Cell) /\ More(q, w.window, e)
        BY <1>1, <2>1, <2>3, AppendIs
    <2>5. Unused(q) = WOwed(w) + Credit(e) /\ Len(q) = WLen(w) + 1
        BY <1>1, <2>4, MoreOwed DEF WOwed, WLen, More
    <2>6. b = IF Len(q) <= w.wcap THEN [w EXCEPT !.window = q]
              ELSE Demoted([w EXCEPT !.window = Tail(q)], Head(q), hotter)
        BY <1>3 DEF WInsert, e
    <2> HIDE DEF b, q
    <2>7. /\ Range(q) = Range(w.window) \cup {e} /\ Keyed(Range(q) \cup Range(w.main))
          /\ Range(q) \cap Range(w.main) = {}
        BY <1>1, <2>1, <2>2, <2>3, <2>4 DEF More, Keyed, All, LfuInv, LfuLists
    <2>8. CASE Len(q) <= w.wcap
        <3>1. b = [w EXCEPT !.window = q]
            BY <2>6, <2>8
        <3>2. /\ b \in LfuCache /\ b.window = q /\ b.main = w.main
              /\ b.wcap = w.wcap /\ b.mcap = w.mcap /\ b.drops = w.drops
            BY <1>1, <2>4, <3>1 DEF LfuCache, IsList
        <3>3. WLen(b) = Len(q) /\ MLen(b) = MLen(w) /\ WOwed(b) = Unused(q) /\ MOwed(b) = MOwed(w)
            BY <3>2 DEF WLen, MLen, WOwed, MOwed
        <3>4. LfuInv(b)
            BY <2>4, <2>7, <2>8, <3>2, <3>3 DEF LfuInv, LfuLists, All
        <3>5. Debt(b) = Debt(w) + Credit(e)
            BY <1>1, <2>1, <2>5, <3>2, <3>3 DEF Debt
        <3> QED BY <1>3, <2>1, <3>4, <3>5 DEF b
    <2>9. CASE ~(Len(q) <= w.wcap)
        <3> DEFINE h == Head(q)  t == Tail(q)  v == [w EXCEPT !.window = t]
        <3>1. q # <<>>
            BY <2>4, <2>7, EmptyIs
        <3>2. IsList(t, Cell) /\ Less(t, q, h) /\ h \in Cell
            BY <2>4, <3>1, TailIs
        <3>3. b = Demoted(v, h, hotter)
            BY <2>6, <2>9
        <3>4. Unused(t) = Unused(q) - Credit(h) /\ Credit(h) \in {0, 1} /\ Len(t) = WLen(w)
            <4>1. Unused(t) = Unused(q) - Credit(h) /\ Credit(h) \in {0, 1}
                BY <2>4, <3>2, LessOwed
            <4>2. Len(t) = Len(q) - 1
                BY <3>2 DEF Less
            <4> QED BY <1>1, <2>5, <4>1, <4>2
        <3> HIDE DEF h, t
        <3>5. /\ v \in LfuCache /\ v.window = t /\ v.main = w.main
              /\ v.wcap = w.wcap /\ v.mcap = w.mcap /\ v.drops = w.drops
            BY <1>1, <3>2 DEF LfuCache, IsList
        <3> HIDE DEF v
        <3>6. WLen(v) = WLen(w) /\ MLen(v) = MLen(w) /\ WOwed(v) = Unused(t) /\ MOwed(v) = MOwed(w)
            BY <3>4, <3>5 DEF WLen, MLen, WOwed, MOwed
        <3>7. Range(t) = Range(q) \ {h} /\ h \in Range(q)
            BY <3>2 DEF Less
        <3>8. Keyed(All(v)) /\ Range(v.window) \cap Range(v.main) = {}
            BY <2>7, <3>5, <3>7 DEF Keyed, All
        <3>9. LfuInv(v)
            BY <3>2, <3>5, <3>6, <3>8 DEF LfuInv, LfuLists
        <3>10. \A f \in All(v) : f.id # h.id
            BY <2>7, <3>5, <3>7 DEF Keyed, All
        <3>11. LfuInv(b) /\ Debt(b) = Debt(v) + Credit(h)
            BY <3>2, <3>3, <3>9, <3>10, DemotedIs
        <3>12. Debt(v) = Debt(w) + Credit(e) - Credit(h)
            <4>1. WOwed(v) = WOwed(w) + Credit(e) - Credit(h)
                <5>1. Credit(e) \in Int /\ Credit(h) \in Int /\ WOwed(w) \in Int
                    BY <1>1, <2>1, <3>4
                <5>2. WOwed(v) = Unused(q) - Credit(h) /\ Unused(q) = WOwed(w) + Credit(e)
                    BY <2>5, <3>4, <3>6
                <5> QED BY <5>1, <5>2
            <4> QED BY <1>1, <2>1, <3>4, <3>5, <3>6, <4>1 DEF Debt
        <3>13. Debt(b) = Debt(w) + Credit(e)
            BY <1>1, <2>1, <3>4, <3>11, <3>12
        <3> QED BY <1>3, <2>1, <3>11, <3>13 DEF b
    <2> QED BY <2>8, <2>9
<1> QED BY <1>2, <1>3

(* A write takes the object out, and counts the credit it still had.       *)
LEMMA ForgottenIs ==
    ASSUME NEW q, IsList(q, Cell), Keyed(Range(q)), NEW k
    PROVE  /\ IsList(Others(q, k), Cell) /\ Range(Others(q, k)) \subseteq Range(q)
           /\ Len(Others(q, k)) <= Len(q)
           /\ Unused(Others(q, k)) = Unused(q) - (IF k \in Ids(q) THEN Credit(EntryOf(q, k)) ELSE 0)
<1> DEFINE r == Others(q, k)
<1>1. IsList(r, Cell)
    BY OthersIs
<1>2. Len(q) \in Nat /\ Unused(q) \in Nat
    BY LenIs, LentIs
<1>3. CASE k \in Ids(q)
    <2>1. Less(r, q, EntryOf(q, k))
        BY <1>3, OthersIs
    <2>2. Unused(r) = Unused(q) - Credit(EntryOf(q, k))
        BY <1>1, <2>1, LessOwed
    <2> QED BY <1>1, <1>2, <1>3, <2>1, <2>2 DEF Less
<1>4. CASE k \notin Ids(q)
    <2>1. r = q
        BY <1>4, OthersIs
    <2> QED BY <1>1, <1>2, <1>4, <2>1
<1> QED BY <1>3, <1>4

LEMMA WInvalidateIs ==
    ASSUME NEW w, LfuInv(w), NEW k \in Objects
    PROVE  LfuInv(WInvalidate(w, k)) /\ Debt(WInvalidate(w, k)) = Debt(w)
<1> DEFINE b == WInvalidate(w, k)  q == Others(w.window, k)  m == Others(w.main, k)
           cw == IF k \in Ids(w.window) THEN Credit(EntryOf(w.window, k)) ELSE 0
           cm == IF k \in Ids(w.main) THEN Credit(EntryOf(w.main, k)) ELSE 0
           first == IF WFirstUse(w, k) THEN 1 ELSE 0
<1>1. /\ w \in LfuCache /\ IsList(w.window, Cell) /\ IsList(w.main, Cell)
      /\ Keyed(Range(w.window)) /\ Keyed(Range(w.main)) /\ Keyed(All(w))
      /\ WLen(w) \in Nat /\ MLen(w) \in Nat /\ WOwed(w) \in Nat /\ MOwed(w) \in Nat /\ w.drops \in Nat
      /\ WLen(w) <= w.wcap /\ MLen(w) <= w.mcap /\ w.wcap \in Nat /\ w.mcap \in Nat
    BY LfuNumbers DEF LfuInv, LfuLists
<1>2. cw \in {0, 1} /\ cm \in {0, 1}
    BY DEF Credit
<1>3. IsList(q, Cell) /\ Range(q) \subseteq Range(w.window) /\ Len(q) <= WLen(w) /\ Unused(q) = WOwed(w) - cw
    BY <1>1, ForgottenIs DEF WLen, WOwed
<1>4. IsList(m, Cell) /\ Range(m) \subseteq Range(w.main) /\ Len(m) <= MLen(w) /\ Unused(m) = MOwed(w) - cm
    BY <1>1, ForgottenIs DEF MLen, MOwed
<1>5. first = cw + cm
    BY FirstUseIs DEF LfuInv
<1>6. b = [w EXCEPT !.window = q, !.main = m, !.drops = w.drops + first]
    BY DEF WInvalidate
<1> HIDE DEF b, q, m, cw, cm, first
<1>7. w.drops + first \in Nat
    BY <1>1, <1>2, <1>5
<1>8. /\ b \in LfuCache /\ b.window = q /\ b.main = m
      /\ b.wcap = w.wcap /\ b.mcap = w.mcap /\ b.drops = w.drops + first
    BY <1>1, <1>3, <1>4, <1>6, <1>7 DEF LfuCache, IsList
<1>9. LfuLists(b)
    <2>1. Keyed(All(b)) /\ Range(b.window) \cap Range(b.main) = {}
        BY <1>1, <1>3, <1>4, <1>8 DEF Keyed, All, LfuInv, LfuLists
    <2> QED BY <1>3, <1>4, <1>8, <2>1 DEF LfuInv, LfuLists
<1>10. WLen(b) = Len(q) /\ MLen(b) = Len(m) /\ WOwed(b) = Unused(q) /\ MOwed(b) = Unused(m)
    BY <1>8 DEF WLen, MLen, WOwed, MOwed
<1>11. LfuInv(b)
    <2>1. Len(q) \in Nat /\ Len(m) \in Nat
        BY <1>3, <1>4, LenIs
    <2>2. Len(q) <= w.wcap /\ Len(m) <= w.mcap
        BY <1>1, <1>3, <1>4, <2>1
    <2> QED BY <1>8, <1>9, <1>10, <2>2 DEF LfuInv
<1>12. Debt(b) = Debt(w)
    <2>1. b.drops = w.drops + (cw + cm) /\ WOwed(b) = WOwed(w) - cw /\ MOwed(b) = MOwed(w) - cm
        BY <1>3, <1>4, <1>5, <1>8, <1>10
    <2>2. cw \in Int /\ cm \in Int /\ w.drops \in Int /\ WOwed(w) \in Int /\ MOwed(w) \in Int
        BY <1>1, <1>2
    <2> QED BY <2>1, <2>2 DEF Debt
<1> QED BY <1>11, <1>12 DEF b

LEMMA DrainedIs ==
    ASSUME NEW w, LfuInv(w)
    PROVE  LfuInv(Drained(w)) /\ Drained(w).drops = 0 /\ Debt(Drained(w)) = Debt(w) - w.drops
<1> DEFINE b == Drained(w)
<1>1. w \in LfuCache /\ WOwed(w) \in Nat /\ MOwed(w) \in Nat /\ w.drops \in Nat
    BY LfuNumbers DEF LfuInv, LfuLists
<1>2. b = [w EXCEPT !.drops = 0]
    BY DEF Drained
<1> HIDE DEF b
<1>3. /\ b \in LfuCache /\ b.window = w.window /\ b.main = w.main
      /\ b.wcap = w.wcap /\ b.mcap = w.mcap /\ b.drops = 0
    BY <1>1, <1>2 DEF LfuCache
<1>4. WLen(b) = WLen(w) /\ MLen(b) = MLen(w) /\ WOwed(b) = WOwed(w) /\ MOwed(b) = MOwed(w)
    BY <1>3 DEF WLen, MLen, WOwed, MOwed
<1>5. LfuInv(b)
    BY <1>3, <1>4 DEF LfuInv, LfuLists, All
<1>6. Debt(b) = Debt(w) - w.drops
    BY <1>1, <1>3, <1>4 DEF Debt
<1> QED BY <1>3, <1>5, <1>6 DEF b

(* The inductive invariant: nothing is counted as dropped between two      *)
(* events, and what is owed is what the entries say.                       *)
LfuSafe == LfuInv(lfu) /\ lfu.drops = 0 /\ owed = Debt(lfu)

LEMMA LfuInit == LfuStart => LfuSafe
<1> SUFFICES ASSUME LfuStart PROVE LfuSafe
    OBVIOUS
<1> DEFINE F == Floor2(Cap)  W == Max({F \div 10, 1})
<1>1. F \in Nat /\ F >= 2
    <2>1. F = IF Cap >= 2 THEN Cap ELSE 2
        BY MaxOfTwo, TraceAssumption DEF Floor2
    <2> QED BY <2>1, TraceAssumption
<1> HIDE DEF F
<1>2. W \in Nat /\ W >= 1 /\ W <= F - 1
    <2>1. F \div 10 \in Nat /\ F \div 10 <= F - 1
        BY <1>1
    <2>2. W = IF F \div 10 >= 1 THEN F \div 10 ELSE 1
        BY <2>1, MaxOfTwo
    <2> QED BY <1>1, <2>1, <2>2
<1> HIDE DEF W
<1>3. Max({F - W, 1}) = F - W /\ F - W \in Nat
    <2>1. Max({F - W, 1}) = IF F - W >= 1 THEN F - W ELSE 1
        BY <1>1, <1>2, MaxOfTwo
    <2> QED BY <1>1, <1>2, <2>1
<1>4. IsList(<<>>, Cell) /\ Range(<<>>) = {} /\ Len(<<>>) = 0
    BY EmptyIs
<1>5. Unused(<<>>) = 0
    <2>1. Lent(Range(<<>>)) = {}
        BY <1>4 DEF Lent
    <2> QED BY <1>4, <2>1, LentIs, FS_EmptySet
<1>6. /\ lfu \in LfuCache /\ lfu.window = <<>> /\ lfu.main = <<>> /\ lfu.drops = 0
      /\ lfu.wcap >= 1 /\ lfu.wcap + lfu.mcap = F
    <2>1. CASE gated
        <3>1. lfu = [window |-> <<>>, main |-> <<>>, wcap |-> F, mcap |-> 0, drops |-> 0]
            BY <2>1 DEF LfuStart, LruNew, F
        <3>2. <<>> \in Seq(Cell)
            BY <1>4 DEF IsList
        <3> QED BY <1>1, <3>1, <3>2 DEF LfuCache
    <2>2. CASE ~gated
        <3>1. lfu = [window |-> <<>>, main |-> <<>>, wcap |-> W, mcap |-> F - W, drops |-> 0]
            BY <1>3, <2>2 DEF LfuStart, WLfuNew, F, W
        <3>2. <<>> \in Seq(Cell)
            BY <1>4 DEF IsList
        <3> QED BY <1>1, <1>2, <1>3, <3>1, <3>2 DEF LfuCache
    <2> QED BY <2>1, <2>2
<1>7. LfuLists(lfu)
    BY <1>4, <1>6 DEF LfuLists, Keyed, All, F
<1>8. WLen(lfu) = 0 /\ MLen(lfu) = 0 /\ WOwed(lfu) = 0 /\ MOwed(lfu) = 0
    BY <1>4, <1>5, <1>6 DEF WLen, MLen, WOwed, MOwed
<1>9. lfu.mcap \in Nat /\ lfu.wcap \in Nat
    BY <1>6 DEF LfuCache
<1> QED BY <1>6, <1>7, <1>8, <1>9 DEF LfuSafe, LfuInv, Debt, LfuStart

(* The fetched object: a hit, or an entry without credit.                  *)
LEMMA FetchedIs ==
    ASSUME NEW k \in Objects, NEW hot \in BOOLEAN, LfuInv(lfu)
    PROVE  LfuInv(Fetched(k, hot)) /\ Debt(Fetched(k, hot)) = Debt(lfu) - (IF WFirstUse(lfu, k) THEN 1 ELSE 0)
<1> DEFINE seen == WAccess(lfu, k)  used == IF WFirstUse(lfu, k) THEN 1 ELSE 0
<1>1. LfuInv(seen) /\ Debt(seen) = Debt(lfu) - used
    BY AccessIs
<1>2. Debt(seen) \in Nat /\ FALSE \in BOOLEAN
    BY <1>1, LfuNumbers DEF LfuInv
<1>3. Fetched(k, hot) = IF WHas(lfu, k) THEN seen ELSE WInsert(seen, k, FALSE, hot)
    BY DEF Fetched
<1> HIDE DEF seen, used
<1>4. CASE WHas(lfu, k)
    BY <1>1, <1>3, <1>4 DEF used
<1>5. CASE ~WHas(lfu, k)
    <2> DEFINE b == WInsert(seen, k, FALSE, hot)
               more == IF FALSE /\ ~WHas(seen, k) THEN 1 ELSE 0
    <2>1. LfuInv(b) /\ Debt(b) = Debt(seen) + more
        BY <1>1, <1>2, InsertIs
    <2>2. Fetched(k, hot) = b /\ more = 0
        BY <1>3, <1>5
    <2> HIDE DEF b, more
    <2>3. Debt(b) = Debt(seen)
        BY <1>2, <2>1, <2>2
    <2> QED BY <1>1, <2>1, <2>2, <2>3 DEF used
<1> QED BY <1>4, <1>5

LEMMA LfuStep == LfuSafe /\ [LfuNext]_lfuVars => LfuSafe'
<1> SUFFICES ASSUME LfuSafe, [LfuNext]_lfuVars PROVE LfuSafe'
    OBVIOUS
<1>1. LfuInv(lfu) /\ owed = Debt(lfu) /\ Debt(lfu) \in Nat
    BY LfuNumbers DEF LfuSafe, LfuInv
<1>2. ASSUME NEW k \in Objects, NEW pid \in Objects \cup {None}, NEW hot1 \in BOOLEAN, NEW hot2 \in BOOLEAN,
             LfuGet(k, pid, hot1, hot2)
      PROVE  LfuSafe'
    <2> DEFINE fetched == Fetched(k, hot1)
               used == IF WFirstUse(lfu, k) THEN 1 ELSE 0
               issues == LfuIssues(k, pid, fetched)
               after == IF issues THEN WInsert(fetched, pid, TRUE, hot2) ELSE fetched
               new == IF issues THEN 1 ELSE 0
    <2>1. LfuInv(fetched) /\ Debt(fetched) = Debt(lfu) - used
        BY <1>1, FetchedIs
    <2>2. lfu' = Drained(after) /\ owed' = owed + new - used - after.drops
        BY <1>2 DEF LfuGet, Tally
    <2>3. used \in {0, 1} /\ new \in {0, 1} /\ Debt(fetched) \in Nat
        BY <2>1, LfuNumbers DEF LfuInv
    <2>4. issues => pid \in Objects /\ ~WHas(fetched, pid)
        BY DEF LfuIssues
    <2> HIDE DEF fetched, used, issues
    <2>5. LfuInv(after) /\ Debt(after) = Debt(fetched) + new
        <3>1. CASE issues
            <4>1. TRUE \in BOOLEAN /\ after = WInsert(fetched, pid, TRUE, hot2)
                BY <3>1
            <4>2. LfuInv(after) /\ Debt(after) = Debt(fetched) + 1
                BY <2>1, <2>4, <3>1, <4>1, InsertIs
            <4> QED BY <3>1, <4>2
        <3>2. CASE ~issues
            BY <2>1, <2>3, <3>2
        <3> QED BY <3>1, <3>2
    <2> HIDE DEF after, new
    <2>6. LfuInv(lfu') /\ lfu'.drops = 0 /\ Debt(lfu') = Debt(after) - after.drops
        BY <2>2, <2>5, DrainedIs
    <2>7. after.drops \in Nat
        BY <2>5, LfuNumbers DEF LfuInv
    <2>8. owed' = Debt(lfu')
        BY <1>1, <2>1, <2>2, <2>3, <2>5, <2>6, <2>7
    <2> QED BY <2>6, <2>8 DEF LfuSafe
<1>3. ASSUME NEW k \in Objects, LfuWrite(k) PROVE LfuSafe'
    <2> DEFINE after == WInvalidate(lfu, k)
    <2>1. LfuInv(after) /\ Debt(after) = Debt(lfu)
        BY <1>1, WInvalidateIs
    <2>2. lfu' = Drained(after) /\ owed' = owed + 0 - 0 - after.drops
        BY <1>3 DEF LfuWrite, Tally
    <2> HIDE DEF after
    <2>3. LfuInv(lfu') /\ lfu'.drops = 0 /\ Debt(lfu') = Debt(after) - after.drops /\ after.drops \in Nat
        BY <2>1, <2>2, DrainedIs, LfuNumbers DEF LfuInv
    <2>4. owed' = Debt(lfu')
        BY <1>1, <2>1, <2>2, <2>3
    <2> QED BY <2>3, <2>4 DEF LfuSafe
<1>4. CASE UNCHANGED lfuVars
    BY <1>4 DEF lfuVars, LfuSafe
<1> QED BY <1>2, <1>3, <1>4 DEF LfuNext

(* Both segments as one list.                                              *)
LEMMA EntriesAre ==
    ASSUME LfuSafe
    PROVE  IsList(Entries, Cell) /\ Range(Entries) = All(lfu) /\ Keyed(All(lfu))
<1>1. IsList(lfu.window, Cell) /\ IsList(lfu.main, Cell) /\ Range(lfu.window) \cap Range(lfu.main) = {} /\ Keyed(All(lfu))
    BY DEF LfuSafe, LfuInv, LfuLists
<1>2. IsList(Entries, Cell) /\ Range(Entries) = All(lfu)
    BY <1>1, ConcatIs DEF Entries, All
<1> QED BY <1>1, <1>2

(* Neither segment of hybrid.rs exceeds its share, nor both the capacity,  *)
(* and no object is held twice.                                            *)
LEMMA LfuHoldsBounds == LfuSpec => []LfuWithinBounds
<1>1. LfuSafe => LfuWithinBounds
    <2> SUFFICES ASSUME LfuSafe PROVE LfuWithinBounds
        OBVIOUS
    <2>1. WLen(lfu) \in Nat /\ MLen(lfu) \in Nat /\ lfu.wcap \in Nat /\ lfu.mcap \in Nat
        BY LfuNumbers DEF LfuSafe, LfuInv
    <2>2. WLen(lfu) <= lfu.wcap /\ MLen(lfu) <= lfu.mcap /\ lfu.wcap + lfu.mcap = Floor2(Cap)
        BY DEF LfuSafe, LfuInv, LfuLists
    <2>3. Len(Entries) = WLen(lfu) + MLen(lfu)
        <3>1. lfu.window \in Seq(Cell) /\ lfu.main \in Seq(Cell)
            BY DEF LfuSafe, LfuInv, LfuLists, IsList
        <3> QED BY <3>1, ConcatProperties DEF Entries, WLen, MLen
    <2>4. Len(Entries) <= Floor2(Cap)
        BY <2>1, <2>2, <2>3
    <2>5. \A i, j \in DOMAIN Entries : Entries[i].id = Entries[j].id => i = j
        <3> SUFFICES ASSUME NEW i \in DOMAIN Entries, NEW j \in DOMAIN Entries, Entries[i].id = Entries[j].id
                     PROVE  i = j
            OBVIOUS
        <3>1. Entries[i] \in Range(Entries) /\ Entries[j] \in Range(Entries)
            BY DEF Range
        <3>2. Entries[i] = Entries[j]
            BY <3>1, EntriesAre DEF Keyed
        <3> QED BY <3>2, EntriesAre DEF IsList, IsInjective
    <2> QED BY <2>2, <2>4, <2>5 DEF LfuWithinBounds, WLen, MLen
<1> QED BY <1>1, LfuInit, LfuStep, PTL DEF LfuSpec

(* Every prefetch of run_hybrid and run_lead_gated is used, dropped or     *)
(* still there, and counted once.                                          *)
LEMMA LfuLosesNone == LfuSpec => []LfuAccounted
<1>1. LfuSafe => LfuAccounted
    <2> SUFFICES ASSUME LfuSafe PROVE LfuAccounted
        OBVIOUS
    <2> DEFINE X == Lent(Range(lfu.window))  Y == Lent(Range(lfu.main))  Z == Lent(Range(Entries))
    <2>1. IsList(lfu.window, Cell) /\ IsList(lfu.main, Cell) /\ Range(lfu.window) \cap Range(lfu.main) = {}
        BY DEF LfuSafe, LfuInv, LfuLists
    <2>2. WOwed(lfu) = Cardinality(X) /\ IsFiniteSet(X) /\ MOwed(lfu) = Cardinality(Y) /\ IsFiniteSet(Y)
        BY <2>1, LentIs DEF WOwed, MOwed
    <2>3. Unused(Entries) = Cardinality(Z)
        BY EntriesAre, LentIs
    <2>4. Z = X \cup Y /\ X \cap Y = {}
        BY <2>1, EntriesAre DEF All, Lent
    <2> HIDE DEF X, Y, Z
    <2>5. Cardinality(Z) = WOwed(lfu) + MOwed(lfu) - 0
        BY <2>2, <2>4, FS_Union, FS_EmptySet
    <2>6. owed = WOwed(lfu) + MOwed(lfu) + 0 /\ WOwed(lfu) \in Nat /\ MOwed(lfu) \in Nat
        BY LfuNumbers DEF LfuSafe, LfuInv, Debt
    <2>7. owed = Unused(Entries)
        BY <2>3, <2>5, <2>6
    <2> QED BY <2>7 DEF LfuAccounted
<1> QED BY <1>1, LfuInit, LfuStep, PTL DEF LfuSpec

(* run_hybrid and run_lead_gated hold every object once and count every    *)
(* prefetch once, whatever the sketch and the predictor say.               *)
THEOREM LfuCountsTrue == LfuSpec => []LfuCounted
<1>1. LfuWithinBounds /\ LfuAccounted => LfuCounted
    BY DEF LfuCounted
<1> QED BY <1>1, LfuHoldsBounds, LfuLosesNone, PTL

-----------------------------------------------------------------------------
(* The contended link. What landed by a time is a number of transfers; the *)
(* invariant bounds what lands between any two times, of all the flights   *)
(* and of the prefetches alone.                                            *)

Flight == [id : Objects, ready : Nat, pf : BOOLEAN]

Upto(F, x) == { f \in F : f.ready <= x }
Ahead(F) == { f \in F : f.pf }
Work(F, x) == Transfer * Cardinality(Upto(F, x))

Paced(F, slack) ==
    \A x, y \in Nat : x <= y => Work(F, y) - Work(F, x) < y - x + slack

Distinct(F) == \A f, g \in F : f.ready = g.ready => f = g

FlightsOk(F, demand, any) ==
    /\ F \in SUBSET Flight /\ IsFiniteSet(F) /\ demand \in Nat /\ any \in Nat /\ demand <= any
    /\ Distinct(F) /\ \A f \in F : f.ready > 0
    /\ \A f \in F : f.ready <= any /\ (~f.pf => f.ready <= demand)
    /\ F = {} => any = 0
    /\ F # {} => \E f \in F : f.ready = any
    /\ Paced(F, 2 * Transfer) /\ Paced(Ahead(F), Transfer)

LEMMA WorkIs ==
    ASSUME NEW F, IsFiniteSet(F), NEW x
    PROVE  /\ Work(F, x) \in Nat /\ IsFiniteSet(Upto(F, x)) /\ Cardinality(Upto(F, x)) \in Nat
           /\ IsFiniteSet(Ahead(F))
<1>1. Upto(F, x) \in SUBSET F /\ Ahead(F) \in SUBSET F
    BY DEF Upto, Ahead
<1>2. IsFiniteSet(Upto(F, x)) /\ IsFiniteSet(Ahead(F))
    BY <1>1, FS_Subset
<1>3. Cardinality(Upto(F, x)) \in Nat
    BY <1>2, FS_CardinalityType
<1> QED BY <1>2, <1>3, LinkAssumption DEF Work

LEMMA TimesIs ==
    ASSUME NEW m \in Nat, NEW n \in Nat
    PROVE  /\ Transfer * (m + 1) = Transfer * m + Transfer
           /\ Transfer * (m + n) = Transfer * m + Transfer * n
           /\ Transfer * (m - 2) = Transfer * m - 2 * Transfer
           /\ Transfer * m \in Nat
BY LinkAssumption

(* Flights that are renamed one to one are as many.                        *)
LEMMA AsMany ==
    ASSUME NEW F, IsFiniteSet(F), NEW S \in SUBSET F, NEW c, \A f, g \in F : c[f] = c[g] => f = g
    PROVE  Cardinality({ c[f] : f \in S }) = Cardinality(S) /\ IsFiniteSet({ c[f] : f \in S })
<1> DEFINE R == { c[f] : f \in S }  h == [f \in S |-> c[f]]
<1>1. h \in [S -> R] /\ \A f \in S : h[f] = c[f]
    OBVIOUS
<1>2. \A r \in R : \E f \in S : h[f] = r
    BY <1>1
<1>3. \A f, g \in S : h[f] = h[g] => f = g
    BY <1>1
<1> HIDE DEF h, R
<1>4. h \in Surjection(S, R) /\ h \in Injection(S, R)
    <2>1. IsInjective(h)
        BY <1>1, <1>3 DEF IsInjective
    <2>2. h \in [S -> R]
        BY <1>1
    <2> QED BY <1>2, <2>1, <2>2 DEF Surjection, Injection
<1>5. IsFiniteSet(S)
    BY FS_Subset
<1>6. IsFiniteSet(R) /\ Cardinality(R) = Cardinality(S)
    BY <1>4, <1>5, FS_Surjection
<1> QED BY <1>6 DEF R

(* One flight more, after or among the others.                             *)
LEMMA OneMore ==
    ASSUME NEW F, IsFiniteSet(F), NEW n, n \notin F, n.ready \in Nat, NEW x \in Nat
    PROVE  Work(F \cup {n}, x) = Work(F, x) + (IF n.ready <= x THEN Transfer ELSE 0)
<1>1. IsFiniteSet(Upto(F, x)) /\ n \notin Upto(F, x) /\ Cardinality(Upto(F, x)) \in Nat /\ Work(F, x) \in Nat
    BY WorkIs DEF Upto
<1>2. CASE n.ready <= x
    <2>1. Upto(F \cup {n}, x) = Upto(F, x) \cup {n}
        BY <1>2 DEF Upto
    <2>2. Cardinality(Upto(F \cup {n}, x)) = Cardinality(Upto(F, x)) + 1
        BY <1>1, <2>1, FS_AddElement
    <2>3. Work(F \cup {n}, x) = Work(F, x) + Transfer
        BY <1>1, <2>2, TimesIs DEF Work
    <2> QED BY <1>2, <2>3
<1>3. CASE ~(n.ready <= x)
    <2>1. Upto(F \cup {n}, x) = Upto(F, x)
        BY <1>3 DEF Upto
    <2> QED BY <1>1, <1>3, <2>1 DEF Work
<1> QED BY <1>2, <1>3

(* By the time the last has landed, all have.                              *)
LEMMA AllLanded ==
    ASSUME NEW F, IsFiniteSet(F), NEW a \in Nat, NEW x \in Nat, a <= x, \A f \in F : f.ready \in Nat /\ f.ready <= a
    PROVE  Work(F, x) = Work(F, a)
<1>1. Upto(F, x) = Upto(F, a)
    BY DEF Upto
<1> QED BY <1>1 DEF Work

(* A flight that the link starts when it is free keeps the pace.           *)
LEMMA PacedTop ==
    ASSUME NEW F, IsFiniteSet(F), NEW a \in Nat, \A f \in F : f.ready \in Nat /\ f.ready <= a,
           NEW slack \in Nat, slack >= Transfer, Paced(F, slack),
           NEW n, n.ready \in Nat, n.ready >= a + Transfer
    PROVE  Paced(F \cup {n}, slack)
<1>1. Transfer \in Nat /\ Transfer > 0
    BY LinkAssumption
<1>2. n \notin F
    BY <1>1
<1> SUFFICES ASSUME NEW x \in Nat, NEW y \in Nat, x <= y
             PROVE  Work(F \cup {n}, y) - Work(F \cup {n}, x) < y - x + slack
    BY DEF Paced
<1> DEFINE r == n.ready  wx == Work(F, x)  wy == Work(F, y)  wa == Work(F, a)
           vx == Work(F \cup {n}, x)  vy == Work(F \cup {n}, y)
<1>3. r \in Nat /\ r >= a + Transfer
    OBVIOUS
<1>4. wx \in Nat /\ wy \in Nat /\ wa \in Nat
    BY WorkIs
<1>5. vx = wx + (IF r <= x THEN Transfer ELSE 0) /\ vy = wy + (IF r <= y THEN Transfer ELSE 0)
    BY <1>2, OneMore
<1>6. wy - wx < y - x + slack /\ (x <= a => wa - wx < a - x + slack)
    BY DEF Paced
<1>7. (a <= x => wx = wa) /\ (a <= y => wy = wa)
    BY AllLanded
<1> HIDE DEF r, wx, wy, wa, vx, vy
<1>8. vy - vx < y - x + slack
    <2>1. CASE r <= x
        <3>1. vx = wx + Transfer /\ vy = wy + Transfer
            BY <1>3, <1>5, <2>1
        <3> QED BY <1>1, <1>4, <1>6, <3>1
    <2>2. CASE ~(r <= x) /\ r <= y
        <3>1. vx = wx /\ vy = wa + Transfer /\ x < r
            BY <1>1, <1>3, <1>4, <1>5, <1>7, <2>2
        <3>2. CASE x <= a
            <4>1. wa - wx < a - x + slack
                BY <1>6, <3>2
            <4> QED BY <1>1, <1>3, <1>4, <2>2, <3>1, <4>1
        <3>3. CASE ~(x <= a)
            <4>1. wx = wa
                BY <1>7, <3>3
            <4> QED BY <1>1, <1>3, <1>4, <2>2, <3>1, <4>1
        <3> QED BY <3>2, <3>3
    <2>3. CASE ~(r <= y)
        <3>1. vx = wx /\ vy = wy
            BY <1>1, <1>3, <1>4, <1>5, <2>3
        <3> QED BY <1>6, <3>1
    <2> QED BY <2>1, <2>2, <2>3
<1> QED BY <1>8 DEF vx, vy

(* The replay moves on.                                                    *)
LEMMA ElapsedIs ==
    ASSUME NEW x \in Nat, NEW d \in Nat
    PROVE  /\ Elapsed(x, d) \in Nat /\ (x > d => Elapsed(x, d) = x - d)
           /\ (x <= d => Elapsed(x, d) = 0)
<1>1. Elapsed(x, d) = IF x - d >= 0 THEN x - d ELSE 0
    BY MaxOfTwo DEF Elapsed
<1> QED BY <1>1

Later(F, d) == { Nearer(f, d) : f \in { g \in F : g.ready > d } }

LEMMA PacedLater ==
    ASSUME NEW F \in SUBSET Flight, IsFiniteSet(F), NEW d \in Nat, NEW slack \in Nat, Paced(F, slack)
    PROVE  Paced(Later(F, d), slack)
<1> DEFINE K == { g \in F : g.ready > d }
           c == [f \in K |-> [f EXCEPT !.ready = f.ready - d]]
<1>1. IsFiniteSet(K) /\ K \subseteq Flight
    <2>1. K \in SUBSET F
        OBVIOUS
    <2> QED BY <2>1, FS_Subset
<1>2. \A f \in K : c[f] \in Flight /\ c[f].id = f.id /\ c[f].pf = f.pf /\ c[f].ready = f.ready - d
    BY DEF Flight
<1>3. \A f, g \in K : c[f] = c[g] => f = g
    <2> SUFFICES ASSUME NEW f \in K, NEW g \in K, c[f] = c[g] PROVE f = g
        OBVIOUS
    <2>1. f \in Flight /\ g \in Flight
        BY <1>1
    <2>2. f.id = g.id /\ f.pf = g.pf /\ f.ready - d = g.ready - d
        BY <1>2
    <2>3. f.ready = g.ready
        BY <2>1, <2>2 DEF Flight
    <2> QED BY <2>1, <2>2, <2>3 DEF Flight
<1>4. Later(F, d) = { c[f] : f \in K }
    <2>1. ASSUME NEW f \in K PROVE Nearer(f, d) = c[f]
        <3>1. f.ready \in Nat /\ f.ready > d
            BY <1>1 DEF Flight
        <3>2. Elapsed(f.ready, d) = f.ready - d
            BY <3>1, ElapsedIs
        <3>3. c[f] = [f EXCEPT !.ready = f.ready - d]
            OBVIOUS
        <3> HIDE DEF c, K
        <3> QED BY <3>2, <3>3 DEF Nearer
    <2>2. Later(F, d) = { Nearer(f, d) : f \in K }
        BY DEF Later
    <2> HIDE DEF c, K
    <2> QED BY <2>1, <2>2
<1>5. ASSUME NEW x \in Nat PROVE Work(Later(F, d), x) = Work(F, x + d) - Work(F, d)
    <2> DEFINE S == { f \in K : f.ready <= x + d }
    <2>1. Upto(Later(F, d), x) = { c[f] : f \in S }
        <3>1. \A f \in K : c[f].ready <= x <=> f.ready <= x + d
            <4> TAKE f \in K
            <4>1. f.ready \in Nat /\ c[f].ready = f.ready - d
                BY <1>1, <1>2 DEF Flight
            <4> QED BY <4>1
        <3> HIDE DEF c, K
        <3> QED BY <1>4, <3>1 DEF Upto
    <2>2. Cardinality(Upto(Later(F, d), x)) = Cardinality(S) /\ IsFiniteSet(S)
        <3>1. S \in SUBSET K
            OBVIOUS
        <3> HIDE DEF c, K, S
        <3> QED BY <1>1, <1>3, <2>1, <3>1, AsMany, FS_Subset
    <2>3. Upto(F, x + d) = S \cup Upto(F, d) /\ S \cap Upto(F, d) = {}
        <3>1. \A f \in F : f.ready \in Nat
            BY DEF Flight
        <3> QED BY <3>1 DEF Upto
    <2> HIDE DEF S
    <2>4. Cardinality(Upto(F, x + d)) = Cardinality(S) + Cardinality(Upto(F, d)) - 0
        BY <2>2, <2>3, WorkIs, FS_Union, FS_EmptySet
    <2>5. Cardinality(S) \in Nat /\ Cardinality(Upto(F, d)) \in Nat
        BY <2>2, WorkIs, FS_CardinalityType
    <2>6. Work(F, x + d) = Transfer * Cardinality(S) + Work(F, d)
        <3>1. Cardinality(Upto(F, x + d)) = Cardinality(S) + Cardinality(Upto(F, d))
            BY <2>4, <2>5
        <3> QED BY <2>5, <3>1, TimesIs DEF Work
    <2>7. Work(Later(F, d), x) = Transfer * Cardinality(S) /\ Work(F, d) \in Nat /\ Transfer * Cardinality(S) \in Nat
        BY <2>2, <2>5, WorkIs, TimesIs DEF Work
    <2> QED BY <2>6, <2>7
<1> SUFFICES ASSUME NEW x \in Nat, NEW y \in Nat, x <= y
             PROVE  Work(Later(F, d), y) - Work(Later(F, d), x) < y - x + slack
    BY DEF Paced
<1>6. x + d \in Nat /\ y + d \in Nat /\ x + d <= y + d
    OBVIOUS
<1>7. Work(F, y + d) - Work(F, x + d) < (y + d) - (x + d) + slack
    BY <1>6 DEF Paced
<1>8. Work(F, y + d) \in Nat /\ Work(F, x + d) \in Nat /\ Work(F, d) \in Nat
    BY WorkIs
<1>9. Work(Later(F, d), y) = Work(F, y + d) - Work(F, d) /\ Work(Later(F, d), x) = Work(F, x + d) - Work(F, d)
    BY <1>5
<1> QED BY <1>7, <1>8, <1>9

(* A demand cuts in: every prefetch that lands after the cutoff is pushed  *)
(* back by one transfer, and so is all that lands after the cutoff.        *)
Cut(F, s) == { PushedBack(f, s) : f \in F }
Behind(F, s) == \A f \in F : f.ready > s => f.pf

LEMMA PushedIs ==
    ASSUME NEW f \in Flight, NEW s \in Nat, f.ready > s => f.pf
    PROVE  /\ PushedBack(f, s) \in Flight
           /\ PushedBack(f, s).id = f.id /\ PushedBack(f, s).pf = f.pf
           /\ PushedBack(f, s).ready = IF f.ready > s THEN f.ready + Transfer ELSE f.ready
<1>1. f.ready \in Nat /\ Transfer \in Nat
    BY LinkAssumption DEF Flight
<1>2. CASE f.ready > s
    <2>1. PushedBack(f, s) = [f EXCEPT !.ready = f.ready + Transfer]
        BY <1>2 DEF PushedBack
    <2>2. f.ready + Transfer \in Nat
        BY <1>1
    <2> QED BY <1>2, <2>1, <2>2 DEF Flight
<1>3. CASE ~(f.ready > s)
    <2>1. PushedBack(f, s) = f
        BY <1>3 DEF PushedBack
    <2> QED BY <1>3, <2>1 DEF Flight
<1> QED BY <1>2, <1>3

LEMMA CutApart ==
    ASSUME NEW F \in SUBSET Flight, NEW s \in Nat, Behind(F, s),
           NEW f \in F, NEW g \in F, PushedBack(f, s).ready = PushedBack(g, s).ready
    PROVE  f.ready = g.ready
<1>1. /\ PushedBack(f, s).ready = IF f.ready > s THEN f.ready + Transfer ELSE f.ready
      /\ PushedBack(g, s).ready = IF g.ready > s THEN g.ready + Transfer ELSE g.ready
    BY PushedIs DEF Behind
<1>2. f.ready \in Nat /\ g.ready \in Nat /\ Transfer \in Nat /\ Transfer > 0
    BY LinkAssumption DEF Flight
<1> DEFINE x == f.ready  y == g.ready
<1>3. (IF x > s THEN x + Transfer ELSE x) = (IF y > s THEN y + Transfer ELSE y)
    BY <1>1
<1>4. x \in Nat /\ y \in Nat
    BY <1>2
<1> HIDE DEF x, y
<1>5. x = y
    BY <1>2, <1>3, <1>4
<1> QED BY <1>5 DEF x, y

LEMMA CutWork ==
    ASSUME NEW F \in SUBSET Flight, IsFiniteSet(F), NEW s \in Nat, Behind(F, s), NEW x \in Nat, NEW z \in Nat,
           \A r \in Nat : (IF r > s THEN r + Transfer ELSE r) <= x <=> r <= z
    PROVE  Work(Cut(F, s), x) = Work(F, z)
<1> DEFINE c == [f \in F |-> PushedBack(f, s)]
<1>1. \A f \in F : c[f] = PushedBack(f, s) /\ (c[f].ready <= x <=> f.ready <= z)
    <2> TAKE f \in F
    <2>1. PushedBack(f, s).ready = IF f.ready > s THEN f.ready + Transfer ELSE f.ready
        BY PushedIs DEF Behind
    <2>2. f.ready \in Nat
        BY DEF Flight
    <2> QED BY <2>1, <2>2
<1>2. \A f, g \in F : c[f] = c[g] => f = g
    <2> SUFFICES ASSUME NEW f \in F, NEW g \in F, c[f] = c[g] PROVE f = g
        OBVIOUS
    <2>1. PushedBack(f, s) = PushedBack(g, s)
        BY <1>1
    <2>2. f.ready = g.ready
        BY <2>1, CutApart
    <2>3. f.id = g.id /\ f.pf = g.pf
        BY <2>1, PushedIs DEF Behind
    <2> QED BY <2>2, <2>3 DEF Flight
<1> HIDE DEF c
<1>3. Cut(F, s) = { c[f] : f \in F }
    BY <1>1 DEF Cut
<1>4. Upto(Cut(F, s), x) = { c[f] : f \in Upto(F, z) }
    BY <1>1, <1>3 DEF Upto
<1>5. Upto(F, z) \in SUBSET F
    BY DEF Upto
<1>6. Cardinality(Upto(Cut(F, s), x)) = Cardinality(Upto(F, z))
    BY <1>2, <1>4, <1>5, AsMany
<1> QED BY <1>6 DEF Work

LEMMA CutWorks ==
    ASSUME NEW F \in SUBSET Flight, IsFiniteSet(F), NEW s \in Nat, Behind(F, s), NEW x \in Nat
    PROVE  /\ x <= s => Work(Cut(F, s), x) = Work(F, x)
           /\ s <= x /\ x < s + Transfer => Work(Cut(F, s), x) = Work(F, s)
           /\ s + Transfer <= x => x - Transfer \in Nat /\ Work(Cut(F, s), x) = Work(F, x - Transfer)
<1>1. Transfer \in Nat /\ Transfer > 0
    BY LinkAssumption
<1>2. ASSUME x <= s PROVE Work(Cut(F, s), x) = Work(F, x)
    <2>1. \A r \in Nat : (IF r > s THEN r + Transfer ELSE r) <= x <=> r <= x
        BY <1>1, <1>2
    <2> QED BY <2>1, CutWork
<1>3. ASSUME s <= x, x < s + Transfer PROVE Work(Cut(F, s), x) = Work(F, s)
    <2>1. \A r \in Nat : (IF r > s THEN r + Transfer ELSE r) <= x <=> r <= s
        BY <1>1, <1>3
    <2> QED BY <2>1, CutWork
<1>4. ASSUME s + Transfer <= x PROVE x - Transfer \in Nat /\ Work(Cut(F, s), x) = Work(F, x - Transfer)
    <2>1. x - Transfer \in Nat
        BY <1>1, <1>4
    <2>2. \A r \in Nat : (IF r > s THEN r + Transfer ELSE r) <= x <=> r <= x - Transfer
        BY <1>1, <1>4
    <2> QED BY <2>1, <2>2, CutWork
<1> QED BY <1>2, <1>3, <1>4

LEMMA CutFinite ==
    ASSUME NEW F \in SUBSET Flight, IsFiniteSet(F), NEW s \in Nat, Behind(F, s)
    PROVE  IsFiniteSet(Cut(F, s)) /\ Cut(F, s) \in SUBSET Flight
<1> DEFINE c == [f \in F |-> PushedBack(f, s)]
<1>1. c \in Surjection(F, Cut(F, s))
    BY DEF Surjection, Cut
<1>2. IsFiniteSet(Cut(F, s))
    BY <1>1, FS_Surjection
<1>3. Cut(F, s) \in SUBSET Flight
    BY PushedIs DEF Cut, Behind
<1> QED BY <1>2, <1>3

(* After the cutoff all that lands is prefetched.                          *)
LEMMA AllAhead ==
    ASSUME NEW F \in SUBSET Flight, IsFiniteSet(F), NEW s \in Nat, Behind(F, s), NEW x \in Nat, s <= x
    PROVE  Work(F, x) - Work(F, s) = Work(Ahead(F), x) - Work(Ahead(F), s)
<1> DEFINE D == { f \in F : f.ready > s /\ f.ready <= x }
<1>1. \A f \in F : f.ready \in Nat
    BY DEF Flight
<1>2. D \in SUBSET F
    OBVIOUS
<1>3. IsFiniteSet(D) /\ Cardinality(D) \in Nat
    BY <1>2, FS_Subset, FS_CardinalityType
<1>4. Upto(F, x) = Upto(F, s) \cup D /\ Upto(F, s) \cap D = {}
    BY <1>1 DEF Upto
<1>5. Upto(Ahead(F), x) = Upto(Ahead(F), s) \cup D /\ Upto(Ahead(F), s) \cap D = {}
    BY <1>1 DEF Upto, Ahead, Behind
<1> HIDE DEF D
<1>6. ASSUME NEW G, IsFiniteSet(G), Upto(G, x) = Upto(G, s) \cup D, Upto(G, s) \cap D = {}
      PROVE  Work(G, x) = Work(G, s) + Transfer * Cardinality(D) /\ Work(G, s) \in Nat
    <2>1. Cardinality(Upto(G, x)) = Cardinality(Upto(G, s)) + Cardinality(D) - 0
        BY <1>3, <1>6, WorkIs, FS_Union, FS_EmptySet
    <2>2. Cardinality(Upto(G, s)) \in Nat /\ Work(G, s) \in Nat
        BY <1>6, WorkIs
    <2>3. Cardinality(Upto(G, x)) = Cardinality(Upto(G, s)) + Cardinality(D)
        BY <1>3, <2>1, <2>2
    <2> QED BY <1>3, <2>2, <2>3, TimesIs DEF Work
<1>7. IsFiniteSet(Ahead(F))
    BY WorkIs
<1>8. Work(F, x) = Work(F, s) + Transfer * Cardinality(D) /\ Work(F, s) \in Nat
    BY <1>4, <1>6
<1>9. Work(Ahead(F), x) = Work(Ahead(F), s) + Transfer * Cardinality(D) /\ Work(Ahead(F), s) \in Nat
    BY <1>5, <1>6, <1>7
<1>10. Transfer * Cardinality(D) \in Nat
    BY <1>3, TimesIs
<1> QED BY <1>8, <1>9, <1>10

(* The cut alone keeps the pace of the prefetches.                         *)
LEMMA PacedCut ==
    ASSUME NEW F \in SUBSET Flight, IsFiniteSet(F), NEW s \in Nat, Behind(F, s), Paced(F, Transfer)
    PROVE  Paced(Cut(F, s), Transfer)
<1> SUFFICES ASSUME NEW x \in Nat, NEW y \in Nat, x <= y
             PROVE  Work(Cut(F, s), y) - Work(Cut(F, s), x) < y - x + Transfer
    BY DEF Paced
<1> DEFINE T == Transfer  vx == Work(Cut(F, s), x)  vy == Work(Cut(F, s), y)
           w == [u \in Nat |-> Work(F, u)]
<1>1. T \in Nat /\ T > 0
    BY LinkAssumption
<1>2. \A u \in Nat : w[u] = Work(F, u) /\ w[u] \in Nat
    BY WorkIs
<1>3. \A u, v \in Nat : u <= v => w[v] - w[u] < v - u + T
    BY <1>2 DEF Paced
<1>4. /\ x <= s => vx = w[x]
      /\ s <= x /\ x < s + T => vx = w[s]
      /\ s + T <= x => x - T \in Nat /\ vx = w[x - T]
    BY <1>2, CutWorks
<1>5. /\ y <= s => vy = w[y]
      /\ s <= y /\ y < s + T => vy = w[s]
      /\ s + T <= y => y - T \in Nat /\ vy = w[y - T]
    BY <1>2, CutWorks
<1> HIDE DEF T, vx, vy, w
<1>6. vy - vx < y - x + T
    <2>1. CASE y <= s
        BY <1>1, <1>3, <1>4, <1>5, <2>1
    <2>2. CASE ~(y <= s) /\ y < s + T
        <3>1. vy = w[s]
            BY <1>1, <1>5, <2>2
        <3>2. CASE x <= s
            <4>1. w[s] - w[x] < s - x + T /\ vx = w[x]
                BY <1>3, <1>4, <3>2
            <4> QED BY <1>1, <1>2, <2>2, <3>1, <4>1
        <3>3. CASE ~(x <= s)
            <4>1. vx = w[s]
                BY <1>1, <1>4, <2>2, <3>3
            <4> QED BY <1>1, <1>2, <3>1, <4>1
        <3> QED BY <3>2, <3>3
    <2>3. CASE s + T <= y
        <3>1. vy = w[y - T] /\ y - T \in Nat /\ w[y - T] \in Nat
            BY <1>2, <1>5, <2>3
        <3>2. CASE x <= s
            <4>1. w[y - T] - w[x] < (y - T) - x + T /\ vx = w[x] /\ w[x] \in Nat
                BY <1>1, <1>2, <1>3, <1>4, <2>3, <3>1, <3>2
            <4> QED BY <1>1, <3>1, <4>1
        <3>3. CASE ~(x <= s) /\ x < s + T
            <4>1. w[y - T] - w[s] < (y - T) - s + T /\ vx = w[s] /\ w[s] \in Nat
                BY <1>1, <1>2, <1>3, <1>4, <2>3, <3>1, <3>3
            <4> QED BY <1>1, <3>1, <3>3, <4>1
        <3>4. CASE s + T <= x
            <4>1. x - T \in Nat /\ vx = w[x - T] /\ w[x - T] \in Nat
                BY <1>2, <1>4, <3>4
            <4>2. w[y - T] - w[x - T] < (y - T) - (x - T) + T
                BY <1>1, <1>3, <3>1, <4>1
            <4> QED BY <1>1, <3>1, <4>1, <4>2
        <3> QED BY <1>1, <3>2, <3>3, <3>4
    <2> QED BY <1>1, <2>1, <2>2, <2>3
<1> QED BY <1>6 DEF vx, vy, T

(* The demand that cut in lands at the cutoff and one transfer.            *)
LEMMA PacedJump ==
    ASSUME NEW F \in SUBSET Flight, IsFiniteSet(F), NEW s \in Nat, Behind(F, s),
           Paced(F, 2 * Transfer), Paced(Ahead(F), Transfer),
           NEW n, n.ready = s + Transfer, n \notin Cut(F, s)
    PROVE  Paced(Cut(F, s) \cup {n}, 2 * Transfer)
<1> SUFFICES ASSUME NEW x \in Nat, NEW y \in Nat, x <= y
             PROVE  Work(Cut(F, s) \cup {n}, y) - Work(Cut(F, s) \cup {n}, x) < y - x + 2 * Transfer
    BY DEF Paced
<1> DEFINE T == Transfer  vx == Work(Cut(F, s) \cup {n}, x)  vy == Work(Cut(F, s) \cup {n}, y)
           w == [u \in Nat |-> Work(F, u)]
<1>1. T \in Nat /\ T > 0 /\ n.ready \in Nat
    BY LinkAssumption
<1>2. \A u \in Nat : w[u] = Work(F, u) /\ w[u] \in Nat
    BY WorkIs
<1>3. \A u, v \in Nat : u <= v => w[v] - w[u] < v - u + 2 * T
    BY <1>2 DEF Paced
<1>4. \A v \in Nat : s <= v => w[v] - w[s] < v - s + T
    <2> SUFFICES ASSUME NEW v \in Nat, s <= v PROVE Work(F, v) - Work(F, s) < v - s + Transfer
        BY <1>2
    <2>1. Work(F, v) - Work(F, s) = Work(Ahead(F), v) - Work(Ahead(F), s)
        BY AllAhead
    <2>2. Work(Ahead(F), v) - Work(Ahead(F), s) < v - s + Transfer
        BY DEF Paced
    <2> QED BY <2>1, <2>2
<1>5. IsFiniteSet(Cut(F, s))
    BY CutFinite
<1>6. ASSUME NEW u \in Nat, NEW v, v = Work(Cut(F, s) \cup {n}, u)
      PROVE  /\ u <= s => v = w[u]
             /\ s <= u /\ u < s + T => v = w[s]
             /\ s + T <= u => u - T \in Nat /\ v = w[u - T] + T
    <2> DEFINE a == Work(Cut(F, s), u)
    <2>1. v = a + (IF n.ready <= u THEN Transfer ELSE 0)
        BY <1>1, <1>5, <1>6, OneMore
    <2>2. /\ u <= s => a = w[u]
          /\ s <= u /\ u < s + T => a = w[s]
          /\ s + T <= u => u - T \in Nat /\ a = w[u - T]
        BY <1>2, CutWorks
    <2>3. a \in Nat
        BY <1>5, WorkIs
    <2> HIDE DEF a, w
    <2>4. ~(s + T <= u) => v = a
        BY <1>1, <2>1, <2>3
    <2>5. s + T <= u => v = a + T
        BY <1>1, <2>1, <2>3
    <2> QED BY <1>1, <2>2, <2>4, <2>5
<1>7. /\ x <= s => vx = w[x]
      /\ s <= x /\ x < s + T => vx = w[s]
      /\ s + T <= x => x - T \in Nat /\ vx = w[x - T] + T
    BY <1>6
<1>8. /\ y <= s => vy = w[y]
      /\ s <= y /\ y < s + T => vy = w[s]
      /\ s + T <= y => y - T \in Nat /\ vy = w[y - T] + T
    BY <1>6
<1> HIDE DEF T, vx, vy, w
<1>9. vy - vx < y - x + 2 * T
    <2>1. CASE y <= s
        BY <1>1, <1>3, <1>7, <1>8, <2>1
    <2>2. CASE ~(y <= s) /\ y < s + T
        <3>1. vy = w[s]
            BY <1>1, <1>8, <2>2
        <3>2. CASE x <= s
            <4>1. w[s] - w[x] < s - x + 2 * T /\ vx = w[x]
                BY <1>3, <1>7, <3>2
            <4> QED BY <1>1, <1>2, <2>2, <3>1, <4>1
        <3>3. CASE ~(x <= s)
            <4>1. vx = w[s]
                BY <1>1, <1>7, <2>2, <3>3
            <4> QED BY <1>1, <1>2, <3>1, <4>1
        <3> QED BY <3>2, <3>3
    <2>3. CASE s + T <= y
        <3>1. vy = w[y - T] + T /\ y - T \in Nat /\ w[y - T] \in Nat
            BY <1>2, <1>8, <2>3
        <3>2. CASE x <= s
            <4>1. w[y - T] - w[x] < (y - T) - x + 2 * T /\ vx = w[x] /\ w[x] \in Nat
                BY <1>1, <1>2, <1>3, <1>7, <2>3, <3>1, <3>2
            <4> QED BY <1>1, <3>1, <4>1
        <3>3. CASE ~(x <= s) /\ x < s + T
            <4>1. w[y - T] - w[s] < (y - T) - s + T /\ vx = w[s] /\ w[s] \in Nat
                BY <1>1, <1>2, <1>4, <1>7, <2>3, <3>1, <3>3
            <4> QED BY <1>1, <3>1, <3>3, <4>1
        <3>4. CASE s + T <= x
            <4>1. x - T \in Nat /\ vx = w[x - T] + T /\ w[x - T] \in Nat
                BY <1>2, <1>7, <3>4
            <4>2. w[y - T] - w[x - T] < (y - T) - (x - T) + 2 * T
                BY <1>1, <1>3, <3>1, <4>1
            <4> QED BY <1>1, <3>1, <4>1, <4>2
        <3> QED BY <1>1, <3>2, <3>3, <3>4
    <2> QED BY <1>1, <2>1, <2>2, <2>3
<1> QED BY <1>9 DEF vx, vy, T

(* What the three ways to change the flights do to all of the invariant.   *)
LEMMA TopOk ==
    ASSUME NEW F, NEW d, NEW a, FlightsOk(F, d, a), NEW n \in Flight, n.ready >= a + Transfer,
           NEW e, e = IF n.pf THEN d ELSE n.ready
    PROVE  FlightsOk(F \cup {n}, e, n.ready) /\ n.ready > 0
<1>1. Transfer \in Nat /\ Transfer > 0 /\ 2 * Transfer \in Nat /\ 2 * Transfer >= Transfer
    BY LinkAssumption
<1>2. F \in SUBSET Flight /\ IsFiniteSet(F) /\ d \in Nat /\ a \in Nat /\ d <= a /\ n.ready \in Nat
    BY DEF FlightsOk, Flight
<1>3. \A f \in F : f.ready \in Nat /\ f.ready <= a
    BY <1>2 DEF FlightsOk, Flight
<1>4. Paced(F \cup {n}, 2 * Transfer)
    BY <1>1, <1>2, <1>3, PacedTop DEF FlightsOk
<1>5. Paced(Ahead(F \cup {n}), Transfer)
    <2>1. CASE n.pf
        <3>1. Ahead(F \cup {n}) = Ahead(F) \cup {n}
            BY <2>1 DEF Ahead
        <3>2. \A f \in Ahead(F) : f.ready \in Nat /\ f.ready <= a
            BY <1>3 DEF Ahead
        <3>3. IsFiniteSet(Ahead(F)) /\ Paced(Ahead(F), Transfer)
            BY <1>2, WorkIs DEF FlightsOk
        <3>4. Paced(Ahead(F) \cup {n}, Transfer)
            BY <1>1, <1>2, <3>2, <3>3, PacedTop
        <3> QED BY <3>1, <3>4
    <2>2. CASE ~n.pf
        <3>1. Ahead(F \cup {n}) = Ahead(F)
            BY <2>2 DEF Ahead
        <3> QED BY <3>1 DEF FlightsOk
    <2> QED BY <2>1, <2>2
<1>6. \A f \in F : f.ready < n.ready
    BY <1>1, <1>2, <1>3
<1>7. Distinct(F \cup {n})
    <2>1. \A f \in F : f.ready # n.ready
        BY <1>2, <1>3, <1>6
    <2> QED BY <2>1 DEF FlightsOk, Distinct
<1>8. e \in Nat /\ e <= n.ready /\ d <= e /\ n.ready > 0
    BY <1>1, <1>2
<1>9. \A f \in F \cup {n} : f.ready > 0
    BY <1>8 DEF FlightsOk
<1>10. \A f \in F \cup {n} : f.ready <= n.ready /\ (~f.pf => f.ready <= e)
    <2> TAKE f \in F \cup {n}
    <2>1. CASE f = n
        BY <1>2, <2>1
    <2>2. CASE f \in F
        <3>1. ~f.pf => f.ready <= d
            BY <2>2 DEF FlightsOk
        <3>2. f.ready \in Nat /\ f.ready <= n.ready
            BY <1>2, <1>3, <1>6, <2>2
        <3> QED BY <1>2, <1>8, <3>1, <3>2
    <2> QED BY <2>1, <2>2
<1>11. IsFiniteSet(F \cup {n}) /\ F \cup {n} \in SUBSET Flight
    BY <1>2, FS_AddElement
<1> QED BY <1>2, <1>4, <1>5, <1>7, <1>8, <1>9, <1>10, <1>11 DEF FlightsOk

LEMMA LaterOk ==
    ASSUME NEW F, NEW d, NEW a, FlightsOk(F, d, a), NEW t \in Nat
    PROVE  FlightsOk(Later(F, t), Elapsed(d, t), Elapsed(a, t))
<1>1. Transfer \in Nat /\ Transfer > 0 /\ 2 * Transfer \in Nat
    BY LinkAssumption
<1>2. F \in SUBSET Flight /\ IsFiniteSet(F) /\ d \in Nat /\ a \in Nat /\ d <= a /\ \A f \in F : f.ready \in Nat
    BY DEF FlightsOk, Flight
<1> DEFINE c == [f \in F |-> Nearer(f, t)]
           K == { g \in F : g.ready > t }
<1>3. \A f \in F : c[f] \in Flight /\ c[f].id = f.id /\ c[f].pf = f.pf /\ c[f].ready = Elapsed(f.ready, t)
    <2> TAKE f \in F
    <2>1. c[f] = [f EXCEPT !.ready = Elapsed(f.ready, t)]
        BY DEF Nearer
    <2>2. f \in Flight /\ Elapsed(f.ready, t) \in Nat
        BY <1>2, ElapsedIs
    <2> HIDE DEF c
    <2> QED BY <2>1, <2>2 DEF Flight
<1>4. \A f \in K : f \in F /\ f.ready > t /\ c[f].ready = f.ready - t
    BY <1>2, <1>3, ElapsedIs
<1>5. Later(F, t) = { c[f] : f \in K }
    BY DEF Later
<1>6. IsFiniteSet(K)
    <2>1. K \in SUBSET F
        OBVIOUS
    <2> QED BY <1>2, <2>1, FS_Subset
<1>7. IsFiniteSet(Later(F, t)) /\ Later(F, t) \in SUBSET Flight
    <2>1. [f \in K |-> c[f]] \in Surjection(K, Later(F, t))
        BY <1>5 DEF Surjection
    <2> HIDE DEF c, K
    <2> QED BY <1>3, <1>4, <1>5, <1>6, <2>1, FS_Surjection
<1>8. Paced(Later(F, t), 2 * Transfer)
    BY <1>1, <1>2, PacedLater DEF FlightsOk
<1>9. Paced(Ahead(Later(F, t)), Transfer)
    <2>1. Ahead(Later(F, t)) = Later(Ahead(F), t)
        <3>1. Later(Ahead(F), t) = { c[f] : f \in { g \in K : g.pf } }
            BY DEF Later, Ahead
        <3> HIDE DEF c, K
        <3> QED BY <1>3, <1>4, <1>5, <3>1 DEF Ahead
    <2>2. Ahead(F) \in SUBSET Flight /\ IsFiniteSet(Ahead(F)) /\ Paced(Ahead(F), Transfer)
        BY <1>2, WorkIs DEF Ahead, FlightsOk
    <2> QED BY <1>1, <2>1, <2>2, PacedLater
<1> HIDE DEF c, K
<1>10. Distinct(Later(F, t))
    <2> SUFFICES ASSUME NEW f \in K, NEW g \in K, c[f].ready = c[g].ready PROVE c[f] = c[g]
        BY <1>5 DEF Distinct
    <2>1. f.ready = g.ready
        BY <1>2, <1>4
    <2> QED BY <1>4, <2>1 DEF FlightsOk, Distinct
<1>11. \A f \in Later(F, t) : f.ready > 0
    BY <1>2, <1>4, <1>5
<1>12. Elapsed(d, t) \in Nat /\ Elapsed(a, t) \in Nat /\ Elapsed(d, t) <= Elapsed(a, t)
    <2>1. Elapsed(d, t) \in Nat /\ (d > t => Elapsed(d, t) = d - t) /\ (d <= t => Elapsed(d, t) = 0)
        BY <1>2, ElapsedIs
    <2>2. Elapsed(a, t) \in Nat /\ (a > t => Elapsed(a, t) = a - t) /\ (a <= t => Elapsed(a, t) = 0)
        BY <1>2, ElapsedIs
    <2> QED BY <1>2, <2>1, <2>2
<1>13. ASSUME NEW f \in Later(F, t)
       PROVE  f.ready <= Elapsed(a, t) /\ (~f.pf => f.ready <= Elapsed(d, t))
    <2>1. PICK g \in K : f = c[g]
        BY <1>5
    <2>2. g \in F /\ g.ready > t /\ f.ready = g.ready - t /\ f.pf = g.pf /\ g.ready \in Nat
        BY <1>2, <1>3, <1>4, <2>1
    <2>3. g.ready <= a /\ (~g.pf => g.ready <= d)
        BY <2>2 DEF FlightsOk
    <2>4. a > t /\ Elapsed(a, t) = a - t
        <3>1. a > t
            BY <1>2, <2>2, <2>3
        <3> QED BY <1>2, <3>1, ElapsedIs
    <2>5. ~g.pf => d > t /\ Elapsed(d, t) = d - t
        <3>1. ~g.pf => d > t
            BY <1>2, <2>2, <2>3
        <3> QED BY <1>2, <3>1, ElapsedIs
    <2> QED BY <1>2, <2>2, <2>3, <2>4, <2>5
<1>14. CASE a > t
    <2>1. F # {}
        BY <1>14 DEF FlightsOk
    <2>2. PICK f \in F : f.ready = a
        BY <2>1 DEF FlightsOk
    <2>3. f \in K
        BY <1>14, <2>2 DEF K
    <2>4. c[f] \in Later(F, t) /\ c[f].ready = Elapsed(a, t)
        BY <1>3, <1>5, <2>2, <2>3
    <2> QED BY <1>7, <1>8, <1>9, <1>10, <1>11, <1>12, <1>13, <2>4 DEF FlightsOk
<1>15. CASE ~(a > t)
    <2>1. K = {}
        BY <1>2, <1>15 DEF FlightsOk, K
    <2>2. Later(F, t) = {}
        BY <1>5, <2>1
    <2>3. Elapsed(a, t) = 0
        BY <1>2, <1>15, ElapsedIs
    <2> QED BY <1>7, <1>8, <1>9, <1>10, <1>11, <1>12, <1>13, <2>2, <2>3 DEF FlightsOk
<1> QED BY <1>14, <1>15

LEMMA CutOk ==
    ASSUME NEW F, NEW d, NEW a, FlightsOk(F, d, a), NEW s \in Nat, d <= s, s < a,
           NEW n \in Flight, n.ready = s + Transfer, ~n.pf
    PROVE  FlightsOk(Cut(F, s) \cup {n}, n.ready, a + Transfer) /\ n.ready > 0
<1>1. Transfer \in Nat /\ Transfer > 0
    BY LinkAssumption
<1>2. F \in SUBSET Flight /\ IsFiniteSet(F) /\ d \in Nat /\ a \in Nat /\ \A f \in F : f.ready \in Nat
    BY DEF FlightsOk, Flight
<1>3. Behind(F, s)
    <2> SUFFICES ASSUME NEW f \in F, f.ready > s, ~f.pf PROVE FALSE
        BY DEF Behind, FlightsOk, Flight
    <2>1. f.ready <= d /\ f.ready \in Nat
        BY <1>2 DEF FlightsOk
    <2> QED BY <1>2, <2>1
<1>4. \A f \in F : /\ PushedBack(f, s) \in Flight /\ PushedBack(f, s).pf = f.pf
                   /\ PushedBack(f, s).ready = IF f.ready > s THEN f.ready + Transfer ELSE f.ready
    BY <1>2, <1>3, PushedIs DEF Behind
<1>5. IsFiniteSet(Cut(F, s)) /\ Cut(F, s) \in SUBSET Flight
    BY <1>2, <1>3, CutFinite
<1>6. ASSUME NEW g \in Cut(F, s)
      PROVE  /\ g.ready # n.ready /\ g.ready > 0 /\ g.ready <= a + Transfer
             /\ ~g.pf => g.ready <= n.ready
    <2>1. PICK f \in F : g = PushedBack(f, s)
        BY DEF Cut
    <2>2. g.pf = f.pf /\ g.ready = IF f.ready > s THEN f.ready + Transfer ELSE f.ready
        BY <1>4, <2>1
    <2>3. f.ready \in Nat /\ f.ready > 0 /\ f.ready <= a /\ (~f.pf => f.ready <= d)
        BY <1>2 DEF FlightsOk
    <2>4. CASE f.ready > s
        <3>1. g.ready = f.ready + Transfer /\ f.pf
            BY <1>3, <2>2, <2>4 DEF Behind
        <3> QED BY <1>1, <1>2, <2>2, <2>3, <2>4, <3>1
    <2>5. CASE ~(f.ready > s)
        <3>1. g.ready = f.ready
            BY <2>2, <2>5
        <3> QED BY <1>1, <1>2, <2>3, <2>5, <3>1
    <2> QED BY <2>4, <2>5
<1>7. n \notin Cut(F, s)
    BY <1>6
<1>8. Paced(Cut(F, s) \cup {n}, 2 * Transfer)
    BY <1>2, <1>3, <1>7, PacedJump DEF FlightsOk
<1>9. Paced(Ahead(Cut(F, s) \cup {n}), Transfer)
    <2>1. Ahead(Cut(F, s) \cup {n}) = Cut(Ahead(F), s)
        BY <1>4 DEF Ahead, Cut
    <2>2. Ahead(F) \in SUBSET Flight /\ IsFiniteSet(Ahead(F)) /\ Paced(Ahead(F), Transfer) /\ Behind(Ahead(F), s)
        BY <1>2, <1>3, WorkIs DEF Ahead, FlightsOk, Behind
    <2> QED BY <2>1, <2>2, PacedCut
<1>10. Distinct(Cut(F, s) \cup {n})
    <2>1. ASSUME NEW f \in F, NEW g \in F, PushedBack(f, s).ready = PushedBack(g, s).ready
          PROVE  PushedBack(f, s) = PushedBack(g, s)
        <3>1. f.ready = g.ready
            BY <1>2, <1>3, <2>1, CutApart
        <3> QED BY <3>1 DEF FlightsOk, Distinct
    <2> QED BY <1>6, <2>1 DEF Distinct, Cut
<1>11. n.ready \in Nat /\ n.ready > 0 /\ a + Transfer \in Nat /\ n.ready <= a + Transfer
    BY <1>1, <1>2
<1>12. \E f \in Cut(F, s) \cup {n} : f.ready = a + Transfer
    <2>1. F # {}
        BY <1>2 DEF FlightsOk
    <2>2. PICK f \in F : f.ready = a
        BY <2>1 DEF FlightsOk
    <2>3. PushedBack(f, s) \in Cut(F, s) /\ PushedBack(f, s).ready = a + Transfer
        BY <1>4, <2>2 DEF Cut
    <2> QED BY <2>3
<1>13. \A f \in Cut(F, s) \cup {n} : f.ready > 0 /\ f.ready <= a + Transfer /\ (~f.pf => f.ready <= n.ready)
    BY <1>6, <1>11
<1>14. IsFiniteSet(Cut(F, s) \cup {n}) /\ Cut(F, s) \cup {n} \in SUBSET Flight
    BY <1>5, FS_AddElement
<1> QED BY <1>8, <1>9, <1>10, <1>11, <1>12, <1>13, <1>14 DEF FlightsOk

(* The order of the cache: what it has of the flights, and what landed.    *)
OrderOk(q, F) == q \in Seq(Flight) /\ Len(q) <= Cap /\ \A e \in Range(q) : e.ready > 0 => e \in F

LinkState == [disc : {"fifo", "priority"}, demand_free : Nat, any_free : Nat,
              order : Seq(Flight), flights : SUBSET Flight]

LinkInv(l) ==
    l \in LinkState /\ FlightsOk(l.flights, l.demand_free, l.any_free) /\ OrderOk(l.order, l.flights)

LEMMA EnteredOrder ==
    ASSUME NEW q, NEW F, OrderOk(q, F), NEW n \in Flight
    PROVE  OrderOk(IF Len(Append(q, n)) > Cap THEN Tail(Append(q, n)) ELSE Append(q, n), F \cup {n})
<1> DEFINE r == Append(q, n)
<1>1. q \in Seq(Flight) /\ Len(q) \in Nat /\ DOMAIN q = 1 .. Len(q) /\ Len(q) <= Cap /\ Cap \in Nat
    BY LenProperties, TraceAssumption DEF OrderOk
<1>2. /\ r \in Seq(Flight) /\ Len(r) = Len(q) + 1 /\ \A i \in 1 .. Len(q) : r[i] = q[i]
      /\ r[Len(q) + 1] = n
    BY <1>1, AppendProperties
<1> HIDE DEF r
<1>3. DOMAIN r = 1 .. Len(q) + 1
    BY <1>2, LenProperties
<1>4. \A e \in Range(r) : e \in Range(q) \/ e = n
    BY <1>1, <1>2, <1>3 DEF Range
<1>5. r # <<>> /\ Tail(r) \in Seq(Flight) /\ Len(Tail(r)) = Len(q) /\ \A i \in 1 .. Len(q) : Tail(r)[i] = r[i + 1]
    <2>1. r # <<>>
        BY <1>1, <1>2, EmptySeq
    <2> QED BY <1>1, <1>2, <2>1, HeadTailProperties
<1> DEFINE t == Tail(r)
<1> HIDE DEF t
<1>6. DOMAIN t = 1 .. Len(q)
    BY <1>5, LenProperties DEF t
<1>7. \A e \in Range(t) : e \in Range(r)
    <2> SUFFICES ASSUME NEW i \in DOMAIN t PROVE t[i] \in Range(r)
        BY DEF Range
    <2>1. t[i] = r[i + 1] /\ i + 1 \in DOMAIN r
        BY <1>1, <1>3, <1>5, <1>6 DEF t
    <2> QED BY <2>1 DEF Range
<1>8. OrderOk(t, F \cup {n})
    BY <1>1, <1>4, <1>5, <1>7 DEF OrderOk, t
<1>9. CASE Len(r) > Cap
    BY <1>8, <1>9 DEF t, r
<1>10. CASE ~(Len(r) > Cap)
    <2>1. Len(r) <= Cap
        BY <1>1, <1>2, <1>10
    <2>2. OrderOk(r, F \cup {n})
        BY <1>2, <1>4, <2>1 DEF OrderOk
    <2> QED BY <1>10, <2>2 DEF r
<1> QED BY <1>9, <1>10

(* Every entry of the order is renamed as its flight is.                   *)
LEMMA RenamedOrder ==
    ASSUME NEW q, NEW F, OrderOk(q, F), NEW G, NEW r, DOMAIN r = DOMAIN q, r = [i \in DOMAIN q |-> r[i]],
           \A i \in DOMAIN q : r[i] \in Flight /\ (r[i].ready > 0 => q[i].ready > 0 /\ (q[i] \in F => r[i] \in G))
    PROVE  OrderOk(r, G)
<1>1. q \in Seq(Flight) /\ Len(q) \in Nat /\ DOMAIN q = 1 .. Len(q) /\ Len(q) <= Cap
    BY LenProperties DEF OrderOk
<1>2. r \in Seq(Flight)
    <2>1. r \in [1 .. Len(q) -> Flight]
        BY <1>1
    <2> QED BY <1>1, <2>1, SeqDef
<1>3. Len(r) = Len(q)
    <2>1. DOMAIN r = 1 .. Len(r) /\ Len(r) \in Nat
        BY <1>2, LenProperties
    <2> QED BY <1>1, <2>1
<1>4. ASSUME NEW i \in DOMAIN q, r[i].ready > 0 PROVE r[i] \in G
    <2>1. q[i] \in Range(q)
        BY DEF Range
    <2> QED BY <1>4, <2>1 DEF OrderOk
<1> QED BY <1>1, <1>2, <1>3, <1>4 DEF OrderOk, Range

(* What is taken out of the cache stays under way.                         *)
LEMMA FewerOrder ==
    ASSUME NEW l, NEW F, OrderOk(l.order, F), NEW k
    PROVE  OrderOk(Rest(l, k), F) /\ (LinkHas(l, k) => Len(Rest(l, k)) = Len(l.order) - 1)
<1> DEFINE q == l.order
           r == Rest(l, k)
           I == { i \in 1 .. Len(q) : q[i].id = k }
<1>1. q \in Seq(Flight) /\ Len(q) \in Nat /\ DOMAIN q = 1 .. Len(q) /\ Len(q) <= Cap /\ Cap \in Nat
    BY LenProperties, TraceAssumption DEF OrderOk
<1>2. CASE I # {}
    <2>1. I \in SUBSET Nat /\ I \subseteq DOMAIN q
        BY <1>1
    <2>2. Min(I) \in I
        BY <1>2, <2>1, MinIs
    <2>3. SelectInSeq(q, LAMBDA e : e.id = k) = Min(I)
        BY <1>2 DEF SelectInSeq
    <2>4. r = RemoveAt(q, Min(I))
        BY <1>2, <2>3 DEF Rest, RemoveFirstMatch
    <2> DEFINE m == Min(I)
    <2>5. m \in DOMAIN q
        BY <2>1, <2>2
    <2> HIDE DEF m, I
    <2>6. /\ RemoveAt(q, m) \in Seq(Flight) /\ Len(RemoveAt(q, m)) = Len(q) - 1
          /\ \A j \in 1 .. Len(q) - 1 : RemoveAt(q, m)[j] = IF j < m THEN q[j] ELSE q[j + 1]
        BY <1>1, <2>5, CutOut
    <2> DEFINE v == RemoveAt(q, m)
    <2> HIDE DEF v
    <2>7. DOMAIN v = 1 .. Len(q) - 1
        BY <1>1, <2>6, LenProperties DEF v
    <2>8. \A e \in Range(v) : e \in Range(q)
        <3> SUFFICES ASSUME NEW j \in DOMAIN v PROVE v[j] \in Range(q)
            BY DEF Range
        <3>1. v[j] = q[j] \/ v[j] = q[j + 1]
            BY <2>6, <2>7 DEF v
        <3>2. j \in DOMAIN q /\ j + 1 \in DOMAIN q
            BY <1>1, <2>7
        <3> QED BY <3>1, <3>2 DEF Range
    <2>9. OrderOk(v, F) /\ Len(v) = Len(q) - 1
        BY <1>1, <2>6, <2>8 DEF OrderOk, v
    <2> QED BY <2>4, <2>9 DEF v, m
<1>3. CASE I = {}
    <2>1. ~ \E i \in 1 .. Len(q) : q[i].id = k
        BY <1>3
    <2>2. r = q
        BY <2>1 DEF Rest, RemoveFirstMatch
    <2> QED BY <1>1, <2>1, <2>2 DEF LinkHas
<1> QED BY <1>2, <1>3

LEMMA AdvanceKeeps ==
    ASSUME NEW l, LinkInv(l), NEW t \in Nat
    PROVE  LinkInv(Advance(l, t))
<1> DEFINE b == Advance(l, t)
           q == [i \in DOMAIN l.order |-> Nearer(l.order[i], t)]
<1>1. l \in LinkState /\ FlightsOk(l.flights, l.demand_free, l.any_free) /\ OrderOk(l.order, l.flights)
    BY DEF LinkInv
<1>2. FlightsOk(Later(l.flights, t), Elapsed(l.demand_free, t), Elapsed(l.any_free, t))
    BY <1>1, LaterOk
<1>3. OrderOk(q, Later(l.flights, t))
    <2>1. ASSUME NEW i \in DOMAIN l.order
          PROVE  /\ q[i] \in Flight
                 /\ q[i].ready > 0 => l.order[i].ready > 0 /\ (l.order[i] \in l.flights => q[i] \in Later(l.flights, t))
        <3> DEFINE e == l.order[i]
        <3>1. e \in Flight
            BY <1>1, ElementOfSeq, LenProperties DEF OrderOk
        <3>2. q[i] = [e EXCEPT !.ready = Elapsed(e.ready, t)] /\ q[i] = Nearer(e, t)
            BY DEF Nearer
        <3> HIDE DEF e, q
        <3>3. e.ready \in Nat
            BY <3>1 DEF Flight
        <3>4. Elapsed(e.ready, t) \in Nat /\ (Elapsed(e.ready, t) > 0 => e.ready > t)
            <4>1. e.ready <= t => Elapsed(e.ready, t) = 0
                BY <3>3, ElapsedIs
            <4>2. Elapsed(e.ready, t) \in Nat
                BY <3>3, ElapsedIs
            <4> QED BY <3>3, <4>1, <4>2
        <3>5. q[i] \in Flight /\ q[i].ready = Elapsed(e.ready, t)
            BY <3>1, <3>2, <3>4 DEF Flight
        <3>6. e.ready > t /\ e \in l.flights => q[i] \in Later(l.flights, t)
            BY <3>2 DEF Later
        <3>7. e.ready > t => e.ready > 0
            BY <3>3
        <3> QED BY <3>4, <3>5, <3>6, <3>7 DEF e
    <2>2. DOMAIN q = DOMAIN l.order /\ q = [i \in DOMAIN l.order |-> q[i]]
        OBVIOUS
    <2> HIDE DEF q
    <2> QED BY <1>1, <2>1, <2>2, RenamedOrder
<1>4. b = [l EXCEPT !.demand_free = Elapsed(l.demand_free, t), !.any_free = Elapsed(l.any_free, t),
                    !.order = q, !.flights = Later(l.flights, t)]
    BY DEF Advance, Later
<1> HIDE DEF b, q
<1>5. /\ b \in LinkState /\ b.flights = Later(l.flights, t) /\ b.order = q
      /\ b.demand_free = Elapsed(l.demand_free, t) /\ b.any_free = Elapsed(l.any_free, t)
    BY <1>1, <1>2, <1>3, <1>4 DEF LinkState, FlightsOk, OrderOk
<1> QED BY <1>2, <1>3, <1>5 DEF LinkInv, b

LEMMA PrefetchKeeps ==
    ASSUME NEW l, LinkInv(l), NEW k \in Objects
    PROVE  LinkInv(PrefetchFetch(l, k))
<1> DEFINE b == PrefetchFetch(l, k)
           n == Fetch(k, Max({Rtt, l.any_free}) + Transfer, TRUE)
           q == IF Len(Append(l.order, n)) > Cap THEN Tail(Append(l.order, n)) ELSE Append(l.order, n)
<1>1. l \in LinkState /\ FlightsOk(l.flights, l.demand_free, l.any_free) /\ OrderOk(l.order, l.flights)
      /\ l.any_free \in Nat /\ Rtt \in Nat /\ Transfer \in Nat
    BY LinkAssumption DEF LinkInv, LinkState
<1>2. Max({Rtt, l.any_free}) \in Nat /\ Max({Rtt, l.any_free}) >= l.any_free
    <2>1. Max({Rtt, l.any_free}) = IF Rtt >= l.any_free THEN Rtt ELSE l.any_free
        BY <1>1, MaxOfTwo
    <2> QED BY <1>1, <2>1
<1>3. n \in Flight /\ n.pf /\ n.ready >= l.any_free + Transfer
    BY <1>1, <1>2 DEF Fetch, Flight
<1> HIDE DEF n
<1>4. FlightsOk(l.flights \cup {n}, l.demand_free, n.ready)
    BY <1>1, <1>3, TopOk
<1>5. OrderOk(q, l.flights \cup {n})
    BY <1>1, <1>3, EnteredOrder
<1>6. Max({l.any_free, n.ready}) = n.ready
    <2>1. n.ready \in Nat
        BY <1>3 DEF Flight
    <2>2. Max({l.any_free, n.ready}) = IF l.any_free >= n.ready THEN l.any_free ELSE n.ready
        BY <1>1, <2>1, MaxOfTwo
    <2> QED BY <1>1, <1>3, <2>1, <2>2
<1> DEFINE m == [l EXCEPT !.any_free = n.ready, !.flights = l.flights \cup {n}]
<1>7. b = Enter(m, n)
    BY <1>6 DEF PrefetchFetch, n
<1>8. /\ m \in LinkState /\ m.flights = l.flights \cup {n} /\ m.order = l.order
      /\ m.demand_free = l.demand_free /\ m.any_free = n.ready
    BY <1>1, <1>3, <1>4 DEF LinkState, FlightsOk
<1> HIDE DEF m, b, q
<1>9. b = [m EXCEPT !.order = q]
    BY <1>7, <1>8 DEF Enter, q
<1>10. /\ b \in LinkState /\ b.flights = l.flights \cup {n} /\ b.order = q
       /\ b.demand_free = l.demand_free /\ b.any_free = n.ready
    BY <1>5, <1>8, <1>9 DEF LinkState, OrderOk
<1> QED BY <1>4, <1>5, <1>10 DEF LinkInv, b

(* A demand fetch on a link that is free by its start, or that it cuts in. *)
LEMMA DemandKeeps ==
    ASSUME NEW l, LinkInv(l), NEW k \in Objects
    PROVE  LinkInv(DemandFetch(l, k))
<1> DEFINE b == DemandFetch(l, k)
           s == Start(l)
           n == Fetch(k, s + Transfer, FALSE)
           F == l.flights
           a == l.any_free
           d == l.demand_free
           p == [i \in DOMAIN l.order |-> IF CutsIn(l) THEN PushedBack(l.order[i], s) ELSE l.order[i]]
           G == { IF CutsIn(l) THEN PushedBack(f, s) ELSE f : f \in F }
           q == IF Len(Append(p, n)) > Cap THEN Tail(Append(p, n)) ELSE Append(p, n)
<1>1. /\ l \in LinkState /\ FlightsOk(F, d, a) /\ OrderOk(l.order, F)
      /\ a \in Nat /\ d \in Nat /\ d <= a /\ Rtt \in Nat /\ Transfer \in Nat /\ Transfer > 0
    BY LinkAssumption DEF LinkInv, LinkState, FlightsOk
<1>2. s \in Nat /\ s >= Rtt /\ s >= d /\ (CutsIn(l) <=> a > s)
    <2>1. QueueFrom(l) \in Nat /\ QueueFrom(l) >= d
        BY <1>1 DEF QueueFrom
    <2>2. s = IF Rtt >= QueueFrom(l) THEN Rtt ELSE QueueFrom(l)
        BY <1>1, <2>1, MaxOfTwo DEF Start
    <2>3. CutsIn(l) <=> a > s
        BY DEF CutsIn
    <2> HIDE DEF s
    <2> QED BY <1>1, <2>1, <2>2, <2>3
<1> HIDE DEF s
<1>3. n \in Flight /\ ~n.pf /\ n.ready = s + Transfer
    BY <1>1, <1>2 DEF Fetch, Flight
<1>4. b = Enter([l EXCEPT !.demand_free = Max({d, n.ready}), !.any_free = Charge(l),
                          !.order = p, !.flights = G \cup {n}], n)
    BY DEF DemandFetch, n, s
<1>5. Charge(l) = Max({Max({a, Rtt}) + Transfer, s + Transfer})
    BY DEF Charge, s
<1> HIDE DEF n, F, a, d, p, G, b
<1>6. /\ FlightsOk(G \cup {n}, n.ready, Charge(l)) /\ Charge(l) \in Nat
      /\ OrderOk(p, G) /\ Max({d, n.ready}) = n.ready
    <2>1. Max({a, Rtt}) = IF a >= Rtt THEN a ELSE Rtt
        BY <1>1, MaxOfTwo
    <2> DEFINE m == Max({a, Rtt})
    <2>2. m \in Nat
        BY <1>1, <2>1
    <2> HIDE DEF m
    <2>3. Charge(l) = IF m + Transfer >= s + Transfer THEN m + Transfer ELSE s + Transfer
        BY <1>1, <1>2, <1>5, <2>2, MaxOfTwo DEF m
    <2>4. Max({d, n.ready}) = n.ready
        <3>1. n.ready \in Nat /\ n.ready > d
            BY <1>1, <1>2, <1>3
        <3>2. Max({d, n.ready}) = IF d >= n.ready THEN d ELSE n.ready
            BY <1>1, <3>1, MaxOfTwo
        <3> QED BY <1>1, <3>1, <3>2
    <2>5. CASE a > s
        <3>1. Charge(l) = a + Transfer
            BY <1>1, <1>2, <2>1, <2>2, <2>3, <2>5 DEF m
        <3>2. G = Cut(F, s)
            BY <1>2, <2>5 DEF G, Cut
        <3>3. FlightsOk(Cut(F, s) \cup {n}, n.ready, a + Transfer)
            BY <1>1, <1>2, <1>3, <2>5, CutOk
        <3>4. OrderOk(p, Cut(F, s))
            <4>1. DOMAIN p = DOMAIN l.order /\ p = [i \in DOMAIN l.order |-> p[i]]
                BY DEF p
            <4>2. ASSUME NEW i \in DOMAIN l.order
                  PROVE  /\ p[i] \in Flight
                         /\ p[i].ready > 0 => l.order[i].ready > 0 /\ (l.order[i] \in F => p[i] \in Cut(F, s))
                <5> DEFINE e == l.order[i]
                <5>1. e \in Flight
                    BY <1>1, ElementOfSeq, LenProperties DEF OrderOk
                <5>2. p[i] = PushedBack(e, s)
                    BY <1>2, <2>5 DEF p
                <5> HIDE DEF e
                <5>3. e.ready \in Nat
                    BY <5>1 DEF Flight
                <5>4. p[i] \in Flight /\ (p[i] = e \/ e.ready > s)
                    <6>1. CASE e.pf /\ e.ready > s
                        BY <1>2, <5>1, <5>2, <6>1, PushedIs
                    <6>2. CASE ~(e.pf /\ e.ready > s)
                        BY <5>1, <5>2, <6>2 DEF PushedBack
                    <6> QED BY <6>1, <6>2
                <5>5. p[i].ready > 0 => e.ready > 0
                    BY <1>2, <5>3, <5>4
                <5> QED BY <5>2, <5>4, <5>5 DEF Cut, e
            <4> QED BY <1>1, <4>1, <4>2, RenamedOrder
        <3> QED BY <1>1, <2>4, <3>1, <3>2, <3>3, <3>4
    <2>6. CASE ~(a > s)
        <3>1. Charge(l) = n.ready /\ n.ready >= a + Transfer /\ n.ready \in Nat
            BY <1>1, <1>2, <1>3, <2>1, <2>2, <2>3, <2>6 DEF m
        <3>2. G = F
            BY <1>2, <2>6 DEF G
        <3>3. p = l.order
            <4>1. l.order = [i \in DOMAIN l.order |-> l.order[i]]
                BY <1>1 DEF OrderOk
            <4> QED BY <1>2, <2>6, <4>1 DEF p
        <3>4. FlightsOk(F \cup {n}, n.ready, n.ready)
            BY <1>1, <1>3, <3>1, TopOk
        <3> QED BY <1>1, <2>4, <3>1, <3>2, <3>3, <3>4
    <2> QED BY <2>5, <2>6
<1>7. OrderOk(q, G \cup {n})
    BY <1>3, <1>6, EnteredOrder
<1> DEFINE m == [l EXCEPT !.demand_free = n.ready, !.any_free = Charge(l), !.order = p, !.flights = G \cup {n}]
<1>8. b = Enter(m, n)
    BY <1>4, <1>6
<1>9. /\ m \in LinkState /\ m.flights = G \cup {n} /\ m.order = p
      /\ m.demand_free = n.ready /\ m.any_free = Charge(l)
    BY <1>1, <1>6 DEF LinkState, FlightsOk, OrderOk
<1> HIDE DEF m, q
<1>10. b = [m EXCEPT !.order = q]
    BY <1>8, <1>9 DEF Enter, q
<1>11. /\ b \in LinkState /\ b.flights = G \cup {n} /\ b.order = q
       /\ b.demand_free = n.ready /\ b.any_free = Charge(l)
    BY <1>7, <1>9, <1>10 DEF LinkState, OrderOk
<1> QED BY <1>6, <1>7, <1>11 DEF LinkInv, b

(* A hit and a write leave the flights alone.                              *)
LEMMA TouchKeeps ==
    ASSUME NEW l, LinkInv(l), NEW k, LinkHas(l, k)
    PROVE  LinkInv(LinkTouch(l, k))
<1> DEFINE b == LinkTouch(l, k)  q == Rest(l, k)  e == FetchOf(l, k)  r == Append(q, e)
<1>1. l \in LinkState /\ OrderOk(l.order, l.flights)
    BY DEF LinkInv
<1>2. OrderOk(q, l.flights) /\ Len(q) = Len(l.order) - 1
    BY <1>1, FewerOrder
<1>3. e \in Range(l.order)
    BY DEF FetchOf, LinkHas, Range
<1>4. e \in Flight /\ (e.ready > 0 => e \in l.flights)
    BY <1>1, <1>3, RangeOfSeq DEF OrderOk
<1>5. b = [l EXCEPT !.order = r]
    BY DEF LinkTouch
<1> HIDE DEF b, q, e
<1>6. q \in Seq(Flight) /\ Len(q) \in Nat /\ DOMAIN q = 1 .. Len(q) /\ Cap \in Nat
    BY <1>2, LenProperties, TraceAssumption DEF OrderOk
<1>7. /\ r \in Seq(Flight) /\ Len(r) = Len(q) + 1 /\ \A i \in 1 .. Len(q) : r[i] = q[i]
      /\ r[Len(q) + 1] = e
    BY <1>4, <1>6, AppendProperties
<1> HIDE DEF r
<1>8. DOMAIN r = 1 .. Len(q) + 1
    BY <1>7, LenProperties
<1>9. \A f \in Range(r) : f \in Range(q) \/ f = e
    BY <1>6, <1>7, <1>8 DEF Range
<1>10. Len(r) <= Cap
    <2>1. Len(l.order) \in Nat /\ Len(l.order) <= Cap
        BY <1>1, LenProperties DEF OrderOk
    <2> QED BY <1>2, <1>6, <1>7, <2>1
<1>11. OrderOk(r, l.flights)
    BY <1>2, <1>4, <1>7, <1>9, <1>10 DEF OrderOk
<1>12. b \in LinkState /\ b.flights = l.flights /\ b.order = r
       /\ b.demand_free = l.demand_free /\ b.any_free = l.any_free
    BY <1>1, <1>5, <1>7 DEF LinkState
<1> QED BY <1>11, <1>12 DEF LinkInv, b

LEMMA LinkInvalidateKeeps ==
    ASSUME NEW l, LinkInv(l), NEW k
    PROVE  LinkInv(LinkInvalidate(l, k))
<1> DEFINE b == LinkInvalidate(l, k)  q == Rest(l, k)
<1>1. l \in LinkState /\ OrderOk(l.order, l.flights)
    BY DEF LinkInv
<1>2. OrderOk(q, l.flights)
    BY <1>1, FewerOrder
<1>3. b = [l EXCEPT !.order = q]
    BY DEF LinkInvalidate
<1> HIDE DEF b, q
<1>4. b \in LinkState /\ b.flights = l.flights /\ b.order = q
      /\ b.demand_free = l.demand_free /\ b.any_free = l.any_free
    BY <1>1, <1>2, <1>3 DEF LinkState, OrderOk
<1> QED BY <1>2, <1>4 DEF LinkInv, b

(* The inductive invariant.                                                *)
LinkSafe == LinkInv(link)

LEMMA LinkInit == LinkStart => LinkSafe
<1> SUFFICES ASSUME LinkStart PROVE LinkInv(link)
    BY DEF LinkSafe
<1>1. PICK disc \in {"fifo", "priority"} : link = LinkNew(disc)
    BY DEF LinkStart
<1>2. /\ link.demand_free = 0 /\ link.any_free = 0 /\ link.order = <<>> /\ link.flights = {}
      /\ link \in LinkState
    BY <1>1, EmptySeq DEF LinkNew, LinkState
<1>3. IsFiniteSet({}) /\ Ahead({}) = {}
    BY FS_EmptySet DEF Ahead
<1>4. \A x \in Nat : Work({}, x) = 0
    <2> TAKE x \in Nat
    <2>1. Upto({}, x) = {} /\ Cardinality({}) = 0
        BY FS_EmptySet DEF Upto
    <2> QED BY <2>1, LinkAssumption DEF Work
<1>5. Paced({}, 2 * Transfer) /\ Paced({}, Transfer)
    BY <1>4, LinkAssumption DEF Paced
<1>6. FlightsOk({}, 0, 0)
    BY <1>3, <1>5 DEF FlightsOk, Distinct
<1>7. OrderOk(<<>>, {})
    BY EmptyIs, EmptySeq, TraceAssumption DEF OrderOk
<1> QED BY <1>2, <1>6, <1>7 DEF LinkInv

LEMMA LinkStep == LinkSafe /\ [LinkNext]_link => LinkSafe'
<1> SUFFICES ASSUME LinkInv(link), [LinkNext]_link PROVE LinkInv(link')
    BY DEF LinkSafe
<1>1. ASSUME NEW k \in Objects, NEW gap \in Gaps, NEW pid \in Objects \cup {None}, LinkGet(k, gap, pid)
      PROVE  LinkInv(link')
    <2> DEFINE now == Advance(link, gap)
               got == IF LinkHas(now, k) THEN LinkTouch(now, k) ELSE DemandFetch(now, k)
    <2>1. link' = IF pid \in {None, k} \/ LinkHas(got, pid) THEN got ELSE PrefetchFetch(got, pid)
        BY <1>1 DEF LinkGet
    <2>2. gap \in Nat
        BY GapAssumption
    <2>3. LinkInv(now)
        BY <2>2, AdvanceKeeps
    <2> HIDE DEF now
    <2>4. LinkInv(got)
        BY <2>3, TouchKeeps, DemandKeeps
    <2> HIDE DEF got
    <2>5. pid \notin {None, k} => pid \in Objects
        OBVIOUS
    <2> QED BY <2>1, <2>4, <2>5, PrefetchKeeps
<1>2. ASSUME NEW k \in Objects, LinkWrite(k) PROVE LinkInv(link')
    BY <1>2, LinkInvalidateKeeps DEF LinkWrite
<1>3. CASE UNCHANGED link
    BY <1>3
<1> QED BY <1>1, <1>2, <1>3 DEF LinkNext

(* The link of link.rs creates no bandwidth, whatever the delays, the gaps *)
(* and the order of demand and prefetch.                                   *)
THEOREM LinkCreatesNone == LinkSpec => []LinkConserves
<1>1. LinkSafe => LinkConserves
    <2> SUFFICES ASSUME LinkInv(link) PROVE LinkConserves
        BY DEF LinkSafe
    <2> DEFINE F == link.flights  a == link.any_free
    <2>1. FlightsOk(F, link.demand_free, a) /\ OrderOk(link.order, F) /\ IsFiniteSet(F) /\ F \subseteq Flight
        BY DEF LinkInv, FlightsOk
    <2>2. ASSUME NEW f \in F
          PROVE  Transfer * (Cardinality({ g \in F : g.ready <= f.ready }) - 2) < f.ready
        <3> DEFINE c == Cardinality(Upto(F, f.ready))
        <3>1. f.ready \in Nat /\ c \in Nat /\ \A g \in F : g.ready \in Nat /\ g.ready > 0
            BY <2>1, WorkIs DEF Flight, FlightsOk
        <3>2. Work(F, 0) = 0
            <4>1. Upto(F, 0) = {}
                BY <3>1 DEF Upto
            <4> QED BY <4>1, FS_EmptySet, LinkAssumption DEF Work
        <3>3. Work(F, f.ready) - Work(F, 0) < f.ready - 0 + 2 * Transfer
            BY <2>1, <3>1 DEF FlightsOk, Paced
        <3>4. Work(F, f.ready) = Transfer * c
            BY DEF Work
        <3> HIDE DEF c
        <3>5. Transfer * (c - 2) = Transfer * c - 2 * Transfer /\ Transfer * c \in Nat /\ Transfer \in Nat
            BY <3>1, TimesIs, LinkAssumption
        <3>6. Transfer * (c - 2) < f.ready
            BY <3>1, <3>2, <3>3, <3>4, <3>5
        <3> QED BY <3>6 DEF c, Upto
    <2>3. F # {} => a = Max({ f.ready : f \in F })
        <3> SUFFICES ASSUME F # {} PROVE a = Max({ f.ready : f \in F })
            OBVIOUS
        <3> DEFINE R == { f.ready : f \in F }
        <3>1. a \in R /\ \A r \in R : r <= a /\ r \in Nat
            BY <2>1 DEF FlightsOk, Flight
        <3> HIDE DEF R
        <3>2. \A m \in R : (\A r \in R : r <= m) => m = a
            BY <3>1
        <3>3. Max(R) = a
            BY <3>1, <3>2 DEF Max
        <3> QED BY <3>3 DEF R
    <2>4. \A i \in DOMAIN link.order : link.order[i].ready > 0 => link.order[i] \in F
        BY <2>1 DEF OrderOk, Range
    <2>5. /\ \A f, g \in F : f.ready = g.ready => f = g
          /\ Len(link.order) <= Cap /\ link.demand_free <= a
        BY <2>1 DEF OrderOk, FlightsOk, Distinct
    <2> QED BY <2>2, <2>3, <2>4, <2>5 DEF LinkConserves
<1> QED BY <1>1, LinkInit, LinkStep, PTL DEF LinkSpec


(* The j-th position of a finite set of positions, and its number.         *)
UpTo(I, i) == { h \in I : h <= i }

(* The positions that are kept, in their order, without repetition.        *)
LEMMA NthIs ==
    ASSUME NEW I \in SUBSET Nat, IsFiniteSet(I)
    PROVE  /\ Cardinality(I) \in Nat
           /\ \A j \in 1 .. Cardinality(I) : Nth(I, j) \in I /\ Cardinality(UpTo(I, Nth(I, j))) = j
           /\ \A i \in I : Cardinality(UpTo(I, i)) \in 1 .. Cardinality(I)
                           /\ Nth(I, Cardinality(UpTo(I, i))) = i
           /\ \A i, j \in I : i < j <=> Cardinality(UpTo(I, i)) < Cardinality(UpTo(I, j))
<1> DEFINE n == Cardinality(I)
           rank == [i \in I |-> Cardinality(UpTo(I, i))]
<1>1. n \in Nat
    BY FS_CardinalityType
<1>2. ASSUME NEW i \in I
      PROVE  /\ UpTo(I, i) \in SUBSET I /\ IsFiniteSet(UpTo(I, i)) /\ i \in UpTo(I, i)
             /\ rank[i] = Cardinality(UpTo(I, i)) /\ rank[i] \in 1 .. n
    <2>1. UpTo(I, i) \in SUBSET I /\ i \in UpTo(I, i)
        BY DEF UpTo
    <2>2. IsFiniteSet(UpTo(I, i)) /\ Cardinality(UpTo(I, i)) <= n
        BY <2>1, FS_Subset
    <2>3. Cardinality(UpTo(I, i)) \in Nat /\ Cardinality(UpTo(I, i)) # 0
        BY <2>1, <2>2, FS_CardinalityType, FS_EmptySet
    <2> QED BY <1>1, <2>1, <2>2, <2>3
<1>3. ASSUME NEW i \in I, NEW j \in I, i < j
      PROVE  rank[i] < rank[j]
    <2>1. UpTo(I, i) \subseteq UpTo(I, j) /\ j \notin UpTo(I, i)
        <3>1. i \in Nat /\ j \in Nat /\ ~(j <= i)
            BY <1>3
        <3>2. ASSUME NEW h \in I, h <= i PROVE h <= j
            BY <1>3, <3>1, <3>2
        <3> QED BY <3>1, <3>2 DEF UpTo
    <2>2. Cardinality(UpTo(I, i)) <= Cardinality(UpTo(I, j)) /\ Cardinality(UpTo(I, i)) # Cardinality(UpTo(I, j))
        <3>1. IsFiniteSet(UpTo(I, j)) /\ UpTo(I, i) \in SUBSET UpTo(I, j) /\ UpTo(I, i) # UpTo(I, j)
            BY <1>2, <2>1
        <3> QED BY <3>1, FS_Subset
    <2>3. Cardinality(UpTo(I, i)) \in Nat /\ Cardinality(UpTo(I, j)) \in Nat
        BY <1>2, FS_CardinalityType
    <2> QED BY <1>2, <2>2, <2>3
<1>4. \A i, j \in I : i < j <=> rank[i] < rank[j]
    <2> SUFFICES ASSUME NEW i \in I, NEW j \in I PROVE i < j <=> rank[i] < rank[j]
        OBVIOUS
    <2>1. i \in Nat /\ j \in Nat /\ rank[i] \in Nat /\ rank[j] \in Nat
        BY <1>1, <1>2
    <2>2. CASE i < j
        BY <2>2, <1>3
    <2>3. CASE i = j
        BY <2>1, <2>3
    <2>4. CASE j < i
        BY <2>1, <2>4, <1>3
    <2> QED BY <2>1, <2>2, <2>3, <2>4
<1> HIDE DEF n
<1>5. rank \in Injection(I, 1 .. n)
    <2>1. rank \in [I -> 1 .. n]
        BY <1>2
    <2>2. \A i, j \in I : rank[i] = rank[j] => i = j
        BY <1>1, <1>2, <1>4
    <2> QED BY <2>1, <2>2 DEF Injection, IsInjective
<1>6. rank \in Surjection(I, 1 .. n)
    <2>1. IsFiniteSet(1 .. n) /\ Cardinality(1 .. n) = n
        BY <1>1, FS_Interval
    <2> QED BY <1>5, <2>1, FS_Injection DEF n
<1>7. ASSUME NEW j \in 1 .. n PROVE Nth(I, j) \in I /\ Cardinality(UpTo(I, Nth(I, j))) = j
    <2>1. \E i \in I : rank[i] = j
        BY <1>6 DEF Surjection, Range
    <2>2. \E i \in I : Cardinality({ h \in I : h <= i }) = j
        BY <2>1 DEF UpTo
    <2> QED BY <2>2 DEF Nth, UpTo
<1>8. ASSUME NEW i \in I PROVE Nth(I, Cardinality(UpTo(I, i))) = i
    <2>1. Cardinality(UpTo(I, i)) \in 1 .. n
        BY <1>2
    <2>2. Nth(I, Cardinality(UpTo(I, i))) \in I
          /\ Cardinality(UpTo(I, Nth(I, Cardinality(UpTo(I, i))))) = Cardinality(UpTo(I, i))
        BY <1>7, <2>1
    <2>3. rank[Nth(I, Cardinality(UpTo(I, i)))] = rank[i]
        BY <2>2
    <2> QED BY <1>5, <2>2, <2>3 DEF Injection, IsInjective
<1> QED BY <1>1, <1>2, <1>4, <1>7, <1>8 DEF n

(* Kept is the elements at the positions it is given, in their order.      *)
LEMMA KeptIs ==
    ASSUME NEW S, NEW q, q \in Seq(S), NEW I \in SUBSET DOMAIN q
    PROVE  /\ IsFiniteSet(I) /\ Kept(q, I) \in Seq(S) /\ Len(Kept(q, I)) = Cardinality(I)
           /\ Range(Kept(q, I)) = { q[i] : i \in I }
           /\ (\A i, j \in I : q[i] = q[j] => i = j) => IsInjective(Kept(q, I))
           /\ \A i \in I : /\ Cardinality(UpTo(I, i)) \in DOMAIN Kept(q, I)
                            /\ Kept(q, I)[Cardinality(UpTo(I, i))] = q[i]
<1> DEFINE r == Kept(q, I)  n == Cardinality(I)
<1>1. Len(q) \in Nat /\ DOMAIN q = 1 .. Len(q) /\ \A i \in DOMAIN q : q[i] \in S
    BY LenProperties, ElementOfSeq
<1>2. IsFiniteSet(I) /\ I \in SUBSET Nat
    <2>1. IsFiniteSet(1 .. Len(q)) /\ I \in SUBSET (1 .. Len(q))
        BY <1>1, FS_Interval
    <2>2. I \in SUBSET Nat
        BY <1>1
    <2> QED BY <2>1, <2>2, FS_Subset
<1>3. /\ n \in Nat
      /\ \A j \in 1 .. n : Nth(I, j) \in I /\ Cardinality(UpTo(I, Nth(I, j))) = j
      /\ \A i \in I : Cardinality(UpTo(I, i)) \in 1 .. n /\ Nth(I, Cardinality(UpTo(I, i))) = i
    BY <1>2, NthIs
<1>4. r = [j \in 1 .. n |-> q[Nth(I, j)]]
    BY DEF Kept
<1> HIDE DEF r, n
<1>5. r \in [1 .. n -> S]
    BY <1>1, <1>3, <1>4
<1>6. r \in Seq(S) /\ Len(r) = n /\ DOMAIN r = 1 .. n
    BY <1>3, <1>5, SeqDef, LenProperties
<1>7. \A i \in I : Cardinality(UpTo(I, i)) \in DOMAIN r /\ r[Cardinality(UpTo(I, i))] = q[i]
    BY <1>3, <1>4, <1>6
<1>8. Range(r) = { q[i] : i \in I }
    <2>1. \A j \in DOMAIN r : \E i \in I : r[j] = q[i]
        BY <1>3, <1>4, <1>6
    <2> QED BY <2>1, <1>7 DEF Range
<1>9. ASSUME \A i, j \in I : q[i] = q[j] => i = j PROVE IsInjective(r)
    <2> SUFFICES ASSUME NEW a \in DOMAIN r, NEW b \in DOMAIN r, r[a] = r[b] PROVE a = b
        BY DEF IsInjective
    <2>1. Nth(I, a) \in I /\ Nth(I, b) \in I /\ q[Nth(I, a)] = q[Nth(I, b)]
        BY <1>3, <1>4, <1>6
    <2>2. Nth(I, a) = Nth(I, b)
        BY <1>9, <2>1
    <2> QED BY <1>3, <1>6, <2>2
<1> QED BY <1>2, <1>6, <1>7, <1>8, <1>9 DEF r, n

LEMMA KeptList ==
    ASSUME NEW S, NEW q, IsList(q, S), NEW I \in SUBSET DOMAIN q
    PROVE  /\ IsList(Kept(q, I), S) /\ Len(Kept(q, I)) = Cardinality(I)
           /\ Range(Kept(q, I)) = { q[i] : i \in I } /\ Range(Kept(q, I)) \subseteq Range(q)
           /\ Range(q) \ Range(Kept(q, I)) = { q[i] : i \in DOMAIN q \ I }
<1>1. /\ IsList(Kept(q, I), S) /\ Len(Kept(q, I)) = Cardinality(I)
      /\ Range(Kept(q, I)) = { q[i] : i \in I }
    BY KeptIs DEF IsList, IsInjective
<1>2. Range(q) \ { q[i] : i \in I } = { q[i] : i \in DOMAIN q \ I }
    BY DEF IsList, IsInjective, Range
<1> QED BY <1>1, <1>2 DEF Range

(* The two parts of a list that is cut.                                    *)
LEMMA CutIs ==
    ASSUME NEW S, NEW q, IsList(q, S), NEW n \in 0 .. Len(q)
    PROVE  LET l == SubSeq(q, 1, n)  r == SubSeq(q, n + 1, Len(q))
           IN  /\ IsList(l, S) /\ IsList(r, S) /\ Len(l) = n /\ Len(r) = Len(q) - n
               /\ Range(l) \cap Range(r) = {} /\ Range(l) \cup Range(r) = Range(q)
               /\ Range(l) = { q[i] : i \in 1 .. n } /\ Range(r) = { q[i] : i \in n + 1 .. Len(q) }
<1> DEFINE l == SubSeq(q, 1, n)  r == SubSeq(q, n + 1, Len(q))
<1>1. q \in Seq(S) /\ Len(q) \in Nat /\ DOMAIN q = 1 .. Len(q) /\ \A i \in 1 .. Len(q) : q[i] \in S
    BY LenProperties, ElementOfSeq DEF IsList
<1>2. n \in Nat /\ Len(q) \in Nat /\ n <= Len(q)
    BY <1>1
<1>3. l \in Seq(S) /\ Len(l) = n /\ \A i \in 1 .. n : l[i] = q[i]
    <2>1. \A i \in 1 .. n : q[i] \in S
        BY <1>1, <1>2
    <2>2. 1 \in Int /\ n \in Int
        BY <1>2
    <2>3. l \in Seq(S) /\ Len(l) = (IF 1 <= n THEN n - 1 + 1 ELSE 0)
          /\ \A i \in 1 .. n - 1 + 1 : l[i] = q[1 + i - 1]
        BY <2>1, <2>2, SubSeqProperties
    <2> HIDE DEF l
    <2>4. \A i \in 1 .. n : 1 + i - 1 = i /\ i \in 1 .. n - 1 + 1
        BY <1>2
    <2> QED BY <1>2, <2>3, <2>4
<1>4. r \in Seq(S) /\ Len(r) = Len(q) - n /\ \A i \in 1 .. Len(q) - n : r[i] = q[n + i]
    <2>1. \A i \in n + 1 .. Len(q) : q[i] \in S
        BY <1>1, <1>2
    <2>2. n + 1 \in Int /\ Len(q) \in Int
        BY <1>1, <1>2
    <2>3. r \in Seq(S) /\ Len(r) = (IF n + 1 <= Len(q) THEN Len(q) - (n + 1) + 1 ELSE 0)
          /\ \A i \in 1 .. Len(q) - (n + 1) + 1 : r[i] = q[(n + 1) + i - 1]
        BY <2>1, <2>2, SubSeqProperties
    <2> HIDE DEF r
    <2>4. \A i \in 1 .. Len(q) - n : (n + 1) + i - 1 = n + i /\ i \in 1 .. Len(q) - (n + 1) + 1
        BY <1>1, <1>2
    <2>5. Len(r) = Len(q) - n
        <3>1. CASE n + 1 <= Len(q)
            BY <3>1, <1>1, <1>2, <2>3
        <3>2. CASE n = Len(q)
            <4>1. ~(n + 1 <= Len(q)) /\ Len(q) - n = 0
                BY <3>2, <1>1, <1>2
            <4> QED BY <4>1, <2>3
        <3>3. n + 1 <= Len(q) \/ n = Len(q)
            BY <1>2
        <3> QED BY <3>1, <3>2, <3>3
    <2>6. ASSUME NEW i \in 1 .. Len(q) - n PROVE r[i] = q[n + i]
        <3>1. (n + 1) + i - 1 = n + i /\ i \in 1 .. Len(q) - (n + 1) + 1
            BY <2>4
        <3> QED BY <2>3, <3>1
    <2> QED BY <2>3, <2>5, <2>6
<1> HIDE DEF l, r
<1>5. DOMAIN l = 1 .. n /\ DOMAIN r = 1 .. Len(q) - n
    BY <1>3, <1>4, LenProperties
<1>6. Range(l) = { q[i] : i \in 1 .. n }
    BY <1>3, <1>5 DEF Range
<1>7. Range(r) = { q[i] : i \in n + 1 .. Len(q) }
    <2>1. \A i \in n + 1 .. Len(q) : i - n \in 1 .. Len(q) - n /\ n + (i - n) = i
        BY <1>1, <1>2
    <2>2. \A i \in n + 1 .. Len(q) : r[i - n] = q[i]
        BY <1>4, <2>1
    <2>3. \A i \in 1 .. Len(q) - n : n + i \in n + 1 .. Len(q)
        BY <1>1, <1>2
    <2>4. \A j \in DOMAIN r : \E i \in n + 1 .. Len(q) : r[j] = q[i]
        BY <1>4, <1>5, <2>3
    <2>5. \A i \in n + 1 .. Len(q) : \E j \in DOMAIN r : r[j] = q[i]
        BY <1>5, <2>1, <2>2
    <2> QED BY <2>4, <2>5 DEF Range
<1>8. \A i, j \in 1 .. Len(q) : q[i] = q[j] => i = j
    BY <1>1 DEF IsList, IsInjective
<1>9. IsInjective(l) /\ IsInjective(r)
    <2>1. ASSUME NEW i \in DOMAIN l, NEW j \in DOMAIN l, l[i] = l[j] PROVE i = j
        BY <1>1, <1>2, <1>3, <1>5, <1>8, <2>1
    <2>2. ASSUME NEW i \in DOMAIN r, NEW j \in DOMAIN r, r[i] = r[j] PROVE i = j
        <3>1. n + i \in 1 .. Len(q) /\ n + j \in 1 .. Len(q) /\ q[n + i] = q[n + j]
            BY <1>1, <1>2, <1>4, <1>5, <2>2
        <3>2. n + i = n + j
            BY <1>8, <3>1
        <3> QED BY <1>2, <1>5, <3>2
    <2> QED BY <2>1, <2>2 DEF IsInjective
<1>10. Range(l) \cap Range(r) = {} /\ Range(l) \cup Range(r) = Range(q)
    <2>1. (1 .. n) \cap (n + 1 .. Len(q)) = {} /\ (1 .. n) \cup (n + 1 .. Len(q)) = 1 .. Len(q)
        BY <1>1, <1>2
    <2>2. \A i \in 1 .. n : \A j \in n + 1 .. Len(q) : q[i] # q[j]
        BY <1>1, <1>2, <1>8
    <2>3. Range(l) \cap Range(r) = {}
        BY <1>6, <1>7, <2>2
    <2>4. Range(q) = { q[i] : i \in 1 .. Len(q) }
        BY <1>1 DEF Range
    <2>5. Range(l) \cup Range(r) = Range(q)
        BY <1>6, <1>7, <2>1, <2>4
    <2> QED BY <2>3, <2>5
<1> QED BY <1>3, <1>4, <1>6, <1>7, <1>9, <1>10 DEF IsList, l, r

-----------------------------------------------------------------------------
(* The LRU simulator of sim.rs.                                            *)

SimEntries == [id : Objects, size : Nat, pf : BOOLEAN]
SimCaches == [cap : Nat, used : Int, order : Seq(SimEntries)]

(* The bytes of a set of entries, each named by its object and its place.  *)
Load(R) == UNION { {e.id} \X (1 .. e.size) : e \in R }

LEMMA SimNames ==
    /\ \A T : Sims!Cardinality(T) = Cardinality(T)
    /\ \A q : Sims!Bytes(q) = Cardinality(Load(Range(q)))
    /\ \A q, I : Sims!Kept(q, I) = Kept(q, I)
    /\ \A I : Sims!Min(I) = Min(I)
<1>4. ASSUME NEW T PROVE Sims!Cardinality(T) = Cardinality(T)
    BY DEF Sims!Cardinality, Cardinality
<1>1. ASSUME NEW q PROVE Sims!Bytes(q) = Cardinality(Load(Range(q)))
    BY <1>4 DEF Sims!Bytes, Sims!Held, Load, Sims!Range, Range
<1>2. ASSUME NEW q, NEW I PROVE Sims!Kept(q, I) = Kept(q, I)
    <2>1. \A j : Sims!Nth(I, j) = Nth(I, j)
        BY <1>4 DEF Sims!Nth, Nth
    <2> QED BY <1>4, <2>1 DEF Sims!Kept, Kept
<1>3. ASSUME NEW I PROVE Sims!Min(I) = Min(I)
    BY DEF Sims!Min, Min
<1> QED BY <1>1, <1>2, <1>3, <1>4

LEMMA FirstNumbers ==
    ASSUME NEW n \in Nat
    PROVE  IsFiniteSet(1 .. n) /\ Cardinality(1 .. n) = n
<1>1. IsFiniteSet(1 .. n) /\ Cardinality(1 .. n) = IF 1 > n THEN 0 ELSE n - 1 + 1
    BY FS_Interval
<1> QED BY <1>1

LEMMA LoadOne ==
    ASSUME NEW e \in SimEntries
    PROVE  IsFiniteSet(Load({e})) /\ Cardinality(Load({e})) = e.size
<1>1. Load({e}) = {e.id} \X (1 .. e.size)
    BY DEF Load
<1>2. e.size \in Nat
    BY DEF SimEntries
<1>3. IsFiniteSet({e.id}) /\ Cardinality({e.id}) = 1
    BY FS_Singleton
<1>4. IsFiniteSet(1 .. e.size) /\ Cardinality(1 .. e.size) = e.size
    BY <1>2, FirstNumbers
<1>5. IsFiniteSet({e.id} \X (1 .. e.size)) /\ Cardinality({e.id} \X (1 .. e.size)) = 1 * e.size
    <2> DEFINE I == {e.id}  J == 1 .. e.size  n == e.size
    <2>1. IsFiniteSet(I) /\ Cardinality(I) = 1 /\ IsFiniteSet(J) /\ Cardinality(J) = n
        BY <1>3, <1>4
    <2> HIDE DEF I, J, n
    <2>2. IsFiniteSet(I \X J) /\ Cardinality(I \X J) = Cardinality(I) * Cardinality(J)
        BY <2>1, FS_Product
    <2>3. IsFiniteSet(I \X J) /\ Cardinality(I \X J) = 1 * n
        BY <2>1, <2>2
    <2> QED BY <2>3 DEF I, J, n
<1>6. \A n \in Nat : 1 * n = n
    OBVIOUS
<1>7. Cardinality({e.id} \X (1 .. e.size)) = e.size
    BY <1>2, <1>5, <1>6
<1> QED BY <1>1, <1>5, <1>7

(* The bytes of entries of different objects are the sum of their sizes.   *)
LEMMA LoadIs ==
    ASSUME NEW R \in SUBSET SimEntries, IsFiniteSet(R)
    PROVE  IsFiniteSet(Load(R)) /\ Cardinality(Load(R)) \in Nat
<1> DEFINE part == [e \in R |-> {e.id} \X (1 .. e.size)]
<1>1. Load(R) = UNION Range(part)
    BY DEF Load, Range
<1>2. IsFiniteSet(Range(part))
    <2>1. part \in Surjection(R, Range(part))
        BY DEF Surjection, Range
    <2> QED BY <2>1, FS_Surjection
<1>3. \A T \in Range(part) : IsFiniteSet(T)
    <2> SUFFICES ASSUME NEW e \in R PROVE IsFiniteSet({e.id} \X (1 .. e.size))
        BY DEF Range
    <2>1. Load({e}) = {e.id} \X (1 .. e.size)
        BY DEF Load
    <2> QED BY <2>1, LoadOne
<1> QED BY <1>1, <1>2, <1>3, FS_UNION, FS_CardinalityType

(* Entries of different objects share no byte.                             *)
LEMMA LoadSum ==
    ASSUME NEW Q \in SUBSET SimEntries, NEW R \in SUBSET SimEntries, IsFiniteSet(Q), IsFiniteSet(R),
           Q \cap R = {}, Keyed(Q \cup R)
    PROVE  Cardinality(Load(Q \cup R)) = Cardinality(Load(Q)) + Cardinality(Load(R))
<1>1. Load(Q \cup R) = Load(Q) \cup Load(R)
    BY DEF Load
<1>2. Load(Q) \cap Load(R) = {}
    <2>1. \A e \in Q, f \in R : e.id # f.id
        BY DEF Keyed
    <2> QED BY <2>1 DEF Load
<1>3. /\ IsFiniteSet(Load(Q)) /\ Cardinality(Load(Q)) \in Nat
      /\ IsFiniteSet(Load(R)) /\ Cardinality(Load(R)) \in Nat
    BY LoadIs
<1>4. Cardinality(Load(Q) \cup Load(R)) = Cardinality(Load(Q)) + Cardinality(Load(R)) - Cardinality({})
    BY <1>2, <1>3, FS_Union
<1>5. Cardinality({}) = 0
    BY FS_EmptySet
<1>6. \A m, n \in Nat : m + n - 0 = m + n
    OBVIOUS
<1>7. Cardinality(Load(Q) \cup Load(R)) = Cardinality(Load(Q)) + Cardinality(Load(R))
    BY <1>3, <1>4, <1>5, <1>6
<1> QED BY <1>1, <1>7

LEMMA LoadLess ==
    ASSUME NEW R \in SUBSET SimEntries, IsFiniteSet(R), Keyed(R), NEW e \in R
    PROVE  /\ Cardinality(Load(R \ {e})) \in Nat /\ e.size \in Nat
           /\ Cardinality(Load(R \ {e})) = Cardinality(Load(R)) - e.size
<1>1. R \ {e} \in SUBSET SimEntries /\ {e} \in SUBSET SimEntries /\ (R \ {e}) \cup {e} = R /\ (R \ {e}) \cap {e} = {}
    OBVIOUS
<1>2. IsFiniteSet(R \ {e}) /\ IsFiniteSet({e})
    BY FS_Subset, FS_Singleton
<1>3. Keyed((R \ {e}) \cup {e})
    BY <1>1
<1>4. Cardinality(Load(R)) = Cardinality(Load(R \ {e})) + Cardinality(Load({e}))
    BY <1>1, <1>2, <1>3, LoadSum
<1>5. e.size \in Nat /\ Cardinality(Load({e})) = e.size
    BY LoadOne DEF SimEntries
<1>6. Cardinality(Load(R \ {e})) \in Nat
    BY <1>1, <1>2, LoadIs
<1> QED BY <1>4, <1>5, <1>6

LEMMA LoadMore ==
    ASSUME NEW R \in SUBSET SimEntries, IsFiniteSet(R), NEW e \in SimEntries, e \notin R, Keyed(R \cup {e})
    PROVE  /\ Cardinality(Load(R)) \in Nat /\ e.size \in Nat
           /\ Cardinality(Load(R \cup {e})) = Cardinality(Load(R)) + e.size
<1>1. {e} \in SUBSET SimEntries /\ R \cap {e} = {} /\ IsFiniteSet({e})
    BY FS_Singleton
<1>2. Cardinality(Load(R \cup {e})) = Cardinality(Load(R)) + Cardinality(Load({e}))
    BY <1>1, LoadSum
<1>3. e.size \in Nat /\ Cardinality(Load({e})) = e.size
    BY LoadOne DEF SimEntries
<1> QED BY <1>2, <1>3, LoadIs

(* A cache that may hold too much, and one that does not.                  *)
SimCounts(c) ==
    /\ c \in SimCaches /\ IsList(c.order, SimEntries) /\ Keyed(Range(c.order))
    /\ c.used = Cardinality(Load(Range(c.order)))
SimInv(c) == SimCounts(c) /\ c.used <= c.cap

LEMMA SimFinite ==
    ASSUME NEW c, SimCounts(c)
    PROVE  /\ Range(c.order) \in SUBSET SimEntries /\ IsFiniteSet(Range(c.order))
           /\ Cardinality(Range(c.order)) = Len(c.order)
           /\ c.used \in Nat
<1>1. IsFiniteSet(Range(c.order)) /\ Cardinality(Range(c.order)) = Len(c.order)
    BY RangeFinite DEF SimCounts
<1>2. Range(c.order) \in SUBSET SimEntries
    BY LenIs DEF SimCounts
<1> QED BY <1>1, <1>2, LoadIs DEF SimCounts

LEMMA SimNewIs ==
    ASSUME NEW cap \in Nat
    PROVE  SimInv(Sims!SimNew(cap))
<1>1. IsList(<<>>, SimEntries) /\ Range(<<>>) = {}
    BY EmptyIs
<1>2. Load({}) = {} /\ Keyed({})
    BY DEF Load, Keyed
<1>3. Sims!SimNew(cap) \in SimCaches
    BY <1>1 DEF Sims!SimNew, SimCaches, IsList
<1> DEFINE c == Sims!SimNew(cap)
<1>4. c.order = <<>> /\ c.used = 0 /\ c.cap = cap
    BY DEF Sims!SimNew
<1> HIDE DEF c
<1>5. Cardinality({}) = 0 /\ 0 <= cap
    BY FS_EmptySet
<1>6. SimInv(c)
    BY <1>1, <1>2, <1>3, <1>4, <1>5 DEF SimInv, SimCounts, c
<1> QED BY <1>6 DEF c

(* evict_to_fit leaves a cache within its capacity, and its counter true.  *)
LEMMA FitIs ==
    ASSUME NEW c, SimCounts(c)
    PROVE  SimInv(Sims!EvictToFit(c)) /\ Sims!EvictToFit(c).cap = c.cap
<1> DEFINE q == c.order
           load(i) == Cardinality(Load(Range(SubSeq(q, 1, i))))
           I == { i \in 0 .. Len(q) : c.used - load(i) <= c.cap \/ i = Len(q) }
           n == Min(I)
           l == SubSeq(q, 1, n)
           r == SubSeq(q, n + 1, Len(q))
<1>1. q \in Seq(SimEntries) /\ IsList(q, SimEntries) /\ Keyed(Range(q)) /\ c.cap \in Nat /\ c.used \in Nat
    BY SimFinite DEF SimCounts, SimCaches
<1>2. Len(q) \in Nat
    BY <1>1, LenProperties
<1>3. n \in I
    <2>1. I \in SUBSET Nat /\ Len(q) \in I
        BY <1>2
    <2> HIDE DEF I
    <2> QED BY <2>1, MinIs
<1>4. n \in 0 .. Len(q) /\ (c.used - load(n) <= c.cap \/ n = Len(q))
    BY <1>3
<1>5. Sims!EvictToFit(c) = [c EXCEPT !.order = r, !.used = @ - load(n)]
    BY SimNames DEF Sims!EvictToFit
<1> HIDE DEF n, I
<1>6. /\ IsList(l, SimEntries) /\ IsList(r, SimEntries) /\ Len(r) = Len(q) - n
      /\ Range(l) \cap Range(r) = {} /\ Range(l) \cup Range(r) = Range(q)
    BY <1>1, <1>4, CutIs
<1> HIDE DEF l, r, q
<1>7. IsFiniteSet(Range(l)) /\ IsFiniteSet(Range(r))
      /\ Range(l) \in SUBSET SimEntries /\ Range(r) \in SUBSET SimEntries
    BY <1>6, RangeFinite, LenIs
<1>8. Cardinality(Load(Range(q))) = Cardinality(Load(Range(l))) + Cardinality(Load(Range(r)))
    BY <1>1, <1>6, <1>7, LoadSum
<1>9. Cardinality(Load(Range(l))) \in Nat /\ Cardinality(Load(Range(r))) \in Nat
    BY <1>7, LoadIs
<1>10. load(n) = Cardinality(Load(Range(l)))
    BY DEF l
<1>11. c.used - load(n) = Cardinality(Load(Range(r)))
    <2>1. c.used = Cardinality(Load(Range(q)))
        BY DEF SimCounts, q
    <2> QED BY <1>8, <1>9, <1>10, <2>1
<1>12. c.used - load(n) <= c.cap
    <2>1. CASE n = Len(q)
        <3>1. Len(r) = 0
            BY <1>2, <1>6, <2>1
        <3>2. Range(r) = {}
            BY <1>6, <3>1, LenIs
        <3>3. Cardinality(Load(Range(r))) = 0
            BY <3>2, FS_EmptySet DEF Load
        <3> QED BY <1>1, <1>11, <3>3
    <2> QED BY <1>4, <2>1
<1>13. Keyed(Range(r))
    BY <1>1, <1>6 DEF Keyed
<1> DEFINE d == [c EXCEPT !.order = r, !.used = @ - load(n)]
<1>14. c \in SimCaches
    BY DEF SimCounts
<1>15. d.order = r /\ d.used = c.used - load(n) /\ d.cap = c.cap /\ d \in SimCaches
    <2>1. r \in Seq(SimEntries) /\ c.used - load(n) \in Int
        BY <1>6, <1>9, <1>11 DEF IsList
    <2> HIDE DEF load
    <2> QED BY <1>14, <2>1 DEF SimCaches
<1> HIDE DEF d
<1>16. Sims!EvictToFit(c) = d
    BY <1>5 DEF d
<1> QED BY <1>6, <1>11, <1>12, <1>13, <1>15, <1>16 DEF SimInv, SimCounts

(* What is left of the order without an object.                            *)
LEMMA SimOthersIs ==
    ASSUME NEW c, SimCounts(c), NEW k
    PROVE  /\ IsList(Sims!Others(c, k), SimEntries)
           /\ Range(Sims!Others(c, k)) = { e \in Range(c.order) : e.id # k }
<1> DEFINE q == c.order
           I == { i \in DOMAIN q : q[i].id # k }
<1>1. IsList(q, SimEntries) /\ I \in SUBSET DOMAIN q
    BY DEF SimCounts
<1>2. Sims!Others(c, k) = Kept(q, I)
    BY SimNames DEF Sims!Others
<1>3. IsList(Kept(q, I), SimEntries) /\ Range(Kept(q, I)) = { q[i] : i \in I }
    BY <1>1, KeptList
<1>4. { q[i] : i \in I } = { e \in Range(q) : e.id # k }
    BY DEF Range
<1> QED BY <1>2, <1>3, <1>4

(* The one entry of an object that is held.                                *)
LEMMA SimEntryIs ==
    ASSUME NEW c, SimCounts(c), NEW k, Sims!SimHas(c, k)
    PROVE  LET e == Sims!EntryOf(c, k)
           IN  /\ e \in Range(c.order) /\ e \in SimEntries /\ e.id = k /\ e.size \in Nat
               /\ Range(Sims!Others(c, k)) = Range(c.order) \ {e}
               /\ Cardinality(Load(Range(Sims!Others(c, k)))) \in Nat
               /\ Cardinality(Load(Range(Sims!Others(c, k)))) = c.used - e.size
<1> DEFINE e == Sims!EntryOf(c, k)  R == Range(c.order)
<1>1. R \in SUBSET SimEntries /\ IsFiniteSet(R) /\ Keyed(R) /\ c.used = Cardinality(Load(R))
    BY SimFinite DEF SimCounts
<1>2. \E f \in R : f.id = k
    BY DEF Sims!SimHas, Sims!Ids, Range
<1>3. e \in R /\ e.id = k
    BY <1>2 DEF Sims!EntryOf, Sims!Range, Range
<1> HIDE DEF e, R
<1>4. { f \in R : f.id # k } = R \ {e}
    BY <1>3, <1>1 DEF Keyed
<1>5. Range(Sims!Others(c, k)) = R \ {e}
    BY <1>4, SimOthersIs DEF R
<1>6. /\ Cardinality(Load(R \ {e})) \in Nat /\ e.size \in Nat
      /\ Cardinality(Load(R \ {e})) = Cardinality(Load(R)) - e.size
    BY <1>1, <1>3, LoadLess
<1> QED BY <1>1, <1>3, <1>5, <1>6 DEF R, e

LEMMA SimLacks ==
    ASSUME NEW c, SimCounts(c), NEW k, ~Sims!SimHas(c, k)
    PROVE  \A e \in Range(c.order) : e.id # k
BY DEF Sims!SimHas, Sims!Ids, Range

(* An entry at the recent end: what the cache held before may be too much  *)
(* now, and its counter says so.                                           *)
LEMMA SimEnteredIs ==
    ASSUME NEW c, SimCounts(c), NEW q, IsList(q, SimEntries), Range(q) \subseteq Range(c.order),
           NEW e \in SimEntries, \A f \in Range(q) : f.id # e.id,
           NEW n, n = Cardinality(Load(Range(q))) + e.size
    PROVE  SimCounts([c EXCEPT !.used = n, !.order = Append(q, e)])
<1> DEFINE d == [c EXCEPT !.used = n, !.order = Append(q, e)]
<1>1. /\ Range(q) \in SUBSET SimEntries /\ IsFiniteSet(Range(q)) /\ e \notin Range(q)
      /\ Keyed(Range(c.order)) /\ c \in SimCaches
    BY RangeFinite, LenIs DEF SimCounts
<1>2. Keyed(Range(q) \cup {e})
    BY <1>1 DEF Keyed
<1>3. /\ Cardinality(Load(Range(q))) \in Nat /\ e.size \in Nat
      /\ Cardinality(Load(Range(q) \cup {e})) = Cardinality(Load(Range(q))) + e.size
    BY <1>1, <1>2, LoadMore
<1>4. IsList(Append(q, e), SimEntries) /\ Range(Append(q, e)) = Range(q) \cup {e}
    BY <1>1, AppendIs DEF More
<1>5. Append(q, e) \in Seq(SimEntries) /\ n \in Int
    BY <1>3, <1>4 DEF IsList
<1>6. d \in SimCaches /\ d.used = n /\ d.order = Append(q, e)
    BY <1>1, <1>5 DEF SimCaches
<1> HIDE DEF d
<1>7. SimCounts(d)
    BY <1>2, <1>3, <1>4, <1>6 DEF SimCounts
<1> QED BY <1>7 DEF d

(* A hit re-sizes the entry, and its counter follows, whatever it evicts.  *)
LEMMA SimTouchIs ==
    ASSUME NEW c, SimCounts(c), NEW k \in Objects, NEW size \in Nat, Sims!SimHas(c, k)
    PROVE  SimInv(Sims!SimTouch(c, k, size)) /\ Sims!SimTouch(c, k, size).cap = c.cap
<1> DEFINE e == Sims!EntryOf(c, k)  q == Sims!Others(c, k)  f == Sims!Entry(k, size, FALSE)
           n == c.used - e.size + size
           d == [c EXCEPT !.used = n, !.order = Append(q, f)]
<1>1. f \in SimEntries /\ f.id = k /\ f.size = size
    BY DEF Sims!Entry, SimEntries
<1>2. /\ IsList(q, SimEntries) /\ Range(q) = { g \in Range(c.order) : g.id # k }
      /\ Cardinality(Load(Range(q))) = c.used - e.size
    BY SimOthersIs, SimEntryIs
<1>3. Sims!SimTouch(c, k, size) = Sims!EvictToFit(d)
    BY DEF Sims!SimTouch
<1>4. n = Cardinality(Load(Range(q))) + f.size
    BY <1>1, <1>2
<1> HIDE DEF e, q, f, n
<1>5. SimCounts(d)
    BY <1>1, <1>2, <1>4, SimEnteredIs
<1>6. d.cap = c.cap
    BY DEF SimCounts, SimCaches
<1> QED BY <1>3, <1>5, <1>6, FitIs

(* An insert counts what it adds and what it evicts.                       *)
LEMMA SimInsertIs ==
    ASSUME NEW c, SimInv(c), NEW k \in Objects, NEW size \in Nat, NEW pf \in BOOLEAN
    PROVE  SimInv(Sims!SimInsert(c, k, size, pf)) /\ Sims!SimInsert(c, k, size, pf).cap = c.cap
<1>1. SimCounts(c) /\ c \in SimCaches
    BY DEF SimInv, SimCounts
<1>2. CASE Sims!SimHas(c, k)
    <2> DEFINE e == Sims!EntryOf(c, k)  q == Sims!Others(c, k)
               d == [c EXCEPT !.order = Append(q, e)]
    <2>1. /\ IsList(q, SimEntries) /\ Range(q) = { g \in Range(c.order) : g.id # k }
          /\ e \in SimEntries /\ e.id = k /\ Range(q) \subseteq Range(c.order)
          /\ Cardinality(Load(Range(q))) = c.used - e.size /\ e.size \in Nat
        BY <1>1, <1>2, SimOthersIs, SimEntryIs
    <2>2. Sims!SimInsert(c, k, size, pf) = d
        BY <1>2 DEF Sims!SimInsert
    <2> HIDE DEF e, q
    <2>3. c.used \in Nat
        BY <1>1, SimFinite
    <2>4. c.used = Cardinality(Load(Range(q))) + e.size
        BY <2>1, <2>3
    <2>5. SimCounts([c EXCEPT !.used = c.used, !.order = Append(q, e)])
        BY <1>1, <2>1, <2>4, SimEnteredIs
    <2>6. [c EXCEPT !.used = c.used, !.order = Append(q, e)] = d
        BY <1>1 DEF SimCaches
    <2>7. d.cap = c.cap /\ d.used = c.used
        BY <1>1 DEF SimCaches
    <2> QED BY <2>2, <2>5, <2>6, <2>7 DEF SimInv
<1>3. CASE ~Sims!SimHas(c, k)
    <2> DEFINE e == Sims!Entry(k, size, pf)
               d == [c EXCEPT !.used = c.used + size, !.order = Append(c.order, e)]
    <2>1. e \in SimEntries /\ e.id = k /\ e.size = size
        BY DEF Sims!Entry, SimEntries
    <2>2. Sims!SimInsert(c, k, size, pf) = Sims!EvictToFit(d)
        BY <1>3 DEF Sims!SimInsert
    <2>3. IsList(c.order, SimEntries) /\ c.used = Cardinality(Load(Range(c.order)))
        BY <1>1 DEF SimCounts
    <2> HIDE DEF e
    <2>4. SimCounts(d)
        BY <1>1, <1>3, <2>1, <2>3, SimLacks, SimEnteredIs
    <2>5. d.cap = c.cap
        BY <1>1 DEF SimCaches
    <2> QED BY <2>2, <2>4, <2>5, FitIs
<1> QED BY <1>2, <1>3

(* A write gives back the bytes of the entry, once.                        *)
LEMMA SimInvalidateIs ==
    ASSUME NEW c, SimInv(c), NEW k \in Objects
    PROVE  SimInv(Sims!SimInvalidate(c, k)) /\ Sims!SimInvalidate(c, k).cap = c.cap
<1>1. SimCounts(c) /\ c \in SimCaches
    BY DEF SimInv, SimCounts
<1>2. CASE Sims!SimHas(c, k)
    <2> DEFINE e == Sims!EntryOf(c, k)  q == Sims!Others(c, k)
               d == [c EXCEPT !.used = @ - e.size, !.order = q]
    <2>1. /\ IsList(q, SimEntries) /\ Range(q) \subseteq Range(c.order)
          /\ Cardinality(Load(Range(q))) = c.used - e.size /\ Cardinality(Load(Range(q))) \in Nat /\ e.size \in Nat
        BY <1>1, <1>2, SimOthersIs, SimEntryIs
    <2>2. Sims!SimInvalidate(c, k) = d
        BY <1>2 DEF Sims!SimInvalidate
    <2> HIDE DEF e, q
    <2>3. d \in SimCaches /\ d.order = q /\ d.used = c.used - e.size /\ d.cap = c.cap
        <3>1. q \in Seq(SimEntries) /\ c.used \in Int
            BY <1>1, <2>1 DEF SimCaches, IsList
        <3>2. c.used - e.size \in Int
            BY <2>1, <3>1
        <3> HIDE DEF q
        <3> QED BY <1>1, <3>1, <3>2 DEF SimCaches
    <2>4. c.used \in Nat /\ c.used <= c.cap /\ c.cap \in Nat
        BY <1>1, SimFinite DEF SimInv, SimCaches
    <2> HIDE DEF d
    <2>5. d.used <= d.cap
        BY <2>1, <2>3, <2>4
    <2>6. Keyed(Range(q))
        BY <1>1, <2>1 DEF SimCounts, Keyed
    <2> QED BY <2>1, <2>2, <2>3, <2>5, <2>6 DEF SimInv, SimCounts
<1>3. CASE ~Sims!SimHas(c, k)
    BY <1>3 DEF Sims!SimInvalidate
<1> QED BY <1>2, <1>3

LEMMA DemandIs ==
    ASSUME NEW c, SimInv(c), NEW k \in Objects, NEW size \in Nat
    PROVE  SimInv(DemandSim(c, k, size)) /\ DemandSim(c, k, size).cap = c.cap
<1>1. SimCounts(c)
    BY DEF SimInv
<1> QED BY <1>1, SimTouchIs, SimInsertIs DEF DemandSim

LEMMA SimHolds ==
    ASSUME NEW c, SimInv(c)
    PROVE  Sims!SimBounded(c)
<1> DEFINE q == c.order  R == Range(q)  name == [e \in R |-> e.id]
<1>1. IsFiniteSet(R) /\ Cardinality(R) = Len(q) /\ Keyed(R) /\ c.used = Cardinality(Load(R)) /\ c.used <= c.cap
    BY SimFinite DEF SimInv, SimCounts
<1>2. Sims!Ids(c) = { e.id : e \in R }
    BY DEF Sims!Ids, Range
<1>3. name \in Surjection(R, { e.id : e \in R }) /\ name \in Injection(R, { e.id : e \in R })
    BY <1>1 DEF Surjection, Injection, IsInjective, Range, Keyed
<1>4. Cardinality({ e.id : e \in R }) = Len(q)
    BY <1>1, <1>3, FS_Surjection
<1> QED BY <1>1, <1>2, <1>4, SimNames DEF Sims!SimBounded

-----------------------------------------------------------------------------
(* Bounded recursion: what n steps of a function reach.                    *)

(* Induction up to a bound, over a set.                                    *)
LEMMA Upwards ==
    ASSUME NEW n \in Nat, NEW J, 0 \in J, \A i \in 1 .. n : i - 1 \in J => i \in J
    PROVE  0 .. n \subseteq J
<1> DEFINE B == { i \in 0 .. n : i \notin J }
<1> SUFFICES ASSUME B # {} PROVE FALSE
    OBVIOUS
<1>1. B \in SUBSET Nat
    OBVIOUS
<1>2. Min(B) \in B /\ \A i \in B : Min(B) <= i
    <2> HIDE DEF B
    <2> QED BY <1>1, MinIs
<1> DEFINE m == Min(B)
<1>3. m \in 0 .. n /\ m \notin J
    BY <1>2
<1> HIDE DEF m
<1>4. m \in 1 .. n /\ m - 1 \in 0 .. n
    BY <1>3
<1>5. m - 1 \notin J
    BY <1>3, <1>4
<1>6. m - 1 \in B
    BY <1>4, <1>5
<1> QED BY <1>2, <1>4, <1>6 DEF m

Run(g, n, T, c, step) ==
    g \in [0 .. n -> T] /\ g[0] = c /\ \A i \in 1 .. n : g[i] = step[i][g[i - 1]]

LEMMA Unrolled ==
    ASSUME NEW n, NEW T, NEW c, NEW step, n \in Nat, c \in T, step \in [1 .. n -> [T -> T]]
    PROVE  \E g : Run(g, n, T, c, step)
<1> DEFINE Runs(j) == \E g \in [0 .. j -> T] : g[0] = c /\ \A i \in 1 .. j : g[i] = step[i][g[i - 1]]
           J == { j \in 0 .. n : Runs(j) }
<1>1. 0 \in J
    <2> DEFINE g == [i \in 0 .. 0 |-> c]
    <2>1. g \in [0 .. 0 -> T] /\ g[0] = c /\ \A i \in 1 .. 0 : g[i] = step[i][g[i - 1]]
        OBVIOUS
    <2> HIDE DEF g
    <2>2. Runs(0)
        BY <2>1
    <2> HIDE DEF Runs
    <2> QED BY <2>2
<1>2. ASSUME NEW j \in 1 .. n, j - 1 \in J PROVE j \in J
    <2>1. PICK g \in [0 .. j - 1 -> T] : g[0] = c /\ \A i \in 1 .. j - 1 : g[i] = step[i][g[i - 1]]
        BY <1>2
    <2> DEFINE h == [i \in 0 .. j |-> IF i = j THEN step[j][g[j - 1]] ELSE g[i]]
    <2>2. j \in Nat /\ j - 1 \in 0 .. j - 1 /\ g[j - 1] \in T
        BY <2>1
    <2>3. step[j][g[j - 1]] \in T
        BY <2>2
    <2>4. \A i \in 0 .. j : i # j => i \in 0 .. j - 1
        BY <2>2
    <2>5. h \in [0 .. j -> T]
        BY <2>1, <2>3, <2>4
    <2>6. h[0] = c
        BY <2>1, <2>2
    <2>7. ASSUME NEW i \in 1 .. j PROVE h[i] = step[i][h[i - 1]]
        <3>1. i - 1 \in 0 .. j /\ i - 1 # j /\ i \in 0 .. j
            BY <2>2
        <3>2. h[i - 1] = g[i - 1]
            BY <3>1
        <3>3. CASE i = j
            BY <3>1, <3>2, <3>3
        <3>4. CASE i # j
            <4>1. i \in 1 .. j - 1
                BY <3>4, <2>2
            <4> QED BY <2>1, <3>1, <3>2, <3>4, <4>1
        <3> QED BY <3>3, <3>4
    <2> HIDE DEF h
    <2>8. Runs(j)
        BY <2>5, <2>6, <2>7
    <2> HIDE DEF Runs
    <2> QED BY <2>8
<1> HIDE DEF J, Runs
<1>3. 0 .. n \subseteq J
    BY <1>1, <1>2, Upwards
<1>4. Runs(n)
    <2>1. n \in J
        BY <1>3
    <2> QED BY <2>1 DEF J
<1> QED BY <1>4 DEF Runs, Run

(* Prefetching, object by object.                                          *)
LEMMA SpeculatedIs ==
    ASSUME NEW c, SimInv(c), NEW n \in Nat, NEW ranked \in [1 .. n -> Objects]
    PROVE  SimInv(Speculated(c, ranked)) /\ Speculated(c, ranked).cap = c.cap
<1> DEFINE T == { d \in SimCaches : SimInv(d) /\ d.cap = c.cap }
           Next1(d, k) == IF Sims!SimHas(d, k) THEN d ELSE Sims!SimInsert(d, k, 1, TRUE)
           step == [i \in 1 .. n |-> [d \in T |-> Next1(d, ranked[i])]]
           after == CHOOSE g : g = [i \in 0 .. n |-> IF i = 0 THEN c ELSE Next1(g[i - 1], ranked[i])]
<1>1. Len(ranked) = n
    <2>1. ranked \in Seq(Objects)
        BY SeqDef
    <2> QED BY <2>1, LenProperties
<1>2. Speculated(c, ranked) = after[n]
    BY <1>1 DEF Speculated
<1>3. \A d \in T, k \in Objects : Next1(d, k) \in T
    <2> SUFFICES ASSUME NEW d \in T, NEW k \in Objects PROVE Next1(d, k) \in T
        OBVIOUS
    <2>1. SimInv(d) /\ d.cap = c.cap
        OBVIOUS
    <2>2. 1 \in Nat /\ TRUE \in BOOLEAN
        OBVIOUS
    <2>3. SimInv(Next1(d, k)) /\ Next1(d, k).cap = c.cap
        BY <2>1, <2>2, SimInsertIs
    <2> HIDE DEF Next1
    <2> QED BY <2>3 DEF SimInv, SimCounts
<1> HIDE DEF Next1
<1>4. c \in T /\ step \in [1 .. n -> [T -> T]]
    <2>1. c \in T
        BY DEF SimInv, SimCounts
    <2> HIDE DEF T
    <2> QED BY <2>1, <1>3
<1>5. \A i \in 1 .. n, d \in T : step[i][d] = Next1(d, ranked[i])
    OBVIOUS
<1> HIDE DEF step, T
<1>6. PICK g : Run(g, n, T, c, step)
    BY <1>4, Unrolled
<1>7. g = [i \in 0 .. n |-> IF i = 0 THEN c ELSE Next1(g[i - 1], ranked[i])]
    <2>1. \A i \in 0 .. n : i # 0 => i \in 1 .. n /\ i - 1 \in 0 .. n
        OBVIOUS
    <2>2. \A i \in 0 .. n : g[i] = IF i = 0 THEN c ELSE Next1(g[i - 1], ranked[i])
        BY <1>5, <1>6, <2>1 DEF Run
    <2> QED BY <1>6, <2>2 DEF Run
<1>8. after = [i \in 0 .. n |-> IF i = 0 THEN c ELSE Next1(after[i - 1], ranked[i])]
    BY <1>7
<1> HIDE DEF after
<1> DEFINE J == { i \in 0 .. n : after[i] \in T }
<1>9. 0 \in J
    BY <1>4, <1>8
<1>10. ASSUME NEW i \in 1 .. n, i - 1 \in J PROVE i \in J
    <2>1. after[i] = Next1(after[i - 1], ranked[i])
        BY <1>8
    <2> QED BY <1>3, <1>10, <2>1
<1> HIDE DEF J
<1>11. n \in J
    <2>1. 0 .. n \subseteq J
        BY <1>9, <1>10, Upwards
    <2> QED BY <2>1
<1>12. after[n] \in T
    BY <1>11 DEF J
<1> QED BY <1>2, <1>12 DEF T

-----------------------------------------------------------------------------
(* The self-tuned pool of hybrid.rs, whose segment is one of WLfu's.       *)

LEMMA MaxIs ==
    ASSUME NEW n \in Nat, NEW I \in SUBSET (0 .. n), I # {}
    PROVE  Max(I) \in I /\ \A i \in I : i <= Max(I)
<1> DEFINE J == { n - i : i \in I }
<1>1. J \in SUBSET Nat /\ J # {}
    <2>1. \A i \in 0 .. n : n - i \in Nat
        OBVIOUS
    <2> QED BY <2>1
<1>2. Min(J) \in J /\ \A j \in J : Min(J) <= j
    <2> HIDE DEF J
    <2> QED BY <1>1, MinIs
<1>3. PICK m \in I : Min(J) = n - m
    BY <1>2
<1>4. ASSUME NEW i \in I PROVE i <= m
    <2>1. n - i \in J
        OBVIOUS
    <2>2. n - m <= n - i
        BY <1>2, <1>3, <2>1
    <2> QED BY <2>2
<1>5. \E x \in I : \A y \in I : x >= y
    BY <1>4
<1>6. Max(I) \in I /\ \A y \in I : Max(I) >= y
    BY <1>5 DEF Max
<1> QED BY <1>6

LEMMA PoolNames ==
    /\ \A T : Pool!Cardinality(T) = Cardinality(T)
    /\ \A q, I : Pool!Kept(q, I) = Kept(q, I)
    /\ \A I : Pool!Max(I) = Max(I)
    /\ \A q : Pool!Unused(q) = Unused(q) /\ Pool!Ids(q) = Ids(q)
    /\ \A q, k : /\ Pool!EntryOf(q, k) = EntryOf(q, k) /\ Pool!Others(q, k) = Others(q, k)
                 /\ Pool!Touch(q, k) = Touch(q, k) /\ Pool!Bump(q, k) = Bump(q, k)
    /\ \A k, pf : Pool!Entry(k, pf) = Entry(k, pf)
<1>1. ASSUME NEW T PROVE Pool!Cardinality(T) = Cardinality(T)
    BY DEF Pool!Cardinality, Cardinality
<1>2. ASSUME NEW q, NEW I PROVE Pool!Kept(q, I) = Kept(q, I)
    <2>1. \A j : Pool!Nth(I, j) = Nth(I, j)
        BY <1>1 DEF Pool!Nth, Nth
    <2> QED BY <1>1, <2>1 DEF Pool!Kept, Kept
<1>3. ASSUME NEW I PROVE Pool!Max(I) = Max(I) /\ Pool!Min(I) = Min(I)
    BY DEF Pool!Max, Max, Pool!Min, Min
<1>4. ASSUME NEW q PROVE Pool!Unused(q) = Unused(q) /\ Pool!Ids(q) = Ids(q)
    BY <1>1 DEF Pool!Unused, Unused, Pool!Ids, Ids, Pool!Range, Range
<1>5. ASSUME NEW q, NEW k PROVE Pool!EntryOf(q, k) = EntryOf(q, k)
    BY DEF Pool!EntryOf, EntryOf, Pool!Range, Range
<1>6. ASSUME NEW q, NEW i PROVE Pool!RemoveAt(q, i) = RemoveAt(q, i)
    BY DEF Pool!RemoveAt, RemoveAt
<1>7. ASSUME NEW q, NEW k PROVE Pool!Others(q, k) = Others(q, k)
    BY <1>3, <1>6 DEF Pool!Others, Others, Pool!RemoveFirstMatch, RemoveFirstMatch, Pool!SelectInSeq, SelectInSeq
<1>8. ASSUME NEW k, NEW pf PROVE Pool!Entry(k, pf) = Entry(k, pf)
    BY DEF Pool!Entry, Entry
<1>9. ASSUME NEW q, NEW k PROVE Pool!Touch(q, k) = Touch(q, k) /\ Pool!Bump(q, k) = Bump(q, k)
    <2>1. Pool!Entry(k, FALSE) = Entry(k, FALSE)
        BY DEF Pool!Entry, Entry
    <2>2. Pool!Ids(q) = Ids(q) /\ Pool!Others(q, k) = Others(q, k) /\ Pool!EntryOf(q, k) = EntryOf(q, k)
        BY <1>4, <1>5, <1>7
    <2> QED BY <2>1, <2>2 DEF Touch, Bump, Pool!Touch, Pool!Bump
<1> QED BY <1>1, <1>2, <1>3, <1>4, <1>5, <1>7, <1>8, <1>9

PoolCaches == [seg : Seq(Cell), cap : Nat, pf_unused : Int, pf_budget : Nat, budget_max : Nat, drops : Nat]

(* A pool that may hold too much, and one that does not.                   *)
PoolCounts(p) ==
    /\ p \in PoolCaches /\ IsList(p.seg, Cell) /\ Keyed(Range(p.seg))
    /\ p.pf_unused = Unused(p.seg)
    /\ p.pf_budget \in 1 .. p.budget_max
PoolInv(p) == PoolCounts(p) /\ Len(p.seg) <= p.cap

PoolOwed(p) == Unused(p.seg) + p.drops

LEMMA PoolNumbers ==
    ASSUME NEW p, PoolCounts(p)
    PROVE  /\ Unused(p.seg) \in Nat /\ p.drops \in Nat /\ PoolOwed(p) \in Nat /\ Len(p.seg) \in Nat
           /\ p.cap \in Nat /\ p.pf_budget \in Nat /\ p.budget_max \in Nat
<1>1. Unused(p.seg) \in Nat /\ Len(p.seg) \in Nat
    BY LentIs, LenIs DEF PoolCounts
<1>2. p.drops \in Nat /\ p.cap \in Nat /\ p.pf_budget \in Nat /\ p.budget_max \in Nat
    BY DEF PoolCounts, PoolCaches
<1> QED BY <1>1, <1>2 DEF PoolOwed

(* A new pool owes nothing.                                                *)
LEMMA PoolNewIs ==
    ASSUME NEW cap \in Nat, NEW most \in Nat
    PROVE  PoolInv(Pool!PoolNew(cap, most)) /\ PoolOwed(Pool!PoolNew(cap, most)) = 0
<1> DEFINE p == Pool!PoolNew(cap, most)
<1>1. IsList(<<>>, Cell) /\ Range(<<>>) = {} /\ Len(<<>>) = 0
    BY EmptyIs
<1>2. Unused(<<>>) = 0
    BY <1>1, FS_EmptySet, LentIs DEF Lent
<1>3. Max({cap, 2}) \in Nat /\ Max({most, 1}) \in Nat /\ Max({most, 1}) >= 1
    BY MaxOfTwo
<1>4. p = [seg |-> <<>>, cap |-> Max({cap, 2}), pf_unused |-> 0, pf_budget |-> 1,
           budget_max |-> Max({most, 1}), drops |-> 0]
    BY PoolNames DEF Pool!PoolNew, Pool!Floor2
<1> HIDE DEF p
<1>5. p \in PoolCaches
    BY <1>1, <1>3, <1>4 DEF PoolCaches, IsList
<1>6. Keyed({})
    BY DEF Keyed
<1>7. /\ p.seg = <<>> /\ p.pf_unused = 0 /\ p.pf_budget = 1 /\ p.drops = 0
      /\ p.cap = Max({cap, 2}) /\ p.budget_max = Max({most, 1})
    BY <1>4
<1>8. PoolCounts(p)
    <2>1. IsList(p.seg, Cell) /\ Keyed(Range(p.seg)) /\ p.pf_unused = Unused(p.seg)
        BY <1>1, <1>2, <1>6, <1>7
    <2>2. p.pf_budget \in 1 .. p.budget_max
        BY <1>3, <1>7
    <2> QED BY <1>5, <2>1, <2>2 DEF PoolCounts
<1>9. PoolInv(p) /\ PoolOwed(p) = 0
    BY <1>1, <1>2, <1>3, <1>7, <1>8 DEF PoolInv, PoolOwed
<1> QED BY <1>9 DEF p

LEMMA CreditIs ==
    ASSUME NEW p, PoolCounts(p), NEW k
    PROVE  /\ (IF Pool!PFirstUse(p, k) THEN 1 ELSE 0)
                = (IF k \in Ids(p.seg) THEN Credit(EntryOf(p.seg, k)) ELSE 0)
           /\ Pool!PHas(p, k) <=> k \in Ids(p.seg)
<1>1. Pool!PHas(p, k) <=> k \in Ids(p.seg)
    BY PoolNames DEF Pool!PHas
<1>2. Pool!PFirstUse(p, k) <=> k \in Ids(p.seg) /\ EntryOf(p.seg, k).pf
    BY <1>1, PoolNames DEF Pool!PFirstUse
<1> QED BY <1>1, <1>2 DEF Credit

(* A hit turns the credit of a prefetch into a use, once.                  *)
LEMMA PoolAccessIs ==
    ASSUME NEW p, PoolInv(p), NEW k \in Objects
    PROVE  LET b == Pool!PAccess(p, k)
           IN  /\ PoolInv(b) /\ b.drops = p.drops
               /\ PoolOwed(b) = PoolOwed(p) - (IF Pool!PFirstUse(p, k) THEN 1 ELSE 0)
<1> DEFINE used == IF Pool!PFirstUse(p, k) THEN 1 ELSE 0
           q == Touch(p.seg, k)  n == p.pf_unused - used  b == Pool!PAccess(p, k)
<1>1. p \in PoolCaches /\ PoolCounts(p) /\ Len(p.seg) <= p.cap
    BY DEF PoolInv, PoolCounts
<1>2. used \in {0, 1}
    OBVIOUS
<1>3. /\ IsList(q, Cell) /\ Keyed(Range(q)) /\ Len(q) = Len(p.seg)
      /\ Unused(q) = Unused(p.seg) - used
    BY <1>1, TouchIs, CreditIs DEF PoolCounts
<1>4. b = [p EXCEPT !.seg = q, !.pf_unused = n]
    BY PoolNames DEF Pool!PAccess
<1>5. b = [p EXCEPT !.seg = q, !.pf_unused = n, !.pf_budget = p.pf_budget, !.drops = p.drops]
    BY <1>1, <1>4 DEF PoolCaches
<1> HIDE DEF used, q
<1>6. n = Unused(q) /\ n \in Int /\ p.pf_budget \in Nat /\ p.drops \in Nat /\ Unused(p.seg) \in Nat
    BY <1>1, <1>2, <1>3, PoolNumbers DEF PoolCounts
<1> HIDE DEF n, b
<1>7. /\ b \in PoolCaches /\ b.seg = q /\ b.pf_unused = n /\ b.pf_budget = p.pf_budget /\ b.drops = p.drops
      /\ b.cap = p.cap /\ b.budget_max = p.budget_max
    BY <1>1, <1>3, <1>5, <1>6 DEF PoolCaches, IsList
<1>8. PoolInv(b)
    <2>1. b.pf_budget \in 1 .. b.budget_max
        BY <1>1, <1>7 DEF PoolCounts
    <2> QED BY <1>1, <1>3, <1>6, <1>7, <2>1 DEF PoolInv, PoolCounts
<1>9. PoolOwed(b) = PoolOwed(p) - used
    BY <1>2, <1>3, <1>6, <1>7 DEF PoolOwed
<1> QED BY <1>7, <1>8, <1>9 DEF b, used

LEMMA RewardIs ==
    ASSUME NEW p, PoolInv(p)
    PROVE  LET b == Pool!Reward(p)
           IN  PoolInv(b) /\ b.drops = p.drops /\ PoolOwed(b) = PoolOwed(p)
<1> DEFINE b == Pool!Reward(p)  n == Min({p.pf_budget + 1, p.budget_max})
<1>1. p \in PoolCaches /\ p.pf_budget \in 1 .. p.budget_max /\ p.pf_budget \in Nat /\ p.budget_max \in Nat
    BY PoolNumbers DEF PoolInv, PoolCounts
<1>2. n \in 1 .. p.budget_max /\ n \in Nat
    BY <1>1, MinOfTwo
<1>3. b = [p EXCEPT !.pf_budget = n]
    BY DEF Pool!Reward, Pool!Min, Min
<1> HIDE DEF n, b
<1>4. /\ b \in PoolCaches /\ b.seg = p.seg /\ b.pf_unused = p.pf_unused /\ b.pf_budget = n /\ b.drops = p.drops
      /\ b.cap = p.cap /\ b.budget_max = p.budget_max
    BY <1>1, <1>2, <1>3 DEF PoolCaches
<1>5. PoolInv(b)
    BY <1>2, <1>4 DEF PoolInv, PoolCounts
<1> QED BY <1>4, <1>5 DEF b, PoolOwed

LEMMA PenalizedIs ==
    ASSUME NEW p, PoolInv(p), NEW n \in Nat
    PROVE  LET b == Pool!Drained(Pool!PenalizeBy(p, n))
           IN  PoolInv(b) /\ b.drops = 0 /\ PoolOwed(b) = PoolOwed(p) - p.drops
<1> DEFINE B == p.pf_budget  I == {1} \cup { x \in 1 .. B : x * 2 ^ n <= B }
           b == Pool!Drained(Pool!PenalizeBy(p, n))
<1>1. p \in PoolCaches /\ B \in 1 .. p.budget_max /\ B \in Nat /\ p.budget_max \in Nat /\ p.drops \in Nat
      /\ Unused(p.seg) \in Nat
    BY PoolNumbers DEF PoolInv, PoolCounts
<1>2. I \in SUBSET (0 .. B) /\ I # {} /\ \A i \in I : i \in 1 .. p.budget_max
    BY <1>1
<1>3. Pool!Max(I) = Max(I)
    BY PoolNames
<1>4. b = [p EXCEPT !.pf_budget = Pool!Max(I), !.drops = 0]
    BY <1>1 DEF Pool!Drained, Pool!PenalizeBy, PoolCaches
<1> HIDE DEF b, I
<1>5. Max(I) \in I
    <2>1. \A n0 \in Nat : \A J \in SUBSET (0 .. n0) : J # {} => Max(J) \in J
        BY MaxIs
    <2> QED BY <1>1, <1>2, <2>1
<1>6. Max(I) \in 1 .. p.budget_max /\ Max(I) \in Nat
    <2>1. Max(I) \in 1 .. p.budget_max
        BY <1>2, <1>5
    <2> QED BY <1>1, <2>1
<1>7. /\ b \in PoolCaches /\ b.seg = p.seg /\ b.pf_unused = p.pf_unused /\ b.pf_budget = Max(I) /\ b.drops = 0
      /\ b.cap = p.cap /\ b.budget_max = p.budget_max
    BY <1>1, <1>3, <1>4, <1>6 DEF PoolCaches
<1>8. PoolInv(b)
    BY <1>6, <1>7 DEF PoolInv, PoolCounts
<1>9. PoolOwed(b) = PoolOwed(p) - p.drops
    BY <1>1, <1>7 DEF PoolOwed
<1> QED BY <1>7, <1>8, <1>9 DEF b

(* What is shed is counted as dropped when it was prefetched and not used. *)
LEMMA ShedIs ==
    ASSUME NEW p, PoolCounts(p), NEW I \in SUBSET DOMAIN p.seg
    PROVE  LET b == Pool!Shed(p, I)
           IN  /\ PoolCounts(b) /\ PoolOwed(b) = PoolOwed(p) /\ b.cap = p.cap
               /\ Len(b.seg) = Cardinality(I) /\ Len(b.seg) <= Len(p.seg)
<1> DEFINE q == Kept(p.seg, I)  n == Unused(p.seg) - Unused(q)  b == Pool!Shed(p, I)
           u == p.pf_unused - n  d == p.drops + n
<1>1. p \in PoolCaches /\ IsList(p.seg, Cell) /\ Keyed(Range(p.seg)) /\ p.pf_unused = Unused(p.seg)
    BY DEF PoolCounts
<1>2. IsList(q, Cell) /\ Len(q) = Cardinality(I) /\ Range(q) \subseteq Range(p.seg)
    BY <1>1, KeptList
<1>3. Pool!Kept(p.seg, I) = q /\ Pool!Unused(p.seg) = Unused(p.seg) /\ Pool!Unused(q) = Unused(q)
    BY PoolNames
<1>4. b = [p EXCEPT !.seg = q, !.pf_unused = u, !.drops = d]
    BY <1>3 DEF Pool!Shed
<1>5. b = [p EXCEPT !.seg = q, !.pf_unused = u, !.pf_budget = p.pf_budget, !.drops = d]
    BY <1>1, <1>4 DEF PoolCaches
<1> HIDE DEF q, b
<1>6. Unused(q) \in Nat /\ Unused(p.seg) \in Nat /\ Unused(q) <= Unused(p.seg)
    <2>1. Lent(Range(q)) \subseteq Lent(Range(p.seg))
        BY <1>2 DEF Lent
    <2>2. IsFiniteSet(Lent(Range(p.seg))) /\ Unused(p.seg) = Cardinality(Lent(Range(p.seg))) /\ Unused(p.seg) \in Nat
        BY <1>1, LentIs
    <2>3. Unused(q) = Cardinality(Lent(Range(q))) /\ Unused(q) \in Nat
        BY <1>2, LentIs
    <2>4. Cardinality(Lent(Range(q))) <= Cardinality(Lent(Range(p.seg)))
        BY <2>1, <2>2, FS_Subset
    <2> QED BY <2>2, <2>3, <2>4
<1>7. /\ u = Unused(q) /\ d \in Nat /\ p.pf_budget \in Nat
      /\ Unused(q) + d = Unused(p.seg) + p.drops /\ u \in Int
    BY <1>1, <1>6, PoolNumbers
<1>8. Len(q) <= Len(p.seg)
    <2>1. /\ IsFiniteSet(Range(p.seg)) /\ Cardinality(Range(p.seg)) = Len(p.seg)
          /\ Cardinality(Range(q)) = Len(q)
        BY <1>1, <1>2, RangeFinite
    <2>2. Cardinality(Range(q)) <= Cardinality(Range(p.seg))
        BY <1>2, <2>1, FS_Subset
    <2> QED BY <2>1, <2>2
<1> HIDE DEF u, d, n
<1>9. /\ b \in PoolCaches /\ b.seg = q /\ b.pf_unused = u /\ b.pf_budget = p.pf_budget /\ b.drops = d
      /\ b.cap = p.cap /\ b.budget_max = p.budget_max
    BY <1>1, <1>2, <1>5, <1>7 DEF PoolCaches, IsList
<1>10. PoolCounts(b)
    <2>1. b.pf_budget \in 1 .. b.budget_max
        BY <1>9 DEF PoolCounts
    <2>2. Keyed(Range(q))
        BY <1>1, <1>2 DEF Keyed
    <2> QED BY <1>2, <1>7, <1>9, <2>1, <2>2 DEF PoolCounts
<1>11. PoolOwed(b) = PoolOwed(p)
    BY <1>7, <1>9 DEF PoolOwed
<1> QED BY <1>2, <1>8, <1>9, <1>10, <1>11 DEF b

(* What is shed to fit comes off the segment and, unused, onto the drops.  *)
LEMMA PoolFitIs ==
    ASSUME NEW p, PoolCounts(p)
    PROVE  PoolInv(Pool!PoolFit(p)) /\ PoolOwed(Pool!PoolFit(p)) = PoolOwed(p)
<1>1. PICK I \in SUBSET DOMAIN p.seg : Pool!TrimSpeculation(p) = Pool!Shed(p, I)
    BY DEF Pool!TrimSpeculation
<1> DEFINE b == Pool!TrimSpeculation(p)  over == Pool!Max({Len(b.seg) - b.cap, 0})
           J == over + 1 .. Len(b.seg)
<1>2. PoolCounts(b) /\ PoolOwed(b) = PoolOwed(p) /\ b.cap = p.cap
    BY <1>1, ShedIs
<1>3. Pool!PoolFit(p) = Pool!Shed(b, J)
    BY DEF Pool!PoolFit, Pool!TrimTail
<1> HIDE DEF b
<1>4. Len(b.seg) \in Nat /\ b.cap \in Nat /\ b.seg \in Seq(Cell)
    BY <1>2, PoolNumbers DEF PoolCounts, IsList
<1>5. over = IF Len(b.seg) - b.cap >= 0 THEN Len(b.seg) - b.cap ELSE 0
    BY <1>4, MaxOfTwo, PoolNames
<1> HIDE DEF over
<1>6. over \in Nat /\ over <= Len(b.seg) /\ Len(b.seg) - over <= b.cap
    BY <1>4, <1>5
<1>7. J \in SUBSET DOMAIN b.seg /\ Cardinality(J) = Len(b.seg) - over
    <2>1. DOMAIN b.seg = 1 .. Len(b.seg)
        BY <1>4, LenProperties
    <2> DEFINE first == over + 1  last == Len(b.seg)
    <2>2. first \in Int /\ last \in Int /\ J = first .. last
        BY <1>4, <1>6
    <2> HIDE DEF first, last, J
    <2>3. Cardinality(J) = IF first > last THEN 0 ELSE last - first + 1
        BY <2>2, FS_Interval
    <2>4. Cardinality(J) = Len(b.seg) - over
        BY <1>4, <1>6, <2>3 DEF first, last
    <2>5. J \in SUBSET DOMAIN b.seg
        BY <1>4, <1>6, <2>1 DEF J
    <2> QED BY <2>4, <2>5
<1> HIDE DEF J
<1>8. /\ PoolCounts(Pool!Shed(b, J)) /\ PoolOwed(Pool!Shed(b, J)) = PoolOwed(b)
      /\ Pool!Shed(b, J).cap = b.cap /\ Len(Pool!Shed(b, J).seg) = Cardinality(J)
    BY <1>2, <1>7, ShedIs
<1> QED BY <1>2, <1>3, <1>6, <1>7, <1>8 DEF PoolInv

(* An insert into the pool: trimmed to the budget, then evicted to fit.    *)
LEMMA PoolInsertIs ==
    ASSUME NEW p, PoolInv(p), NEW k \in Objects, NEW pf \in BOOLEAN
    PROVE  LET b == Pool!PInsert(p, k, pf)
           IN  PoolInv(b) /\ PoolOwed(b) = PoolOwed(p) + (IF pf /\ ~Pool!PHas(p, k) THEN 1 ELSE 0)
<1>1. p \in PoolCaches /\ PoolCounts(p) /\ IsList(p.seg, Cell) /\ Keyed(Range(p.seg)) /\ Len(p.seg) <= p.cap
    BY DEF PoolInv, PoolCounts
<1>2. Pool!PHas(p, k) <=> k \in Ids(p.seg)
    BY <1>1, CreditIs
<1>3. CASE k \in Ids(p.seg)
    <2> DEFINE q == Bump(p.seg, k)  b == [p EXCEPT !.seg = q]
    <2>1. IsList(q, Cell) /\ Range(q) = Range(p.seg) /\ Len(q) = Len(p.seg) /\ Unused(q) = Unused(p.seg)
        BY <1>1, BumpIs
    <2>2. Pool!PInsert(p, k, pf) = b
        BY <1>2, <1>3, PoolNames DEF Pool!PInsert
    <2> HIDE DEF q
    <2>3. /\ b \in PoolCaches /\ b.seg = q /\ b.pf_unused = p.pf_unused /\ b.pf_budget = p.pf_budget
          /\ b.drops = p.drops /\ b.cap = p.cap /\ b.budget_max = p.budget_max
        BY <1>1, <2>1 DEF PoolCaches, IsList
    <2> HIDE DEF b
    <2>4. PoolInv(b)
        BY <1>1, <2>1, <2>3 DEF PoolInv, PoolCounts
    <2>5. PoolOwed(b) = PoolOwed(p) /\ PoolOwed(p) \in Nat
        BY <1>1, <2>1, <2>3, PoolNumbers DEF PoolOwed
    <2> QED BY <1>2, <1>3, <2>2, <2>4, <2>5
<1>4. CASE k \notin Ids(p.seg)
    <2> DEFINE e == Entry(k, pf)  q == Append(p.seg, e)  c == IF pf THEN 1 ELSE 0  u == p.pf_unused + c
               b == [p EXCEPT !.seg = q, !.pf_unused = u]
    <2>1. e \in Cell /\ e.id = k /\ Credit(e) = c /\ c \in {0, 1}
        BY DEF Entry, Cell, Credit
    <2>2. Pool!Entry(k, pf) = e
        BY DEF Pool!Entry, Entry
    <2>3. Pool!PInsert(p, k, pf) = Pool!PoolFit(b)
        BY <1>2, <1>4, <2>2 DEF Pool!PInsert
    <2> HIDE DEF e
    <2>4. \A f \in Range(p.seg) : f.id # k
        BY <1>1, <1>4, IdsAre
    <2>5. IsList(q, Cell) /\ More(q, p.seg, e)
        BY <1>1, <2>1, <2>4, AppendIs
    <2> HIDE DEF q
    <2>6. Unused(q) = Unused(p.seg) + c /\ Unused(p.seg) \in Nat /\ p.drops \in Nat /\ p.pf_budget \in Nat
        BY <1>1, <2>1, <2>5, MoreOwed, PoolNumbers
    <2>7. u = Unused(q) /\ u \in Int
        BY <1>1, <2>1, <2>6 DEF PoolCounts
    <2> HIDE DEF u, c
    <2>8. b = [p EXCEPT !.seg = q, !.pf_unused = u, !.pf_budget = p.pf_budget, !.drops = p.drops]
        BY <1>1 DEF PoolCaches
    <2> HIDE DEF b
    <2>9. /\ b \in PoolCaches /\ b.seg = q /\ b.pf_unused = u /\ b.pf_budget = p.pf_budget
          /\ b.drops = p.drops /\ b.cap = p.cap /\ b.budget_max = p.budget_max
        BY <1>1, <2>5, <2>6, <2>7, <2>8 DEF PoolCaches, IsList
    <2>10. Keyed(Range(q))
        BY <1>1, <2>1, <2>4, <2>5 DEF More, Keyed
    <2>11. PoolCounts(b)
        BY <1>1, <2>5, <2>7, <2>9, <2>10 DEF PoolCounts
    <2>12. PoolOwed(b) = PoolOwed(p) + c
        BY <2>1, <2>6, <2>9 DEF PoolOwed
    <2>13. PoolInv(Pool!PoolFit(b)) /\ PoolOwed(Pool!PoolFit(b)) = PoolOwed(b)
        BY <2>11, PoolFitIs
    <2> QED BY <1>2, <1>4, <2>3, <2>12, <2>13 DEF c
<1> QED BY <1>3, <1>4

(* A write counts a drop when the prefetch it removes was not used.        *)
LEMMA PoolInvalidateIs ==
    ASSUME NEW p, PoolInv(p), NEW k \in Objects
    PROVE  LET b == Pool!PInvalidate(p, k) IN PoolInv(b) /\ PoolOwed(b) = PoolOwed(p)
<1> DEFINE n == IF Pool!PFirstUse(p, k) THEN 1 ELSE 0
           q == Others(p.seg, k)  u == p.pf_unused - n  d == p.drops + n  b == Pool!PInvalidate(p, k)
<1>1. p \in PoolCaches /\ PoolCounts(p) /\ IsList(p.seg, Cell) /\ Keyed(Range(p.seg)) /\ Len(p.seg) <= p.cap
    BY DEF PoolInv, PoolCounts
<1>2. n \in {0, 1}
    OBVIOUS
<1>3. /\ IsList(q, Cell) /\ Range(q) \subseteq Range(p.seg) /\ Len(q) <= Len(p.seg)
      /\ Unused(q) = Unused(p.seg) - n
    BY <1>1, ForgottenIs, CreditIs
<1>4. b = [p EXCEPT !.seg = q, !.pf_unused = u, !.drops = d]
    BY PoolNames DEF Pool!PInvalidate
<1>5. b = [p EXCEPT !.seg = q, !.pf_unused = u, !.pf_budget = p.pf_budget, !.drops = d]
    BY <1>1, <1>4 DEF PoolCaches
<1> HIDE DEF n, q, b
<1>6. /\ u = Unused(q) /\ u \in Int /\ d \in Nat /\ p.pf_budget \in Nat
      /\ Unused(q) + d = Unused(p.seg) + p.drops
    <2>1. p.pf_unused = Unused(p.seg)
        BY <1>1 DEF PoolCounts
    <2>2. Unused(p.seg) \in Nat /\ p.drops \in Nat /\ p.pf_budget \in Nat
        BY <1>1, PoolNumbers
    <2>3. n \in Nat
        BY <1>2
    <2>4. Unused(q) = Unused(p.seg) - n
        BY <1>3
    <2> QED BY <2>1, <2>2, <2>3, <2>4
<1>7. Len(q) \in Nat /\ Len(p.seg) \in Nat /\ p.cap \in Nat
    BY <1>1, <1>3, LenIs, PoolNumbers
<1> HIDE DEF u, d
<1>8. /\ b \in PoolCaches /\ b.seg = q /\ b.pf_unused = u /\ b.pf_budget = p.pf_budget
      /\ b.drops = d /\ b.cap = p.cap /\ b.budget_max = p.budget_max
    BY <1>1, <1>3, <1>5, <1>6 DEF PoolCaches, IsList
<1>9. PoolInv(b)
    <2>1. b.pf_budget \in 1 .. b.budget_max /\ Keyed(Range(q))
        BY <1>1, <1>3, <1>8 DEF PoolCounts, Keyed
    <2>2. Len(b.seg) <= b.cap
        BY <1>1, <1>3, <1>7, <1>8
    <2> QED BY <1>3, <1>6, <1>8, <2>1, <2>2 DEF PoolInv, PoolCounts
<1>10. PoolOwed(b) = PoolOwed(p)
    BY <1>6, <1>8 DEF PoolOwed
<1> QED BY <1>9, <1>10 DEF b

-----------------------------------------------------------------------------
(* A part of a list, in the order of the list.                             *)

Part(r, q, S) ==
    /\ IsList(r, S) /\ IsList(q, S) /\ Range(r) \subseteq Range(q)
    /\ \A i, j \in DOMAIN r, a, b \in DOMAIN q : i < j /\ r[i] = q[a] /\ r[j] = q[b] => a < b

LEMMA PositionsAre ==
    ASSUME NEW S, NEW q, IsList(q, S)
    PROVE  /\ Len(q) \in Nat /\ DOMAIN q = 1 .. Len(q)
           /\ \A i, j \in DOMAIN q : q[i] = q[j] => i = j
           /\ \A x \in Range(q) : \E i \in DOMAIN q : q[i] = x
BY LenProperties DEF IsList, IsInjective, Range

LEMMA PartWithin ==
    ASSUME NEW S, NEW q, NEW r, NEW t, Part(r, q, S), Part(t, q, S), Range(r) \subseteq Range(t)
    PROVE  Part(r, t, S)
<1>1. IsList(r, S) /\ IsList(t, S) /\ IsList(q, S) /\ Range(r) \subseteq Range(q)
    BY DEF Part
<1>2. SUFFICES ASSUME NEW i \in DOMAIN r, NEW j \in DOMAIN r, NEW c \in DOMAIN t, NEW d \in DOMAIN t,
                      i < j, r[i] = t[c], r[j] = t[d]
               PROVE  c < d
    BY <1>1 DEF Part
<1>3. i \in Nat /\ j \in Nat /\ c \in Nat /\ d \in Nat
    BY <1>1, PositionsAre
<1>4. r[i] \in Range(q) /\ r[j] \in Range(q)
    BY <1>1 DEF Range
<1>5. PICK a \in DOMAIN q : q[a] = r[i]
    BY <1>1, <1>4, PositionsAre
<1>6. PICK b \in DOMAIN q : q[b] = r[j]
    BY <1>1, <1>4, PositionsAre
<1>7. a < b /\ a \in Nat /\ b \in Nat
    <2>1. a < b
        BY <1>2, <1>5, <1>6 DEF Part
    <2> QED BY <1>1, <2>1, PositionsAre
<1>8. c # d
    <2>1. r[i] # r[j]
        BY <1>1, <1>2, <1>3, PositionsAre
    <2> QED BY <1>2, <2>1
<1>9. ~(d < c)
    <2> SUFFICES ASSUME d < c PROVE FALSE
        OBVIOUS
    <2>1. b < a
        BY <1>2, <1>5, <1>6 DEF Part
    <2> QED BY <1>7, <2>1
<1> QED BY <1>3, <1>8, <1>9

LEMMA PartOf ==
    ASSUME NEW S, NEW q, IsList(q, S)
    PROVE  Part(q, q, S)
BY PositionsAre DEF Part

LEMMA PartChain ==
    ASSUME NEW S, NEW q, NEW r, NEW t, Part(r, t, S), Part(t, q, S)
    PROVE  Part(r, q, S)
<1>1. IsList(r, S) /\ IsList(t, S) /\ IsList(q, S) /\ Range(r) \subseteq Range(t) /\ Range(t) \subseteq Range(q)
    BY DEF Part
<1>2. SUFFICES ASSUME NEW i \in DOMAIN r, NEW j \in DOMAIN r, NEW a \in DOMAIN q, NEW b \in DOMAIN q,
                      i < j, r[i] = q[a], r[j] = q[b]
               PROVE  a < b
    BY <1>1 DEF Part
<1>3. r[i] \in Range(t) /\ r[j] \in Range(t)
    BY <1>1 DEF Range
<1>4. PICK c \in DOMAIN t : t[c] = r[i]
    BY <1>1, <1>3, PositionsAre
<1>5. PICK d \in DOMAIN t : t[d] = r[j]
    BY <1>1, <1>3, PositionsAre
<1>6. c < d
    BY <1>2, <1>4, <1>5 DEF Part
<1> QED BY <1>2, <1>4, <1>5, <1>6 DEF Part

(* A part is what it holds.                                                *)
LEMMA PartOnce ==
    ASSUME NEW S, NEW q, NEW r, NEW t, Part(r, q, S), Part(t, q, S), Range(r) = Range(t)
    PROVE  r = t
<1>1. IsList(r, S) /\ IsList(t, S) /\ Part(r, t, S)
    BY PartWithin DEF Part
<1>2. Len(r) = Len(t) /\ Len(r) \in Nat /\ DOMAIN r = 1 .. Len(r) /\ DOMAIN t = 1 .. Len(r)
    BY <1>1, RangeFinite, PositionsAre
<1> DEFINE n == Len(r)  before(j) == { r[h] : h \in 1 .. j }
<1>3. ASSUME NEW j \in 1 .. n, NEW i \in 1 .. n, r[j] = t[i] PROVE i = j
    <2> DEFINE L == { t[h] : h \in 1 .. i }  M == { r[h] : h \in 1 .. j }
    <2>1. \A h \in 1 .. n : r[h] \in L <=> h <= j
        <3> SUFFICES ASSUME NEW h \in 1 .. n PROVE r[h] \in L <=> h <= j
            OBVIOUS
        <3>1. r[h] \in Range(t)
            BY <1>2 DEF Range
        <3>2. PICK g \in 1 .. n : t[g] = r[h]
            BY <1>1, <1>2, <3>1, PositionsAre
        <3>3. r[h] \in L <=> g <= i
            BY <1>1, <1>2, <3>2, PositionsAre
        <3>4. CASE h < j
            BY <1>1, <1>2, <1>3, <3>2, <3>3, <3>4 DEF Part
        <3>5. CASE h = j
            BY <1>1, <1>2, <1>3, <3>2, <3>3, <3>5, PositionsAre
        <3>6. CASE j < h
            <4>1. i < g
                BY <1>1, <1>2, <1>3, <3>2, <3>6 DEF Part
            <4> QED BY <3>3, <3>6, <4>1
        <3> QED BY <3>4, <3>5, <3>6
    <2>2. \A h \in 1 .. n : \E g \in 1 .. n : r[g] = t[h]
        <3> SUFFICES ASSUME NEW h \in 1 .. n PROVE \E g \in 1 .. n : r[g] = t[h]
            OBVIOUS
        <3>1. t[h] \in Range(t)
            BY <1>2 DEF Range
        <3>2. \A x \in Range(r) : \E g \in DOMAIN r : r[g] = x
            BY <1>1, PositionsAre
        <3> QED BY <1>2, <3>1, <3>2
    <2>3. L = M
        <3>1. \A x \in L : x \in M
            <4> SUFFICES ASSUME NEW h \in 1 .. i PROVE t[h] \in M
                OBVIOUS
            <4>1. h \in 1 .. n
                BY <1>2
            <4>2. PICK g \in 1 .. n : r[g] = t[h]
                BY <2>2, <4>1
            <4>3. g <= j
                BY <2>1, <4>2
            <4>4. g \in 1 .. j
                BY <4>3
            <4> QED BY <4>2, <4>4
        <3>2. \A x \in M : x \in L
            <4> SUFFICES ASSUME NEW h \in 1 .. j PROVE r[h] \in L
                OBVIOUS
            <4>1. h \in 1 .. n /\ h <= j
                BY <1>2
            <4> QED BY <2>1, <4>1
        <3> QED BY <3>1, <3>2
    <2>4. \A m \in 1 .. n : Cardinality({ r[h] : h \in 1 .. m }) = m /\ Cardinality({ t[h] : h \in 1 .. m }) = m
        <3> SUFFICES ASSUME NEW m \in 1 .. n
                     PROVE  Cardinality({ r[h] : h \in 1 .. m }) = m /\ Cardinality({ t[h] : h \in 1 .. m }) = m
            OBVIOUS
        <3>1. m \in Nat /\ 1 .. m \subseteq 1 .. n
            OBVIOUS
        <3>2. IsFiniteSet(1 .. m) /\ Cardinality(1 .. m) = m
            BY <3>1, FS_Interval
        <3> DEFINE f == [h \in 1 .. m |-> r[h]]  g == [h \in 1 .. m |-> t[h]]
        <3>3. \A h, l \in 1 .. m : (r[h] = r[l] => h = l) /\ (t[h] = t[l] => h = l)
            BY <1>1, <1>2, <3>1, PositionsAre
        <3>4. f \in Surjection(1 .. m, { r[h] : h \in 1 .. m }) /\ f \in Injection(1 .. m, { r[h] : h \in 1 .. m })
            BY <3>3 DEF Surjection, Injection, IsInjective, Range
        <3>5. g \in Surjection(1 .. m, { t[h] : h \in 1 .. m }) /\ g \in Injection(1 .. m, { t[h] : h \in 1 .. m })
            BY <3>3 DEF Surjection, Injection, IsInjective, Range
        <3> QED BY <3>2, <3>4, <3>5, FS_Surjection
    <2> QED BY <2>3, <2>4
<1>4. ASSUME NEW j \in 1 .. n PROVE r[j] = t[j]
    <2>1. r[j] \in Range(t)
        BY <1>2 DEF Range
    <2>2. PICK i \in 1 .. n : t[i] = r[j]
        BY <1>1, <1>2, <2>1, PositionsAre
    <2> QED BY <1>3, <2>2
<1> QED BY <1>1, <1>2, <1>4, SeqEqual DEF IsList

(* The live part of a queue, given the live slots.                         *)
Live(Q, L) == Kept(Q, { i \in DOMAIN Q : Q[i] \in L })

(* The live slots of a queue keep their order.                             *)
LEMMA LiveIs ==
    ASSUME NEW S, NEW Q, IsList(Q, S), NEW L
    PROVE  Part(Live(Q, L), Q, S) /\ Range(Live(Q, L)) = Range(Q) \cap L
<1> DEFINE I == { i \in DOMAIN Q : Q[i] \in L }  r == Kept(Q, I)
<1>1. /\ Len(Q) \in Nat /\ DOMAIN Q = 1 .. Len(Q) /\ Q \in Seq(S)
      /\ \A i, j \in DOMAIN Q : Q[i] = Q[j] => i = j
    BY PositionsAre DEF IsList
<1>2. IsList(r, S) /\ Len(r) = Cardinality(I) /\ Range(r) = { Q[i] : i \in I } /\ Range(r) \subseteq Range(Q)
    BY KeptList
<1>3. Range(r) = Range(Q) \cap L
    BY <1>2 DEF Range
<1>4. IsFiniteSet(I) /\ I \in SUBSET Nat
    <2>1. IsFiniteSet(1 .. Len(Q)) /\ I \in SUBSET (1 .. Len(Q))
        BY <1>1, FS_Interval
    <2> QED BY <2>1, FS_Subset
<1>5. \A j \in DOMAIN r : j \in 1 .. Cardinality(I) /\ r[j] = Q[Nth(I, j)]
    BY <1>2, PositionsAre DEF Kept
<1> HIDE DEF r
<1>6. SUFFICES ASSUME NEW i \in DOMAIN r, NEW j \in DOMAIN r, NEW a \in DOMAIN Q, NEW b \in DOMAIN Q,
                      i < j, r[i] = Q[a], r[j] = Q[b]
               PROVE  a < b
    BY <1>2, <1>3 DEF Part, Live, r
<1> HIDE DEF I
<1>7. /\ Nth(I, i) \in I /\ Cardinality(UpTo(I, Nth(I, i))) = i
      /\ Nth(I, j) \in I /\ Cardinality(UpTo(I, Nth(I, j))) = j
    BY <1>4, <1>5, NthIs
<1>8. Nth(I, i) < Nth(I, j)
    <2>1. \A x, y \in I : x < y <=> Cardinality(UpTo(I, x)) < Cardinality(UpTo(I, y))
        BY <1>4, NthIs
    <2> QED BY <1>6, <1>7, <2>1
<1>9. Nth(I, i) = a /\ Nth(I, j) = b
    <2>1. Nth(I, i) \in DOMAIN Q /\ Nth(I, j) \in DOMAIN Q
        BY <1>7 DEF I
    <2>2. Q[Nth(I, i)] = Q[a] /\ Q[Nth(I, j)] = Q[b]
        BY <1>5, <1>6
    <2> QED BY <1>1, <2>1, <2>2
<1> QED BY <1>8, <1>9

(* A live element pushed is at the tail of the live part.                  *)
LEMMA PushedPart ==
    ASSUME NEW S, NEW q, NEW r, Part(r, q, S), NEW e \in S, e \notin Range(q)
    PROVE  Part(r, Append(q, e), S) /\ Part(Append(r, e), Append(q, e), S)
<1> DEFINE u == Append(q, e)  v == Append(r, e)
<1>1. /\ IsList(r, S) /\ IsList(q, S) /\ e \notin Range(r) /\ Range(r) \subseteq Range(q)
      /\ q \in Seq(S) /\ r \in Seq(S)
    BY DEF Part, IsList
<1>2. IsList(u, S) /\ Range(u) = Range(q) \cup {e} /\ IsList(v, S) /\ Range(v) = Range(r) \cup {e}
    BY <1>1, AppendIs DEF More
<1>3. /\ Len(u) = Len(q) + 1 /\ (\A i \in 1 .. Len(q) : u[i] = q[i]) /\ u[Len(q) + 1] = e
      /\ Len(v) = Len(r) + 1 /\ (\A i \in 1 .. Len(r) : v[i] = r[i]) /\ v[Len(r) + 1] = e
    BY <1>1, AppendProperties
<1> HIDE DEF u, v
<1>4. /\ DOMAIN u = 1 .. Len(q) + 1 /\ DOMAIN v = 1 .. Len(r) + 1 /\ Len(q) \in Nat /\ Len(r) \in Nat
      /\ DOMAIN q = 1 .. Len(q) /\ DOMAIN r = 1 .. Len(r)
    BY <1>1, <1>2, <1>3, PositionsAre
<1>5. \A i \in DOMAIN q : q[i] # e
    BY DEF Range
<1>6. \A i \in DOMAIN r : r[i] # e
    BY <1>1 DEF Range
<1>7. ASSUME NEW i \in DOMAIN r, NEW j \in DOMAIN r, NEW a \in DOMAIN u, NEW b \in DOMAIN u,
             i < j, r[i] = u[a], r[j] = u[b]
      PROVE  a < b
    <2>1. a \in DOMAIN q /\ b \in DOMAIN q
        BY <1>3, <1>4, <1>6, <1>7
    <2>2. r[i] = q[a] /\ r[j] = q[b]
        BY <1>3, <1>4, <1>7, <2>1
    <2> QED BY <1>7, <2>1, <2>2 DEF Part
<1>8. ASSUME NEW i \in DOMAIN v, NEW j \in DOMAIN v, NEW a \in DOMAIN u, NEW b \in DOMAIN u,
             i < j, v[i] = u[a], v[j] = u[b]
      PROVE  a < b
    <2>1. i \in DOMAIN r /\ v[i] = r[i]
        BY <1>3, <1>4, <1>8
    <2>2. CASE j \in DOMAIN r
        <3>1. v[j] = r[j]
            BY <1>3, <1>4, <2>2
        <3> QED BY <1>7, <1>8, <2>1, <2>2, <3>1
    <2>3. CASE j \notin DOMAIN r
        <3>1. v[j] = e
            BY <1>3, <1>4, <2>3
        <3>2. b = Len(q) + 1
            <4>1. u[b] = e
                BY <1>8, <3>1
            <4>2. b \notin 1 .. Len(q)
                BY <1>3, <1>4, <1>5, <4>1
            <4> QED BY <1>4, <4>2
        <3>3. a # Len(q) + 1
            BY <1>3, <1>6, <1>8, <2>1
        <3> QED BY <1>4, <3>2, <3>3
    <2> QED BY <2>2, <2>3
<1> QED BY <1>1, <1>2, <1>7, <1>8 DEF Part, u, v

LEMMA EndPart ==
    ASSUME NEW S, NEW q, IsList(q, S), NEW n \in 0 .. Len(q)
    PROVE  LET r == SubSeq(q, n + 1, Len(q))
           IN  Part(r, q, S) /\ Range(r) = { q[i] : i \in n + 1 .. Len(q) }
<1> DEFINE r == SubSeq(q, n + 1, Len(q))
<1>1. IsList(r, S) /\ Len(r) = Len(q) - n /\ Range(r) = { q[i] : i \in n + 1 .. Len(q) }
    BY CutIs
<1>2. /\ Len(q) \in Nat /\ DOMAIN q = 1 .. Len(q) /\ n \in Nat /\ n <= Len(q) /\ q \in Seq(S)
      /\ \A i, j \in DOMAIN q : q[i] = q[j] => i = j
    BY PositionsAre DEF IsList
<1>3. DOMAIN r = 1 .. Len(q) - n
    <2> HIDE DEF r
    <2> QED BY <1>1, PositionsAre
<1>4. \A i \in 1 .. Len(q) - n : r[i] = q[i + n] /\ i + n \in DOMAIN q
    <2> SUFFICES ASSUME NEW i \in 1 .. Len(q) - n PROVE r[i] = q[i + n] /\ i + n \in DOMAIN q
        OBVIOUS
    <2>1. r[i] = q[n + 1 + i - 1]
        BY <1>2, <1>3, SubSeqProperties
    <2>2. n + 1 + i - 1 = i + n
        BY <1>2
    <2> QED BY <1>2, <2>1, <2>2
<1> HIDE DEF r
<1>5. Range(r) \subseteq Range(q)
    BY <1>2, <1>3, <1>4 DEF Range
<1>6. ASSUME NEW i \in DOMAIN r, NEW j \in DOMAIN r, NEW a \in DOMAIN q, NEW b \in DOMAIN q,
             i < j, r[i] = q[a], r[j] = q[b]
      PROVE  a < b
    <2>1. a = i + n /\ b = j + n
        BY <1>2, <1>3, <1>4, <1>6
    <2> QED BY <1>2, <1>3, <1>6, <2>1
<1> QED BY <1>1, <1>5, <1>6 DEF Part, r

LEMMA TailPart ==
    ASSUME NEW S, NEW q, IsList(q, S), q # <<>>
    PROVE  Part(Tail(q), q, S) /\ Range(Tail(q)) = Range(q) \ {Head(q)} /\ Head(q) \in Range(q)
<1>1. IsList(Tail(q), S) /\ Less(Tail(q), q, Head(q))
    BY TailIs
<1>2. q \in Seq(S) /\ Len(q) \in Nat \ {0} /\ DOMAIN q = 1 .. Len(q)
    BY LenIs, PositionsAre DEF IsList
<1>3. \A i \in 1 .. Len(Tail(q)) : Tail(q)[i] = q[i + 1]
    BY <1>2, HeadTailProperties
<1>4. DOMAIN Tail(q) = 1 .. Len(q) - 1 /\ Len(Tail(q)) = Len(q) - 1
    BY <1>1, PositionsAre DEF Less
<1>5. \A i, j \in DOMAIN q : q[i] = q[j] => i = j
    BY PositionsAre
<1>6. ASSUME NEW i \in DOMAIN Tail(q), NEW j \in DOMAIN Tail(q), NEW a \in DOMAIN q, NEW b \in DOMAIN q,
             i < j, Tail(q)[i] = q[a], Tail(q)[j] = q[b]
      PROVE  a < b
    <2>1. i + 1 \in DOMAIN q /\ j + 1 \in DOMAIN q /\ q[i + 1] = q[a] /\ q[j + 1] = q[b]
        BY <1>2, <1>3, <1>4, <1>6
    <2>2. a = i + 1 /\ b = j + 1
        BY <1>5, <2>1
    <2> QED BY <1>2, <1>4, <1>6, <2>2
<1> QED BY <1>1, <1>6 DEF Part, Less

(* What happens to the live part when its queue is pushed to, popped,      *)
(* forgets an element, or is compacted.                                    *)
LEMMA LivePushed ==
    ASSUME NEW S, NEW Q, IsList(Q, S), NEW L, L \subseteq Range(Q), NEW x \in S, x \notin Range(Q)
    PROVE  /\ IsList(Append(Q, x), S) /\ L \cup {x} \subseteq Range(Append(Q, x))
           /\ Live(Append(Q, x), L \cup {x}) = Append(Live(Q, L), x)
<1> DEFINE u == Append(Q, x)
<1>1. IsList(u, S) /\ Range(u) = Range(Q) \cup {x}
    BY AppendIs DEF More
<1>2. Part(Live(u, L \cup {x}), u, S) /\ Range(Live(u, L \cup {x})) = Range(u) \cap (L \cup {x})
    BY <1>1, LiveIs
<1>3. Part(Live(Q, L), Q, S) /\ Range(Live(Q, L)) = Range(Q) \cap L
    BY LiveIs
<1>4. Part(Append(Live(Q, L), x), u, S)
    BY <1>3, PushedPart
<1>5. Range(Append(Live(Q, L), x)) = Range(Live(Q, L)) \cup {x}
    BY <1>3, AppendIs DEF Part, More
<1>6. Range(Append(Live(Q, L), x)) = Range(Live(u, L \cup {x}))
    BY <1>1, <1>2, <1>3, <1>5
<1> HIDE DEF u
<1>7. Live(u, L \cup {x}) = Append(Live(Q, L), x)
    BY <1>2, <1>4, <1>6, PartOnce
<1> QED BY <1>1, <1>7 DEF u

(* Elements that are pushed and not live leave the live part alone.        *)
LEMMA LiveLess ==
    ASSUME NEW S, NEW Q, IsList(Q, S), NEW L, NEW M, M \subseteq L
    PROVE  Part(Live(Q, M), Live(Q, L), S)
<1>1. Part(Live(Q, L), Q, S) /\ Range(Live(Q, L)) = Range(Q) \cap L
    BY LiveIs
<1>2. Part(Live(Q, M), Q, S) /\ Range(Live(Q, M)) = Range(Q) \cap M
    BY LiveIs
<1> QED BY <1>1, <1>2, PartWithin

LEMMA LiveCompact ==
    ASSUME NEW S, NEW Q, IsList(Q, S), NEW L, L \subseteq Range(Q)
    PROVE  /\ IsList(Live(Q, L), S) /\ L \subseteq Range(Live(Q, L)) /\ Range(Live(Q, L)) \subseteq Range(Q)
           /\ Live(Live(Q, L), L) = Live(Q, L)
<1> DEFINE R == Live(Q, L)
<1>1. Part(R, Q, S) /\ Range(R) = L
    BY LiveIs
<1>2. IsList(R, S)
    BY <1>1 DEF Part
<1>3. Part(Live(R, L), R, S) /\ Range(Live(R, L)) = Range(R) \cap L
    BY <1>2, LiveIs
<1>4. Part(R, R, S)
    BY <1>2, PartOf
<1> HIDE DEF R
<1>5. Live(R, L) = R
    BY <1>1, <1>3, <1>4, PartOnce
<1>6. Range(R) \subseteq Range(Q)
    BY <1>1 DEF Part
<1> QED BY <1>1, <1>2, <1>5, <1>6 DEF R

(* The end of a queue behind its first live element.                       *)
FirstLive(Q, L, n) == n \in DOMAIN Q /\ Q[n] \in L /\ \A i \in DOMAIN Q : Q[i] \in L => n <= i

(* pop_live takes the first live slot out, and every stale one before it.  *)
Popped(R, q, L, S) ==
    LET V == Live(q, L)  h == Head(V)
    IN  /\ V # <<>> /\ h \in L /\ IsList(R, S) /\ Range(R) \subseteq Range(q) \ {h}
        /\ L \ {h} \subseteq Range(R) /\ Live(R, L \ {h}) = Tail(V)

LEMMA LivePopped ==
    ASSUME NEW S, NEW Q, IsList(Q, S), NEW L, L \subseteq Range(Q), NEW n, FirstLive(Q, L, n)
    PROVE  Popped(SubSeq(Q, n + 1, Len(Q)), Q, L, S)
<1> DEFINE R == SubSeq(Q, n + 1, Len(Q))  V == Live(Q, L)  x == Q[n]
<1>1. /\ Len(Q) \in Nat /\ DOMAIN Q = 1 .. Len(Q) /\ \A i, j \in DOMAIN Q : Q[i] = Q[j] => i = j
    BY PositionsAre
<1>2. n \in 0 .. Len(Q) /\ n \in 1 .. Len(Q) /\ x \in L
    BY <1>1 DEF FirstLive
<1>3. Part(R, Q, S) /\ Range(R) = { Q[i] : i \in n + 1 .. Len(Q) }
    BY <1>2, EndPart
<1>4. Part(V, Q, S) /\ Range(V) = L
    BY LiveIs
<1> HIDE DEF R, V
<1>5. x \notin Range(R)
    <2> SUFFICES ASSUME NEW i \in n + 1 .. Len(Q), Q[i] = Q[n] PROVE FALSE
        BY <1>3
    <2>1. i \in DOMAIN Q /\ n \in DOMAIN Q /\ i # n
        BY <1>1, <1>2
    <2> QED BY <1>1, <2>1
<1>6. L \ {x} \subseteq Range(R)
    <2> SUFFICES ASSUME NEW y \in L, y # x PROVE y \in Range(R)
        OBVIOUS
    <2>1. PICK i \in DOMAIN Q : Q[i] = y
        BY DEF Range
    <2>2. n <= i /\ i # n
        BY <2>1 DEF FirstLive
    <2>3. i \in n + 1 .. Len(Q)
        BY <1>1, <1>2, <2>1, <2>2
    <2> QED BY <1>3, <2>1, <2>3
<1>7. IsList(V, S) /\ V # <<>>
    <2>1. IsList(V, S)
        BY <1>4 DEF Part
    <2>2. Range(V) # {}
        BY <1>2, <1>4
    <2> QED BY <2>1, <2>2, EmptyIs
<1>8. Head(V) = x
    <2>1. /\ V \in Seq(S) /\ Len(V) \in Nat \ {0} /\ DOMAIN V = 1 .. Len(V)
        BY <1>7, PositionsAre, LenIs DEF IsList
    <2>2. Head(V) = V[1] /\ 1 \in DOMAIN V
        BY <2>1, HeadTailProperties
    <2>3. V[1] \in L
        BY <1>4, <2>2 DEF Range
    <2>4. PICK a \in DOMAIN Q : Q[a] = V[1]
        BY <2>3 DEF Range
    <2>5. PICK j \in DOMAIN V : V[j] = x
        BY <1>2, <1>4 DEF Range
    <2>6. n <= a
        BY <2>3, <2>4 DEF FirstLive
    <2>7. ~(1 < j)
        <3> SUFFICES ASSUME 1 < j PROVE FALSE
            OBVIOUS
        <3>1. n \in DOMAIN Q
            BY <1>1, <1>2
        <3>2. a < n
            BY <1>4, <2>2, <2>4, <2>5, <3>1 DEF Part
        <3> QED BY <1>1, <1>2, <2>4, <2>6, <3>2
    <2>8. j = 1
        BY <2>1, <2>5, <2>7
    <2> QED BY <2>2, <2>5, <2>8
<1>9. Part(Tail(V), V, S) /\ Range(Tail(V)) = L \ {x}
    BY <1>4, <1>7, <1>8, TailPart
<1>10. IsList(R, S) /\ Range(R) \subseteq Range(Q)
    BY <1>3 DEF Part
<1>11. Part(Live(R, L \ {x}), R, S) /\ Range(Live(R, L \ {x})) = L \ {x}
    <2>1. Range(R) \cap (L \ {x}) = L \ {x}
        BY <1>6
    <2> QED BY <1>10, <2>1, LiveIs
<1>12. Part(Tail(V), Q, S) /\ Part(Live(R, L \ {x}), Q, S)
    BY <1>3, <1>4, <1>9, <1>11, PartChain
<1>13. Live(R, L \ {x}) = Tail(V)
    BY <1>9, <1>11, <1>12, PartOnce
<1>14. Range(R) \subseteq Range(Q) \ {x}
    BY <1>5, <1>10
<1> HIDE DEF x
<1>15. Popped(R, Q, L, S)
    BY <1>2, <1>6, <1>7, <1>8, <1>10, <1>13, <1>14 DEF Popped, V
<1> QED BY <1>15 DEF R

-----------------------------------------------------------------------------
(* S3-FIFO: the slots of its queues, and their keys.                       *)

QueueSlots == [key : Objects, seq : Nat]

LEMMA KeysPushed ==
    ASSUME NEW q \in Seq(QueueSlots), NEW x \in QueueSlots
    PROVE  KeysOf(Append(q, x)) = Append(KeysOf(q), x.key) /\ KeysOf(q) \in Seq(Objects)
<1>1. /\ Len(q) \in Nat /\ DOMAIN q = 1 .. Len(q) /\ \A i \in 1 .. Len(q) : q[i] \in QueueSlots
    BY LenProperties, ElementOfSeq
<1>2. KeysOf(q) \in Seq(Objects) /\ Len(KeysOf(q)) = Len(q)
    <2>1. KeysOf(q) \in [1 .. Len(q) -> Objects]
        BY <1>1 DEF KeysOf, QueueSlots
    <2>2. KeysOf(q) \in Seq(Objects)
        BY <1>1, <2>1, SeqDef
    <2>3. DOMAIN KeysOf(q) = 1 .. Len(q)
        BY <2>1
    <2> QED BY <1>1, <2>2, <2>3, LenProperties
<1>3. /\ Append(q, x) \in Seq(QueueSlots) /\ Len(Append(q, x)) = Len(q) + 1
      /\ \A i \in 1 .. Len(q) : Append(q, x)[i] = q[i]
      /\ Append(q, x)[Len(q) + 1] = x /\ DOMAIN Append(q, x) = 1 .. Len(q) + 1
    BY AppendProperties, LenProperties
<1>4. /\ Append(KeysOf(q), x.key) \in Seq(Objects)
      /\ \A i \in 1 .. Len(q) : Append(KeysOf(q), x.key)[i] = KeysOf(q)[i]
      /\ Append(KeysOf(q), x.key)[Len(q) + 1] = x.key /\ DOMAIN Append(KeysOf(q), x.key) = 1 .. Len(q) + 1
    <2>1. x.key \in Objects
        BY DEF QueueSlots
    <2> QED BY <1>2, <2>1, AppendProperties, LenProperties
<1> DEFINE l == KeysOf(Append(q, x))  r == Append(KeysOf(q), x.key)
<1>5. l = [i \in 1 .. Len(q) + 1 |-> Append(q, x)[i].key]
    BY <1>3 DEF KeysOf
<1>6. \A i \in 1 .. Len(q) + 1 : l[i] = r[i]
    <2> SUFFICES ASSUME NEW i \in 1 .. Len(q) + 1 PROVE l[i] = r[i]
        OBVIOUS
    <2>1. CASE i = Len(q) + 1
        BY <1>3, <1>4, <1>5, <2>1
    <2>2. CASE i \in 1 .. Len(q)
        <3>1. Append(q, x)[i] = q[i] /\ i \in DOMAIN q
            BY <1>1, <1>3, <2>2
        <3>2. r[i] = q[i].key
            BY <1>4, <2>2, <3>1 DEF KeysOf
        <3> HIDE DEF r
        <3> QED BY <1>5, <3>1, <3>2
    <2>3. i = Len(q) + 1 \/ i \in 1 .. Len(q)
        BY <1>1
    <2> HIDE DEF l, r
    <2> QED BY <2>1, <2>2, <2>3
<1> HIDE DEF l, r
<1>7. l \in Seq(Objects)
    <2>1. \A i \in 1 .. Len(q) + 1 : Append(q, x)[i] \in QueueSlots
        BY <1>3, ElementOfSeq
    <2>2. l \in [1 .. Len(q) + 1 -> Objects]
        BY <1>5, <2>1 DEF QueueSlots
    <2> QED BY <1>1, <2>2, SeqDef
<1>8. Len(l) = Len(q) + 1 /\ Len(r) = Len(q) + 1
    <2>1. DOMAIN l = 1 .. Len(q) + 1
        BY <1>5
    <2> QED BY <1>1, <1>4, <1>7, <2>1, LenProperties DEF r
<1>9. l = r
    BY <1>4, <1>6, <1>7, <1>8, SeqEqual DEF r
<1> QED BY <1>2, <1>9 DEF l, r

(* A queue whose elements are slots of different keys.                     *)
OneEach(q) == IsList(q, QueueSlots) /\ \A x, y \in Range(q) : x.key = y.key => x = y

LEMMA KeysAre ==
    ASSUME NEW q, OneEach(q)
    PROVE  /\ IsList(KeysOf(q), Objects) /\ Range(KeysOf(q)) = { x.key : x \in Range(q) }
           /\ Len(KeysOf(q)) = Len(q) /\ DOMAIN KeysOf(q) = DOMAIN q
<1>1. q \in Seq(QueueSlots) /\ Len(q) \in Nat /\ DOMAIN q = 1 .. Len(q)
    BY PositionsAre DEF OneEach, IsList
<1>2. KeysOf(q) \in Seq(Objects) /\ DOMAIN KeysOf(q) = DOMAIN q
    <2>1. \A i \in 1 .. Len(q) : q[i] \in QueueSlots
        BY <1>1, ElementOfSeq
    <2>2. KeysOf(q) \in [1 .. Len(q) -> Objects]
        BY <1>1, <2>1 DEF KeysOf, QueueSlots
    <2> QED BY <1>1, <2>2, SeqDef
<1>3. IsInjective(KeysOf(q))
    <2>1. \A i, j \in DOMAIN q : q[i].key = q[j].key => q[i] = q[j]
        BY DEF OneEach, Range
    <2>2. \A i, j \in DOMAIN q : q[i] = q[j] => i = j
        BY PositionsAre DEF OneEach
    <2> QED BY <2>1, <2>2 DEF IsInjective, KeysOf
<1>4. Range(KeysOf(q)) = { x.key : x \in Range(q) }
    BY DEF KeysOf, Range
<1>5. Len(KeysOf(q)) = Len(q)
    BY <1>1, <1>2, LenProperties
<1> QED BY <1>2, <1>3, <1>4, <1>5 DEF IsList

LEMMA KeysPart ==
    ASSUME NEW q, NEW r, OneEach(q), Part(r, q, QueueSlots)
    PROVE  OneEach(r) /\ Part(KeysOf(r), KeysOf(q), Objects)
<1>1. IsList(r, QueueSlots) /\ Range(r) \subseteq Range(q)
    BY DEF Part
<1>2. OneEach(r)
    BY <1>1 DEF OneEach
<1>3. /\ IsList(KeysOf(r), Objects) /\ Range(KeysOf(r)) \subseteq Range(KeysOf(q)) /\ IsList(KeysOf(q), Objects)
      /\ DOMAIN KeysOf(r) = DOMAIN r /\ DOMAIN KeysOf(q) = DOMAIN q
    BY <1>1, <1>2, KeysAre
<1>4. ASSUME NEW i \in DOMAIN r, NEW j \in DOMAIN r, NEW a \in DOMAIN q, NEW b \in DOMAIN q,
             i < j, KeysOf(r)[i] = KeysOf(q)[a], KeysOf(r)[j] = KeysOf(q)[b]
      PROVE  a < b
    <2>1. r[i] \in Range(q) /\ r[j] \in Range(q) /\ q[a] \in Range(q) /\ q[b] \in Range(q)
        BY <1>1 DEF Range
    <2>2. r[i].key = q[a].key /\ r[j].key = q[b].key
        BY <1>4 DEF KeysOf
    <2>3. r[i] = q[a] /\ r[j] = q[b]
        BY <2>1, <2>2 DEF OneEach
    <2> QED BY <1>4, <2>3 DEF Part
<1> QED BY <1>2, <1>3, <1>4 DEF Part

LEMMA KeysPopped ==
    ASSUME NEW q, OneEach(q), q # <<>>
    PROVE  /\ KeysOf(q) # <<>> /\ Head(KeysOf(q)) = Head(q).key
           /\ KeysOf(Tail(q)) = Tail(KeysOf(q))
<1>1. IsList(q, QueueSlots)
    BY DEF OneEach
<1>2. Part(Tail(q), q, QueueSlots) /\ Range(Tail(q)) = Range(q) \ {Head(q)} /\ Head(q) \in Range(q)
    BY <1>1, TailPart
<1>3. /\ IsList(KeysOf(q), Objects) /\ Range(KeysOf(q)) = { x.key : x \in Range(q) }
      /\ Len(KeysOf(q)) = Len(q) /\ DOMAIN KeysOf(q) = DOMAIN q
    BY KeysAre
<1>4. KeysOf(q) # <<>>
    BY <1>1, <1>3, LenIs
<1>5. Head(KeysOf(q)) = Head(q).key
    <2>1. /\ q \in Seq(QueueSlots) /\ KeysOf(q) \in Seq(Objects)
          /\ Len(q) \in Nat \ {0} /\ DOMAIN q = 1 .. Len(q)
        BY <1>1, <1>3, PositionsAre, LenIs DEF IsList
    <2>2. Head(q) = q[1] /\ Head(KeysOf(q)) = KeysOf(q)[1]
        BY <1>4, <2>1, HeadTailProperties
    <2> QED BY <2>1, <2>2 DEF KeysOf
<1>6. Part(Tail(KeysOf(q)), KeysOf(q), Objects) /\ Range(Tail(KeysOf(q))) = Range(KeysOf(q)) \ {Head(q).key}
    BY <1>3, <1>4, <1>5, TailPart
<1>7. OneEach(Tail(q)) /\ Part(KeysOf(Tail(q)), KeysOf(q), Objects)
    BY <1>2, KeysPart
<1>8. Range(KeysOf(Tail(q))) = { x.key : x \in Range(q) \ {Head(q)} }
    BY <1>2, <1>7, KeysAre
<1>9. Range(KeysOf(Tail(q))) = Range(Tail(KeysOf(q)))
    <2> DEFINE R == Range(q)  h == Head(q)
    <2>1. \A x, y \in R : x.key = y.key => x = y
        BY DEF OneEach
    <2>2. h \in R
        BY <1>2
    <2> HIDE DEF R, h
    <2>3. { x.key : x \in R \ {h} } = { x.key : x \in R } \ {h.key}
        BY <2>1, <2>2
    <2> QED BY <1>3, <1>6, <1>8, <2>3 DEF R, h
<1>10. KeysOf(Tail(q)) = Tail(KeysOf(q))
    BY <1>6, <1>7, <1>9, PartOnce
<1> QED BY <1>4, <1>5, <1>10

LEMMA EagerNames ==
    /\ \A q, I : Eager!Kept(q, I) = Kept(q, I)
    /\ \A q : Eager!Range(q) = Range(q)
<1>1. ASSUME NEW T PROVE Eager!Cardinality(T) = Cardinality(T)
    BY DEF Eager!Cardinality, Cardinality
<1>2. ASSUME NEW q, NEW I PROVE Eager!Kept(q, I) = Kept(q, I)
    <2>1. \A j : Eager!Nth(I, j) = Nth(I, j)
        BY <1>1 DEF Eager!Nth, Nth
    <2> QED BY <1>1, <2>1 DEF Eager!Kept, Kept
<1>3. ASSUME NEW q PROVE Eager!Range(q) = Range(q)
    BY DEF Eager!Range, Range
<1> QED BY <1>2, <1>3

LEMMA EagerWithoutIs ==
    ASSUME NEW S, NEW q, IsList(q, S), NEW k
    PROVE  /\ Part(Eager!Without(q, k), q, S) /\ Range(Eager!Without(q, k)) = Range(q) \ {k}
           /\ k \notin Range(q) => Eager!Without(q, k) = q
<1> DEFINE L == Range(q) \ {k}
<1>1. Eager!Without(q, k) = Kept(q, { i \in DOMAIN q : q[i] # k })
    BY EagerNames DEF Eager!Without
<1>2. { i \in DOMAIN q : q[i] # k } = { i \in DOMAIN q : q[i] \in L }
    BY DEF Range
<1>3. Eager!Without(q, k) = Live(q, L)
    BY <1>1, <1>2 DEF Live
<1>4. Part(Live(q, L), q, S) /\ Range(Live(q, L)) = Range(q) \cap L
    BY LiveIs
<1>5. Part(q, q, S)
    BY PartOf
<1>6. k \notin Range(q) => Range(Live(q, L)) = Range(q)
    BY <1>4
<1> HIDE DEF L
<1>7. k \notin Range(q) => Live(q, L) = q
    BY <1>4, <1>5, <1>6, PartOnce
<1> QED BY <1>3, <1>4, <1>7 DEF L

(* An element fewer, whichever way it is taken out.                        *)
LEMMA KeysWithout ==
    ASSUME NEW q, OneEach(q), NEW r, Part(r, q, QueueSlots), NEW k, Range(r) = { x \in Range(q) : x.key # k }
    PROVE  KeysOf(r) = Eager!Without(KeysOf(q), k)
<1>1. OneEach(r) /\ Part(KeysOf(r), KeysOf(q), Objects)
    BY KeysPart
<1>2. IsList(KeysOf(q), Objects) /\ Range(KeysOf(q)) = { x.key : x \in Range(q) }
    BY KeysAre
<1>3. Range(KeysOf(r)) = { x.key : x \in Range(r) }
    BY <1>1, KeysAre
<1>4. /\ Part(Eager!Without(KeysOf(q), k), KeysOf(q), Objects)
      /\ Range(Eager!Without(KeysOf(q), k)) = Range(KeysOf(q)) \ {k}
    BY <1>2, EagerWithoutIs
<1>5. Range(KeysOf(r)) = Range(Eager!Without(KeysOf(q), k))
    BY <1>2, <1>3, <1>4
<1> QED BY <1>1, <1>4, <1>5, PartOnce

-----------------------------------------------------------------------------
(* Tables: functions of some of the objects.                               *)

Tables(V) == UNION { [K -> V] : K \in SUBSET Objects }

LEMMA TableIs ==
    ASSUME NEW V, NEW h
    PROVE  h \in Tables(V) <=> h \in [DOMAIN h -> V] /\ DOMAIN h \subseteq Objects
BY DEF Tables

LEMMA TableLess ==
    ASSUME NEW V, NEW h \in Tables(V), NEW k
    PROVE  LET g == Queues!Without(h, k)
           IN  g \in Tables(V) /\ DOMAIN g = DOMAIN h \ {k} /\ \A x \in DOMAIN h \ {k} : g[x] = h[x]
<1>1. h \in [DOMAIN h -> V] /\ DOMAIN h \subseteq Objects
    BY TableIs
<1> DEFINE g == Queues!Without(h, k)
<1>2. g = [x \in DOMAIN h \ {k} |-> h[x]]
    BY DEF Queues!Without
<1>3. g \in [DOMAIN g -> V] /\ DOMAIN g \subseteq Objects
    BY <1>1, <1>2
<1> HIDE DEF g
<1>4. g \in Tables(V)
    BY <1>3, TableIs
<1> QED BY <1>2, <1>4 DEF g

LEMMA TableMore ==
    ASSUME NEW V, NEW h \in Tables(V), NEW k \in Objects, NEW v \in V
    PROVE  LET g == Queues!With(h, k, v)
           IN  /\ g \in Tables(V) /\ DOMAIN g = DOMAIN h \cup {k} /\ g[k] = v
               /\ \A x \in DOMAIN h \ {k} : g[x] = h[x]
<1>1. h \in [DOMAIN h -> V] /\ DOMAIN h \subseteq Objects
    BY TableIs
<1> DEFINE g == Queues!With(h, k, v)
<1>2. g = [x \in DOMAIN h \cup {k} |-> IF x = k THEN v ELSE h[x]]
    BY DEF Queues!With
<1>3. g \in [DOMAIN g -> V] /\ DOMAIN g \subseteq Objects
    BY <1>1, <1>2
<1> HIDE DEF g
<1>4. g \in Tables(V)
    BY <1>3, TableIs
<1> QED BY <1>2, <1>4 DEF g

LEMMA TableSet ==
    ASSUME NEW V, NEW h \in Tables(V), NEW k \in DOMAIN h, NEW v \in V
    PROVE  LET g == [h EXCEPT ![k] = v]
           IN  /\ g \in Tables(V) /\ DOMAIN g = DOMAIN h /\ g[k] = v
               /\ \A x \in DOMAIN h \ {k} : g[x] = h[x]
<1>1. h \in [DOMAIN h -> V] /\ DOMAIN h \subseteq Objects
    BY TableIs
<1> DEFINE g == [h EXCEPT ![k] = v]
<1>2. g \in [DOMAIN h -> V] /\ DOMAIN g = DOMAIN h
    BY <1>1
<1>3. g \in Tables(V)
    BY <1>1, <1>2, TableIs
<1> QED BY <1>1, <1>2, <1>3

-----------------------------------------------------------------------------
(* The state of S3-FIFO.                                                   *)

Tag(k, n) == [key |-> k, seq |-> n]
FifoEntries == [freq : Nat, in_m : BOOLEAN, seq : Nat]
FifoStates == [entries : Tables(FifoEntries), s : Seq(QueueSlots), m : Seq(QueueSlots), s_len : Int, m_len : Int,
               ghost : Tables(Nat), ghost_q : Seq(QueueSlots)]

(* The keys of a queue, and the slots that are live because of them.       *)
SmallKeys(e) == { k \in DOMAIN e : ~e[k].in_m }
MainKeys(e) == { k \in DOMAIN e : e[k].in_m }
EntryTags(e, K) == { Tag(k, e[k].seq) : k \in K }
GhostTags(g) == { Tag(k, g[k]) : k \in DOMAIN g }
Tagged(h, K) == { Tag(k, h[k]) : k \in K }

FifoSlotted(f) ==
    /\ f \in FifoStates
    /\ IsList(f.s, QueueSlots) /\ IsList(f.m, QueueSlots) /\ IsList(f.ghost_q, QueueSlots)
    /\ EntryTags(f.entries, SmallKeys(f.entries)) \subseteq Range(f.s)
    /\ EntryTags(f.entries, MainKeys(f.entries)) \subseteq Range(f.m)
    /\ GhostTags(f.ghost) \subseteq Range(f.ghost_q)

SmallTags(f) == EntryTags(f.entries, SmallKeys(f.entries))
MainTags(f) == EntryTags(f.entries, MainKeys(f.entries))

LEMMA QueueNames ==
    /\ \A T : Queues!Cardinality(T) = Cardinality(T)
    /\ \A q, I : Queues!Kept(q, I) = Kept(q, I)
    /\ \A I : Queues!Min(I) = Min(I)
    /\ \A q : Queues!Range(q) = Range(q)
<1>1. ASSUME NEW T PROVE Queues!Cardinality(T) = Cardinality(T)
    BY DEF Queues!Cardinality, Cardinality
<1>2. ASSUME NEW q, NEW I PROVE Queues!Kept(q, I) = Kept(q, I)
    <2>1. \A j : Queues!Nth(I, j) = Nth(I, j)
        BY <1>1 DEF Queues!Nth, Nth
    <2> QED BY <1>1, <2>1 DEF Queues!Kept, Kept
<1>3. ASSUME NEW I PROVE Queues!Min(I) = Min(I)
    BY DEF Queues!Min, Min
<1>4. ASSUME NEW q PROVE Queues!Range(q) = Range(q)
    BY DEF Queues!Range, Range
<1> QED BY <1>1, <1>2, <1>3, <1>4

LEMMA TagsAre ==
    ASSUME NEW e, e \in Tables(FifoEntries), NEW x \in QueueSlots, NEW K \in SUBSET DOMAIN e
    PROVE  x \in EntryTags(e, K) <=> x.key \in K /\ e[x.key].seq = x.seq
<1>1. x = [key |-> x.key, seq |-> x.seq]
    BY DEF QueueSlots
<1>2. \A k, n : Tag(k, n).key = k /\ Tag(k, n).seq = n
    BY DEF Tag
<1>3. x = Tag(x.key, x.seq)
    BY <1>1 DEF Tag
<1> QED BY <1>2, <1>3 DEF EntryTags

LEMMA LiveNames ==
    ASSUME NEW f, FifoSlotted(f)
    PROVE  /\ Queues!LiveS(f) = Live(f.s, SmallTags(f))
           /\ Queues!LiveM(f) = Live(f.m, MainTags(f))
           /\ Queues!LiveG(f) = Live(f.ghost_q, GhostTags(f.ghost))
           /\ \A x \in QueueSlots : /\ Queues!SlotLive(f, x, FALSE) <=> x \in SmallTags(f)
                                    /\ Queues!SlotLive(f, x, TRUE) <=> x \in MainTags(f)
                                    /\ Queues!GhostLive(f, x) <=> x \in GhostTags(f.ghost)
<1>1. /\ f.entries \in Tables(FifoEntries) /\ f.ghost \in Tables(Nat)
      /\ f.s \in Seq(QueueSlots) /\ f.m \in Seq(QueueSlots) /\ f.ghost_q \in Seq(QueueSlots)
    BY DEF FifoSlotted, FifoStates
<1>2. f.entries \in [DOMAIN f.entries -> FifoEntries]
    BY <1>1, TableIs
<1>3. \A k \in DOMAIN f.entries : f.entries[k].in_m \in BOOLEAN
    BY <1>2 DEF FifoEntries
<1>4. ASSUME NEW x \in QueueSlots PROVE Queues!SlotLive(f, x, FALSE) <=> x \in SmallTags(f)
    <2>1. SmallKeys(f.entries) \in SUBSET DOMAIN f.entries
        BY DEF SmallKeys
    <2>2. x \in SmallTags(f) <=> x.key \in SmallKeys(f.entries) /\ f.entries[x.key].seq = x.seq
        BY <1>1, <2>1, TagsAre DEF SmallTags
    <2> QED BY <1>3, <2>2 DEF SmallKeys, Queues!SlotLive
<1>5. ASSUME NEW x \in QueueSlots PROVE Queues!SlotLive(f, x, TRUE) <=> x \in MainTags(f)
    <2>1. MainKeys(f.entries) \in SUBSET DOMAIN f.entries
        BY DEF MainKeys
    <2>2. x \in MainTags(f) <=> x.key \in MainKeys(f.entries) /\ f.entries[x.key].seq = x.seq
        BY <1>1, <2>1, TagsAre DEF MainTags
    <2> QED BY <1>3, <2>2 DEF MainKeys, Queues!SlotLive
<1>6. ASSUME NEW x \in QueueSlots PROVE Queues!GhostLive(f, x) <=> x \in GhostTags(f.ghost)
    <2>1. x = Tag(x.key, x.seq)
        BY DEF QueueSlots, Tag
    <2>2. \A k, n : Tag(k, n).key = k /\ Tag(k, n).seq = n
        BY DEF Tag
    <2> QED BY <2>1, <2>2 DEF GhostTags, Queues!GhostLive
<1>7. /\ \A i \in DOMAIN f.s : f.s[i] \in QueueSlots
      /\ \A i \in DOMAIN f.m : f.m[i] \in QueueSlots
      /\ \A i \in DOMAIN f.ghost_q : f.ghost_q[i] \in QueueSlots
    BY <1>1, LenProperties, ElementOfSeq
<1>8. Queues!LiveS(f) = Live(f.s, SmallTags(f))
    <2>1. { i \in DOMAIN f.s : Queues!SlotLive(f, f.s[i], FALSE) } = { i \in DOMAIN f.s : f.s[i] \in SmallTags(f) }
        BY <1>4, <1>7
    <2> QED BY <2>1, QueueNames DEF Queues!LiveS, Live
<1>9. Queues!LiveM(f) = Live(f.m, MainTags(f))
    <2>1. { i \in DOMAIN f.m : Queues!SlotLive(f, f.m[i], TRUE) } = { i \in DOMAIN f.m : f.m[i] \in MainTags(f) }
        BY <1>5, <1>7
    <2> QED BY <2>1, QueueNames DEF Queues!LiveM, Live
<1>10. Queues!LiveG(f) = Live(f.ghost_q, GhostTags(f.ghost))
    <2>1. { i \in DOMAIN f.ghost_q : Queues!GhostLive(f, f.ghost_q[i]) }
             = { i \in DOMAIN f.ghost_q : f.ghost_q[i] \in GhostTags(f.ghost) }
        BY <1>6, <1>7
    <2> QED BY <2>1, QueueNames DEF Queues!LiveG, Live
<1> QED BY <1>4, <1>5, <1>6, <1>8, <1>9, <1>10

(* What the live parts are, seen by their keys.                            *)
LEMMA LiveKeys ==
    ASSUME NEW f, FifoSlotted(f)
    PROVE  LET l == Queues!LiveS(f)  m == Queues!LiveM(f)  g == Queues!LiveG(f)
           IN  /\ OneEach(l) /\ Range(l) = SmallTags(f) /\ Range(KeysOf(l)) = SmallKeys(f.entries)
               /\ OneEach(m) /\ Range(m) = MainTags(f) /\ Range(KeysOf(m)) = MainKeys(f.entries)
               /\ OneEach(g) /\ Range(g) = GhostTags(f.ghost) /\ Range(KeysOf(g)) = DOMAIN f.ghost
<1>1. /\ Queues!LiveS(f) = Live(f.s, SmallTags(f)) /\ Queues!LiveM(f) = Live(f.m, MainTags(f))
      /\ Queues!LiveG(f) = Live(f.ghost_q, GhostTags(f.ghost))
    BY LiveNames
<1>2. \A k, n : Tag(k, n).key = k /\ Tag(k, n).seq = n
    BY DEF Tag
<1>3. ASSUME NEW q, IsList(q, QueueSlots), NEW K, NEW h, NEW L, L = Tagged(h, K), L \subseteq Range(q)
      PROVE  OneEach(Live(q, L)) /\ Range(Live(q, L)) = L /\ Range(KeysOf(Live(q, L))) = K
    <2>1. Part(Live(q, L), q, QueueSlots) /\ Range(Live(q, L)) = L
        BY <1>3, LiveIs
    <2>2. \A x, y \in L : x.key = y.key => x = y
        BY <1>2, <1>3 DEF Tagged
    <2>3. OneEach(Live(q, L))
        BY <2>1, <2>2 DEF OneEach, Part
    <2>4. Range(KeysOf(Live(q, L))) = { x.key : x \in L }
        BY <2>1, <2>3, KeysAre
    <2>5. { x.key : x \in L } = K
        BY <1>2, <1>3 DEF Tagged
    <2> QED BY <2>1, <2>3, <2>4, <2>5
<1> DEFINE e == [k \in DOMAIN f.entries |-> f.entries[k].seq]
<1>4. /\ SmallTags(f) = Tagged(e, SmallKeys(f.entries))
      /\ MainTags(f) = Tagged(e, MainKeys(f.entries))
    BY DEF Tagged, SmallTags, MainTags, EntryTags, SmallKeys, MainKeys
<1>5. GhostTags(f.ghost) = Tagged(f.ghost, DOMAIN f.ghost)
    BY DEF GhostTags, Tagged
<1> HIDE DEF e
<1>6. /\ IsList(f.s, QueueSlots) /\ IsList(f.m, QueueSlots) /\ IsList(f.ghost_q, QueueSlots)
      /\ SmallTags(f) \subseteq Range(f.s) /\ MainTags(f) \subseteq Range(f.m) /\ GhostTags(f.ghost) \subseteq Range(f.ghost_q)
    BY DEF FifoSlotted, SmallTags, MainTags
<1>7. /\ OneEach(Live(f.s, SmallTags(f))) /\ Range(Live(f.s, SmallTags(f))) = SmallTags(f)
      /\ Range(KeysOf(Live(f.s, SmallTags(f)))) = SmallKeys(f.entries)
    BY <1>3, <1>4, <1>6
<1>8. /\ OneEach(Live(f.m, MainTags(f))) /\ Range(Live(f.m, MainTags(f))) = MainTags(f)
      /\ Range(KeysOf(Live(f.m, MainTags(f)))) = MainKeys(f.entries)
    BY <1>3, <1>4, <1>6
<1>9. /\ OneEach(Live(f.ghost_q, GhostTags(f.ghost))) /\ Range(Live(f.ghost_q, GhostTags(f.ghost))) = GhostTags(f.ghost)
      /\ Range(KeysOf(Live(f.ghost_q, GhostTags(f.ghost)))) = DOMAIN f.ghost
    BY <1>3, <1>5, <1>6
<1> QED BY <1>1, <1>7, <1>8, <1>9

LEMMA LiveCounts ==
    ASSUME NEW f, FifoSlotted(f)
    PROVE  /\ IsFiniteSet(SmallKeys(f.entries)) /\ Len(Queues!LiveS(f)) = Cardinality(SmallKeys(f.entries))
           /\ IsFiniteSet(MainKeys(f.entries)) /\ Len(Queues!LiveM(f)) = Cardinality(MainKeys(f.entries))
           /\ IsFiniteSet(DOMAIN f.ghost) /\ Len(Queues!LiveG(f)) = Cardinality(DOMAIN f.ghost)
           /\ Cardinality(SmallKeys(f.entries)) \in Nat /\ Cardinality(MainKeys(f.entries)) \in Nat
           /\ Cardinality(DOMAIN f.ghost) \in Nat
           /\ IsFiniteSet(DOMAIN f.entries)
           /\ Cardinality(DOMAIN f.entries) = Cardinality(SmallKeys(f.entries)) + Cardinality(MainKeys(f.entries))
<1>1. ASSUME NEW q, OneEach(q)
      PROVE  IsFiniteSet(Range(KeysOf(q))) /\ Len(q) = Cardinality(Range(KeysOf(q))) /\ Len(q) \in Nat
    <2>1. IsList(KeysOf(q), Objects) /\ Len(KeysOf(q)) = Len(q)
        BY <1>1, KeysAre
    <2> QED BY <2>1, RangeFinite, LenIs
<1>2. /\ OneEach(Queues!LiveS(f)) /\ Range(KeysOf(Queues!LiveS(f))) = SmallKeys(f.entries)
      /\ OneEach(Queues!LiveM(f)) /\ Range(KeysOf(Queues!LiveM(f))) = MainKeys(f.entries)
      /\ OneEach(Queues!LiveG(f)) /\ Range(KeysOf(Queues!LiveG(f))) = DOMAIN f.ghost
    BY LiveKeys
<1>3. /\ IsFiniteSet(SmallKeys(f.entries)) /\ Len(Queues!LiveS(f)) = Cardinality(SmallKeys(f.entries))
      /\ IsFiniteSet(MainKeys(f.entries)) /\ Len(Queues!LiveM(f)) = Cardinality(MainKeys(f.entries))
      /\ IsFiniteSet(DOMAIN f.ghost) /\ Len(Queues!LiveG(f)) = Cardinality(DOMAIN f.ghost)
      /\ Cardinality(SmallKeys(f.entries)) \in Nat /\ Cardinality(MainKeys(f.entries)) \in Nat
      /\ Cardinality(DOMAIN f.ghost) \in Nat
    BY <1>1, <1>2
<1>4. f.entries \in Tables(FifoEntries)
    BY DEF FifoSlotted, FifoStates
<1>5. /\ DOMAIN f.entries = SmallKeys(f.entries) \cup MainKeys(f.entries)
      /\ SmallKeys(f.entries) \cap MainKeys(f.entries) = {}
    BY DEF SmallKeys, MainKeys
<1>6. /\ IsFiniteSet(SmallKeys(f.entries) \cup MainKeys(f.entries))
      /\ Cardinality(SmallKeys(f.entries) \cup MainKeys(f.entries))
            = Cardinality(SmallKeys(f.entries)) + Cardinality(MainKeys(f.entries)) - Cardinality({})
    BY <1>3, <1>5, FS_Union
<1>7. Cardinality({}) = 0
    BY FS_EmptySet
<1> QED BY <1>3, <1>5, <1>6, <1>7

(* bump_seq gives an epoch that no slot of the key carries.                *)
LEMMA JoinIs ==
    ASSUME NEW S, NEW q \in Seq(S), NEW r \in Seq(S)
    PROVE  q \o r \in Seq(S) /\ Range(q \o r) = Range(q) \cup Range(r)
<1> DEFINE s == q \o r
<1>1. Len(q) \in Nat /\ DOMAIN q = 1 .. Len(q) /\ Len(r) \in Nat /\ DOMAIN r = 1 .. Len(r)
    BY LenProperties
<1>2. /\ s \in Seq(S) /\ Len(s) = Len(q) + Len(r)
      /\ \A i \in 1 .. Len(q) + Len(r) : s[i] = IF i <= Len(q) THEN q[i] ELSE r[i - Len(q)]
    BY <1>1, ConcatProperties
<1> HIDE DEF s
<1>3. DOMAIN s = 1 .. Len(q) + Len(r)
    BY <1>2, LenProperties
<1>4. \A i \in DOMAIN q : i \in DOMAIN s /\ s[i] = q[i]
    BY <1>1, <1>2, <1>3
<1>5. \A i \in DOMAIN r : i + Len(q) \in DOMAIN s /\ s[i + Len(q)] = r[i]
    BY <1>1, <1>2, <1>3
<1>6. \A i \in DOMAIN s : (i \in DOMAIN q /\ s[i] = q[i]) \/ (i - Len(q) \in DOMAIN r /\ s[i] = r[i - Len(q)])
    BY <1>1, <1>2, <1>3
<1>7. Range(s) = Range(q) \cup Range(r)
    BY <1>4, <1>5, <1>6 DEF Range
<1> QED BY <1>2, <1>7 DEF s

(* A fresh epoch makes every stale slot of its key stay stale.             *)
LEMMA EpochIs ==
    ASSUME NEW f, f.s \in Seq(QueueSlots), f.m \in Seq(QueueSlots), f.ghost_q \in Seq(QueueSlots), NEW k \in Objects
    PROVE  LET x == Tag(k, Queues!BumpSeq(f, k))
           IN  /\ Queues!BumpSeq(f, k) \in Nat /\ x \in QueueSlots
               /\ x \notin Range(f.s) /\ x \notin Range(f.m) /\ x \notin Range(f.ghost_q)
<1> DEFINE q == f.s \o f.m \o f.ghost_q
           mine == { y \in Range(q) : y.key = k }
           used == { x.seq : x \in mine }
           c == Cardinality(used)
           free == 0 .. c \ used
<1>1. q \in Seq(QueueSlots) /\ Range(q) = Range(f.s) \cup Range(f.m) \cup Range(f.ghost_q)
    <2>1. f.s \o f.m \in Seq(QueueSlots) /\ Range(f.s \o f.m) = Range(f.s) \cup Range(f.m)
        BY JoinIs
    <2> DEFINE r == f.s \o f.m
    <2>2. q = r \o f.ghost_q
        OBVIOUS
    <2> HIDE DEF r, q
    <2>3. r \in Seq(QueueSlots) /\ Range(r) = Range(f.s) \cup Range(f.m)
        BY <2>1 DEF r
    <2>4. r \o f.ghost_q \in Seq(QueueSlots) /\ Range(r \o f.ghost_q) = Range(r) \cup Range(f.ghost_q)
        BY <2>3, JoinIs
    <2> QED BY <2>2, <2>3, <2>4
<1> HIDE DEF q
<1>2. IsFiniteSet(used) /\ c \in Nat
    <2>1. Len(q) \in Nat /\ DOMAIN q = 1 .. Len(q) /\ q \in [1 .. Len(q) -> Range(q)]
        <3>1. Len(q) \in Nat /\ DOMAIN q = 1 .. Len(q) /\ \A i \in 1 .. Len(q) : q[i] \in QueueSlots
            BY <1>1, LenProperties, ElementOfSeq
        <3>2. q = [i \in 1 .. Len(q) |-> q[i]]
            BY <1>1, <3>1, SeqDef
        <3> QED BY <3>1, <3>2 DEF Range
    <2>2. q \in Surjection(1 .. Len(q), Range(q))
        BY <2>1 DEF Surjection, Range
    <2>3. IsFiniteSet(Range(q))
        BY <2>1, <2>2, FS_Interval, FS_Surjection
    <2>4. IsFiniteSet(mine)
        <3>1. mine \in SUBSET Range(q)
            OBVIOUS
        <3> QED BY <2>3, <3>1, FS_Subset
    <2> DEFINE h == [x \in mine |-> x.seq]
    <2>5. h \in Surjection(mine, used)
        BY DEF Surjection, Range
    <2> QED BY <2>4, <2>5, FS_Surjection, FS_CardinalityType
<1>3. free # {}
    <2> SUFFICES ASSUME free = {} PROVE FALSE
        OBVIOUS
    <2>1. 0 .. c \in SUBSET used
        OBVIOUS
    <2>2. Cardinality(0 .. c) <= c
        BY <1>2, <2>1, FS_Subset
    <2> HIDE DEF c
    <2>3. 0 \in Int /\ c \in Int /\ ~(0 > c)
        BY <1>2
    <2>4. Cardinality(0 .. c) = c - 0 + 1
        BY <2>3, FS_Interval
    <2> QED BY <1>2, <2>2, <2>4
<1>4. Queues!BumpSeq(f, k) = Min(free)
    BY QueueNames DEF Queues!BumpSeq, q
<1>5. Min(free) \in free /\ free \in SUBSET Nat
    <2>1. free \in SUBSET Nat
        BY <1>2
    <2> HIDE DEF free
    <2> QED BY <1>3, <2>1, MinIs
<1> DEFINE n == Min(free)
<1>6. n \in Nat /\ n \notin used
    BY <1>5
<1> HIDE DEF n
<1>7. Tag(k, n) \in QueueSlots /\ Tag(k, n).key = k /\ Tag(k, n).seq = n
    BY <1>6 DEF Tag, QueueSlots
<1>8. Tag(k, n) \notin Range(q)
    BY <1>6, <1>7
<1> QED BY <1>1, <1>4, <1>6, <1>7, <1>8 DEF n

LEMMA FirstIs ==
    ASSUME NEW q, IsList(q, QueueSlots), NEW L, L \subseteq Range(q), L # {}
    PROVE  LET I == { i \in 1 .. Len(q) : q[i] \in L } IN I # {} /\ Min(I) # 0 /\ FirstLive(q, L, Min(I))
<1> DEFINE I == { i \in 1 .. Len(q) : q[i] \in L }
<1>1. Len(q) \in Nat /\ DOMAIN q = 1 .. Len(q)
    BY PositionsAre
<1>2. I # {} /\ I \in SUBSET Nat /\ \A i \in I : i # 0
    BY <1>1 DEF Range
<1>3. Min(I) \in I /\ \A i \in I : Min(I) <= i
    <2> HIDE DEF I
    <2> QED BY <1>2, MinIs
<1> DEFINE n == Min(I)
<1> HIDE DEF n
<1>4. n \in 1 .. Len(q) /\ q[n] \in L /\ n # 0
    BY <1>2, <1>3 DEF n
<1>5. \A i \in DOMAIN q : q[i] \in L => n <= i
    BY <1>1, <1>3 DEF n
<1> QED BY <1>1, <1>2, <1>4, <1>5 DEF FirstLive, n

(* pop_live on the small queue; the other two after it.                    *)
LEMMA PopSmall ==
    ASSUME NEW f, FifoSlotted(f), SmallTags(f) # {}
    PROVE  Popped(Queues!AfterLiveS(f), f.s, SmallTags(f), QueueSlots)
<1> DEFINE L == SmallTags(f)  I == { i \in 1 .. Len(f.s) : f.s[i] \in L }
           J == { i \in 1 .. Len(f.s) : Queues!SlotLive(f, f.s[i], FALSE) }
<1>1. IsList(f.s, QueueSlots) /\ L \subseteq Range(f.s)
    BY DEF FifoSlotted, SmallTags
<1>2. I # {} /\ Min(I) # 0 /\ FirstLive(f.s, L, Min(I))
    BY <1>1, FirstIs
<1>3. \A i \in 1 .. Len(f.s) : f.s[i] \in QueueSlots
    BY <1>1, ElementOfSeq DEF IsList
<1>4. I = J
    BY <1>3, LiveNames
<1> HIDE DEF I, L
<1>5. Queues!AfterLiveS(f) = SubSeq(f.s, Min(J) + 1, Len(f.s))
    BY <1>2, <1>4, QueueNames DEF Queues!AfterLiveS, Queues!After, Queues!SelectInSeq
<1> HIDE DEF J
<1> QED BY <1>1, <1>2, <1>4, <1>5, LivePopped DEF L

LEMMA PopMain ==
    ASSUME NEW f, FifoSlotted(f), MainTags(f) # {}
    PROVE  Popped(Queues!AfterLiveM(f), f.m, MainTags(f), QueueSlots)
<1> DEFINE L == MainTags(f)  I == { i \in 1 .. Len(f.m) : f.m[i] \in L }
           J == { i \in 1 .. Len(f.m) : Queues!SlotLive(f, f.m[i], TRUE) }
<1>1. IsList(f.m, QueueSlots) /\ L \subseteq Range(f.m)
    BY DEF FifoSlotted, MainTags
<1>2. I # {} /\ Min(I) # 0 /\ FirstLive(f.m, L, Min(I))
    BY <1>1, FirstIs
<1>3. \A i \in 1 .. Len(f.m) : f.m[i] \in QueueSlots
    BY <1>1, ElementOfSeq DEF IsList
<1>4. I = J
    BY <1>3, LiveNames
<1> HIDE DEF I, L
<1>5. Queues!AfterLiveM(f) = SubSeq(f.m, Min(J) + 1, Len(f.m))
    BY <1>2, <1>4, QueueNames DEF Queues!AfterLiveM, Queues!After, Queues!SelectInSeq
<1> HIDE DEF J
<1> QED BY <1>1, <1>2, <1>4, <1>5, LivePopped DEF L

LEMMA PopGhost ==
    ASSUME NEW f, FifoSlotted(f), GhostTags(f.ghost) # {}
    PROVE  Popped(Queues!After(f.ghost_q, LAMBDA x : Queues!GhostLive(f, x)), f.ghost_q, GhostTags(f.ghost), QueueSlots)
<1> DEFINE L == GhostTags(f.ghost)  I == { i \in 1 .. Len(f.ghost_q) : f.ghost_q[i] \in L }
           J == { i \in 1 .. Len(f.ghost_q) : Queues!GhostLive(f, f.ghost_q[i]) }
<1>1. IsList(f.ghost_q, QueueSlots) /\ L \subseteq Range(f.ghost_q)
    BY DEF FifoSlotted
<1>2. I # {} /\ Min(I) # 0 /\ FirstLive(f.ghost_q, L, Min(I))
    BY <1>1, FirstIs
<1>3. \A i \in 1 .. Len(f.ghost_q) : f.ghost_q[i] \in QueueSlots
    BY <1>1, ElementOfSeq DEF IsList
<1>4. I = J
    BY <1>3, LiveNames
<1> HIDE DEF I, L
<1>5. Queues!After(f.ghost_q, LAMBDA x : Queues!GhostLive(f, x)) = SubSeq(f.ghost_q, Min(J) + 1, Len(f.ghost_q))
    BY <1>2, <1>4, QueueNames DEF Queues!After, Queues!SelectInSeq
<1> HIDE DEF J
<1> QED BY <1>1, <1>2, <1>4, <1>5, LivePopped DEF L

(* The live slots when an entry is replaced, taken out, or added.          *)
LEMMA TagIs ==
    ASSUME NEW k, NEW n
    PROVE  Tag(k, n).key = k /\ Tag(k, n).seq = n /\ Queues!Slot(k, n) = Tag(k, n)
BY DEF Tag, Queues!Slot

LEMMA TagsLess ==
    ASSUME NEW e, NEW K, NEW k \in K
    PROVE  EntryTags(e, K \ {k}) = EntryTags(e, K) \ {Tag(k, e[k].seq)}
BY TagIs DEF EntryTags

LEMMA EntryGone ==
    ASSUME NEW e \in Tables(FifoEntries), NEW k
    PROVE  LET d == Queues!Without(e, k)
           IN  /\ d \in Tables(FifoEntries) /\ DOMAIN d = DOMAIN e \ {k} /\ \A x \in DOMAIN e \ {k} : d[x] = e[x]
               /\ SmallKeys(d) = SmallKeys(e) \ {k} /\ MainKeys(d) = MainKeys(e) \ {k}
               /\ EntryTags(d, SmallKeys(d)) = EntryTags(e, SmallKeys(e) \ {k})
               /\ EntryTags(d, MainKeys(d)) = EntryTags(e, MainKeys(e) \ {k})
<1> DEFINE d == Queues!Without(e, k)
<1>1. d \in Tables(FifoEntries) /\ DOMAIN d = DOMAIN e \ {k} /\ \A x \in DOMAIN e \ {k} : d[x] = e[x]
    BY TableLess
<1> HIDE DEF d
<1>2. SmallKeys(d) = SmallKeys(e) \ {k} /\ MainKeys(d) = MainKeys(e) \ {k}
    BY <1>1 DEF SmallKeys, MainKeys
<1>3. \A x \in SmallKeys(e) \ {k} : d[x].seq = e[x].seq
    BY <1>1 DEF SmallKeys
<1>4. \A x \in MainKeys(e) \ {k} : d[x].seq = e[x].seq
    BY <1>1 DEF MainKeys
<1>5. EntryTags(d, SmallKeys(e) \ {k}) = EntryTags(e, SmallKeys(e) \ {k})
    BY <1>3 DEF EntryTags
<1>6. EntryTags(d, MainKeys(e) \ {k}) = EntryTags(e, MainKeys(e) \ {k})
    BY <1>4 DEF EntryTags
<1> QED BY <1>1, <1>2, <1>5, <1>6 DEF d

(* An entry that is in one table and as good as in the other.              *)
Placed(d, e, k, v) ==
    /\ d \in Tables(FifoEntries) /\ DOMAIN d = DOMAIN e \cup {k} /\ d[k] = v
    /\ \A x \in DOMAIN e \ {k} : d[x] = e[x]

LEMMA PlacedMain ==
    ASSUME NEW e \in Tables(FifoEntries), NEW d, NEW k, NEW v, v.in_m, Placed(d, e, k, v)
    PROVE  /\ SmallKeys(d) = SmallKeys(e) \ {k} /\ MainKeys(d) = MainKeys(e) \cup {k}
           /\ EntryTags(d, SmallKeys(d)) = EntryTags(e, SmallKeys(e) \ {k})
           /\ EntryTags(d, MainKeys(d)) = EntryTags(e, MainKeys(e) \ {k}) \cup {Tag(k, v.seq)}
<1>1. SmallKeys(d) = SmallKeys(e) \ {k} /\ MainKeys(d) = (MainKeys(e) \ {k}) \cup {k}
    BY DEF Placed, SmallKeys, MainKeys
<1>2. \A x \in SmallKeys(e) \ {k} : d[x].seq = e[x].seq
    BY DEF Placed, SmallKeys
<1>3. \A x \in MainKeys(e) \ {k} : d[x].seq = e[x].seq
    BY DEF Placed, MainKeys
<1>4. EntryTags(d, SmallKeys(e) \ {k}) = EntryTags(e, SmallKeys(e) \ {k})
    BY <1>2 DEF EntryTags
<1>5. EntryTags(d, (MainKeys(e) \ {k}) \cup {k}) = EntryTags(e, MainKeys(e) \ {k}) \cup {Tag(k, v.seq)}
    BY <1>3 DEF EntryTags, Placed
<1> QED BY <1>1, <1>4, <1>5

LEMMA PlacedSmall ==
    ASSUME NEW e \in Tables(FifoEntries), NEW d, NEW k, NEW v, ~v.in_m, Placed(d, e, k, v)
    PROVE  /\ SmallKeys(d) = SmallKeys(e) \cup {k} /\ MainKeys(d) = MainKeys(e) \ {k}
           /\ EntryTags(d, SmallKeys(d)) = EntryTags(e, SmallKeys(e) \ {k}) \cup {Tag(k, v.seq)}
           /\ EntryTags(d, MainKeys(d)) = EntryTags(e, MainKeys(e) \ {k})
<1>1. MainKeys(d) = MainKeys(e) \ {k} /\ SmallKeys(d) = (SmallKeys(e) \ {k}) \cup {k}
    BY DEF Placed, SmallKeys, MainKeys
<1>2. \A x \in SmallKeys(e) \ {k} : d[x].seq = e[x].seq
    BY DEF Placed, SmallKeys
<1>3. \A x \in MainKeys(e) \ {k} : d[x].seq = e[x].seq
    BY DEF Placed, MainKeys
<1>4. EntryTags(d, MainKeys(e) \ {k}) = EntryTags(e, MainKeys(e) \ {k})
    BY <1>3 DEF EntryTags
<1>5. EntryTags(d, (SmallKeys(e) \ {k}) \cup {k}) = EntryTags(e, SmallKeys(e) \ {k}) \cup {Tag(k, v.seq)}
    BY <1>2 DEF EntryTags, Placed
<1> QED BY <1>1, <1>4, <1>5

(* The oldest key of each queue.                                           *)
LEMMA OldestSmall ==
    ASSUME NEW f, FifoSlotted(f), SmallKeys(f.entries) # {}
    PROVE  LET h == Head(Queues!LiveS(f))
           IN  /\ Popped(Queues!AfterLiveS(f), f.s, SmallTags(f), QueueSlots)
               /\ h.key \in SmallKeys(f.entries) /\ h = Tag(h.key, f.entries[h.key].seq)
               /\ SmallTags(f) \ {h} = EntryTags(f.entries, SmallKeys(f.entries) \ {h.key})
               /\ Head(KeysOf(Queues!LiveS(f))) = h.key /\ KeysOf(Queues!LiveS(f)) # <<>>
               /\ KeysOf(Tail(Queues!LiveS(f))) = Tail(KeysOf(Queues!LiveS(f)))
<1> DEFINE h == Head(Queues!LiveS(f))
<1>1. SmallTags(f) # {}
    BY DEF SmallTags, EntryTags
<1>2. Popped(Queues!AfterLiveS(f), f.s, SmallTags(f), QueueSlots)
    BY <1>1, PopSmall
<1>3. Queues!LiveS(f) = Live(f.s, SmallTags(f)) /\ OneEach(Queues!LiveS(f))
    BY LiveNames, LiveKeys
<1>4. h \in SmallTags(f) /\ Queues!LiveS(f) # <<>>
    BY <1>2, <1>3 DEF Popped
<1> HIDE DEF h
<1>5. h.key \in SmallKeys(f.entries) /\ h = Tag(h.key, f.entries[h.key].seq)
    BY <1>4, TagIs DEF SmallTags, EntryTags
<1>6. SmallTags(f) \ {h} = EntryTags(f.entries, SmallKeys(f.entries) \ {h.key})
    <2> DEFINE k == h.key  e == f.entries
    <2>1. EntryTags(e, SmallKeys(e) \ {k}) = EntryTags(e, SmallKeys(e)) \ {Tag(k, e[k].seq)}
        BY <1>5, TagsLess
    <2> QED BY <1>5, <2>1 DEF SmallTags
<1>7. /\ Head(KeysOf(Queues!LiveS(f))) = h.key /\ KeysOf(Queues!LiveS(f)) # <<>>
      /\ KeysOf(Tail(Queues!LiveS(f))) = Tail(KeysOf(Queues!LiveS(f)))
    BY <1>3, <1>4, KeysPopped DEF h
<1> QED BY <1>2, <1>5, <1>6, <1>7 DEF h

LEMMA OldestMain ==
    ASSUME NEW f, FifoSlotted(f), MainKeys(f.entries) # {}
    PROVE  LET h == Head(Queues!LiveM(f))
           IN  /\ Popped(Queues!AfterLiveM(f), f.m, MainTags(f), QueueSlots)
               /\ h.key \in MainKeys(f.entries) /\ h = Tag(h.key, f.entries[h.key].seq)
               /\ MainTags(f) \ {h} = EntryTags(f.entries, MainKeys(f.entries) \ {h.key})
               /\ Head(KeysOf(Queues!LiveM(f))) = h.key /\ KeysOf(Queues!LiveM(f)) # <<>>
               /\ KeysOf(Tail(Queues!LiveM(f))) = Tail(KeysOf(Queues!LiveM(f)))
<1> DEFINE h == Head(Queues!LiveM(f))
<1>1. MainTags(f) # {}
    BY DEF MainTags, EntryTags
<1>2. Popped(Queues!AfterLiveM(f), f.m, MainTags(f), QueueSlots)
    BY <1>1, PopMain
<1>3. Queues!LiveM(f) = Live(f.m, MainTags(f)) /\ OneEach(Queues!LiveM(f))
    BY LiveNames, LiveKeys
<1>4. h \in MainTags(f) /\ Queues!LiveM(f) # <<>>
    BY <1>2, <1>3 DEF Popped
<1> HIDE DEF h
<1>5. h.key \in MainKeys(f.entries) /\ h = Tag(h.key, f.entries[h.key].seq)
    BY <1>4, TagIs DEF MainTags, EntryTags
<1>6. MainTags(f) \ {h} = EntryTags(f.entries, MainKeys(f.entries) \ {h.key})
    <2> DEFINE k == h.key  e == f.entries
    <2>1. EntryTags(e, MainKeys(e) \ {k}) = EntryTags(e, MainKeys(e)) \ {Tag(k, e[k].seq)}
        BY <1>5, TagsLess
    <2> QED BY <1>5, <2>1 DEF MainTags
<1>7. /\ Head(KeysOf(Queues!LiveM(f))) = h.key /\ KeysOf(Queues!LiveM(f)) # <<>>
      /\ KeysOf(Tail(Queues!LiveM(f))) = Tail(KeysOf(Queues!LiveM(f)))
    BY <1>3, <1>4, KeysPopped DEF h
<1> QED BY <1>2, <1>5, <1>6, <1>7 DEF h

(* The counters count, and no counter of hits is over its bound.           *)
FifoCounts(f) ==
    /\ FifoSlotted(f)
    /\ f.s_len = Cardinality(SmallKeys(f.entries)) /\ f.m_len = Cardinality(MainKeys(f.entries))
    /\ \A k \in DOMAIN f.entries : f.entries[k].freq \in 0 .. FREQ_MAX

FifoCapacity == CapOf["s3fifo"]

FifoGhosts(f) == DOMAIN f.ghost \cap DOMAIN f.entries = {} /\ Cardinality(DOMAIN f.ghost) <= FifoCapacity

FifoInv(f) == FifoCounts(f) /\ FifoGhosts(f) /\ f.s_len + f.m_len <= FifoCapacity

(* The queues of S3FifoEager.                                              *)
Counted(e) == [k \in DOMAIN e |-> e[k].freq]
View(f) == [s |-> KeysOf(Queues!LiveS(f)), m |-> KeysOf(Queues!LiveM(f)), g |-> KeysOf(Queues!LiveG(f)),
            freq |-> Counted(f.entries)]

LEMMA FifoNumbers ==
    ASSUME NEW f, FifoCounts(f)
    PROVE  /\ f.s_len \in Nat /\ f.m_len \in Nat
           /\ f.s_len + f.m_len = Cardinality(DOMAIN f.entries)
           /\ Len(View(f).s) = f.s_len /\ Len(View(f).m) = f.m_len
           /\ IsList(View(f).s, Objects) /\ IsList(View(f).m, Objects) /\ IsList(View(f).g, Objects)
           /\ Range(View(f).s) = SmallKeys(f.entries) /\ Range(View(f).m) = MainKeys(f.entries)
           /\ Range(View(f).g) = DOMAIN f.ghost
<1>1. FifoSlotted(f)
    BY DEF FifoCounts
<1>2. /\ OneEach(Queues!LiveS(f)) /\ Range(KeysOf(Queues!LiveS(f))) = SmallKeys(f.entries)
      /\ OneEach(Queues!LiveM(f)) /\ Range(KeysOf(Queues!LiveM(f))) = MainKeys(f.entries)
      /\ OneEach(Queues!LiveG(f)) /\ Range(KeysOf(Queues!LiveG(f))) = DOMAIN f.ghost
    BY <1>1, LiveKeys
<1>3. /\ IsList(KeysOf(Queues!LiveS(f)), Objects) /\ Len(KeysOf(Queues!LiveS(f))) = Len(Queues!LiveS(f))
      /\ IsList(KeysOf(Queues!LiveM(f)), Objects) /\ Len(KeysOf(Queues!LiveM(f))) = Len(Queues!LiveM(f))
      /\ IsList(KeysOf(Queues!LiveG(f)), Objects)
    BY <1>2, KeysAre
<1>4. /\ View(f).s = KeysOf(Queues!LiveS(f)) /\ View(f).m = KeysOf(Queues!LiveM(f))
      /\ View(f).g = KeysOf(Queues!LiveG(f))
    BY DEF View
<1>5. /\ Len(Queues!LiveS(f)) = Cardinality(SmallKeys(f.entries)) /\ Len(Queues!LiveM(f)) = Cardinality(MainKeys(f.entries))
      /\ Cardinality(SmallKeys(f.entries)) \in Nat /\ Cardinality(MainKeys(f.entries)) \in Nat
      /\ Cardinality(DOMAIN f.entries) = Cardinality(SmallKeys(f.entries)) + Cardinality(MainKeys(f.entries))
    BY <1>1, LiveCounts
<1> QED BY <1>2, <1>3, <1>4, <1>5 DEF FifoCounts

(* evict_s, when the key has been hit: to the main queue, its counter      *)
(* cleared.                                                                *)
Promoted(f) ==
    LET k == Head(Queues!LiveS(f)).key
        popped == [f EXCEPT !.s = Queues!AfterLiveS(f), !.s_len = @ - 1]
    IN  [Queues!Moved(popped, k, 0) EXCEPT !.m_len = @ + 1]

(* evict_s, of a key with hits: the views move it to the main queue.       *)
LEMMA PromotedIs ==
    ASSUME NEW f, FifoCounts(f), SmallKeys(f.entries) # {}
    PROVE  LET b == Promoted(f)  k == Head(Queues!LiveS(f)).key
           IN  /\ FifoCounts(b) /\ b.ghost = f.ghost /\ DOMAIN b.entries = DOMAIN f.entries
               /\ b.s_len + b.m_len = f.s_len + f.m_len
               /\ k \in SmallKeys(f.entries) /\ k = Head(View(f).s)
               /\ View(b).s = Tail(View(f).s) /\ View(b).m = Append(View(f).m, k) /\ View(b).g = View(f).g
               /\ View(b).freq = [View(f).freq EXCEPT ![k] = 0]
<1> DEFINE e == f.entries  h == Head(Queues!LiveS(f))  k == h.key  R == Queues!AfterLiveS(f)
           popped == [f EXCEPT !.s = R, !.s_len = @ - 1]
           n == Queues!BumpSeq(popped, k)  x == Tag(k, n)
           v == [freq |-> 0, in_m |-> TRUE, seq |-> n]  d == [e EXCEPT ![k] = v]
           M == Append(f.m, x)  b == Promoted(f)
           ls == Queues!LiveS(f)  lm == Queues!LiveM(f)  lg == Queues!LiveG(f)
<1>1. /\ FifoSlotted(f) /\ f \in FifoStates /\ e \in Tables(FifoEntries)
      /\ IsList(f.s, QueueSlots) /\ IsList(f.m, QueueSlots) /\ IsList(f.ghost_q, QueueSlots)
      /\ SmallTags(f) \subseteq Range(f.s) /\ MainTags(f) \subseteq Range(f.m) /\ GhostTags(f.ghost) \subseteq Range(f.ghost_q)
    BY DEF FifoCounts, FifoSlotted, FifoStates, SmallTags, MainTags
<1>2. /\ Popped(R, f.s, SmallTags(f), QueueSlots) /\ k \in SmallKeys(e)
      /\ SmallTags(f) \ {h} = EntryTags(e, SmallKeys(e) \ {k})
      /\ Head(KeysOf(ls)) = k /\ KeysOf(Tail(ls)) = Tail(KeysOf(ls))
    BY <1>1, OldestSmall
<1>3. /\ ls = Live(f.s, SmallTags(f)) /\ lm = Live(f.m, MainTags(f)) /\ lg = Live(f.ghost_q, GhostTags(f.ghost))
      /\ OneEach(lm)
    BY <1>1, LiveNames, LiveKeys
<1>4. /\ IsList(R, QueueSlots) /\ SmallTags(f) \ {h} \subseteq Range(R) /\ Live(R, SmallTags(f) \ {h}) = Tail(ls)
    BY <1>2, <1>3 DEF Popped
<1>5. b = [Queues!Moved(popped, k, 0) EXCEPT !.m_len = @ + 1]
    BY DEF Promoted
<1> HIDE DEF h, k, R, ls, lm, lg, b
<1>6. /\ popped \in FifoStates /\ popped.s = R /\ popped.m = f.m /\ popped.ghost_q = f.ghost_q
      /\ popped.entries = e
    <2>1. R \in Seq(QueueSlots) /\ f.s_len \in Int
        BY <1>1, <1>4 DEF FifoStates, IsList
    <2>2. f.s_len - 1 \in Int
        BY <2>1
    <2> QED BY <1>1, <2>1, <2>2 DEF FifoStates
<1>7. k \in DOMAIN e /\ k \in Objects
    BY <1>1, <1>2, TableIs DEF SmallKeys
<1>8. n \in Nat /\ x \in QueueSlots /\ x \notin Range(f.m)
    <2>1. popped.s \in Seq(QueueSlots) /\ popped.m \in Seq(QueueSlots) /\ popped.ghost_q \in Seq(QueueSlots)
        BY <1>6 DEF FifoStates
    <2> HIDE DEF popped
    <2> QED BY <1>6, <1>7, <2>1, EpochIs
<1>9. Queues!Moved(popped, k, 0) = [popped EXCEPT !.entries = d, !.m = M]
    BY <1>6, TagIs DEF Queues!Moved
<1> HIDE DEF n, x
<1>10. v \in FifoEntries /\ v.in_m /\ v.freq = 0 /\ v.seq = n
    BY <1>8 DEF FifoEntries
<1> HIDE DEF v
<1>11. d \in Tables(FifoEntries) /\ DOMAIN d = DOMAIN e /\ d[k] = v /\ \A y \in DOMAIN e \ {k} : d[y] = e[y]
    BY <1>1, <1>7, <1>10, TableSet
<1> HIDE DEF d
<1>12. Placed(d, e, k, v)
    BY <1>7, <1>11 DEF Placed
<1>13. /\ SmallKeys(d) = SmallKeys(e) \ {k} /\ MainKeys(d) = MainKeys(e) \cup {k} /\ k \notin MainKeys(e)
       /\ EntryTags(d, SmallKeys(d)) = SmallTags(f) \ {h}
       /\ EntryTags(d, MainKeys(d)) = MainTags(f) \cup {x}
    <2>1. /\ SmallKeys(d) = SmallKeys(e) \ {k} /\ MainKeys(d) = MainKeys(e) \cup {k}
          /\ EntryTags(d, SmallKeys(d)) = EntryTags(e, SmallKeys(e) \ {k})
          /\ EntryTags(d, MainKeys(d)) = EntryTags(e, MainKeys(e) \ {k}) \cup {Tag(k, v.seq)}
        <3> HIDE DEF e
        <3> QED BY <1>1, <1>10, <1>12, PlacedMain
    <2>2. k \notin MainKeys(e) /\ MainKeys(e) \ {k} = MainKeys(e)
        BY <1>2 DEF SmallKeys, MainKeys
    <2> QED BY <1>2, <1>10, <2>1, <2>2 DEF MainTags, x
<1>14. /\ IsList(M, QueueSlots) /\ MainTags(f) \cup {x} \subseteq Range(M)
       /\ Live(M, MainTags(f) \cup {x}) = Append(lm, x)
    <2> DEFINE Q == f.m  L == MainTags(f)
    <2>1. IsList(Q, QueueSlots) /\ L \subseteq Range(Q) /\ x \in QueueSlots /\ x \notin Range(Q)
        BY <1>1, <1>8
    <2> HIDE DEF Q, L
    <2>2. /\ IsList(Append(Q, x), QueueSlots) /\ L \cup {x} \subseteq Range(Append(Q, x))
          /\ Live(Append(Q, x), L \cup {x}) = Append(Live(Q, L), x)
        BY <2>1, LivePushed
    <2> QED BY <1>3, <2>2 DEF Q, L
<1> HIDE DEF M
<1>15. b = [f EXCEPT !.entries = d, !.s = R, !.m = M, !.s_len = f.s_len - 1, !.m_len = f.m_len + 1]
    BY <1>1, <1>5, <1>9 DEF FifoStates
<1>16. /\ b \in FifoStates /\ b.entries = d /\ b.s = R /\ b.m = M /\ b.ghost = f.ghost /\ b.ghost_q = f.ghost_q
       /\ b.s_len = f.s_len - 1 /\ b.m_len = f.m_len + 1
    <2>1. /\ R \in Seq(QueueSlots) /\ M \in Seq(QueueSlots) /\ f.s_len \in Int /\ f.m_len \in Int
        BY <1>1, <1>4, <1>14 DEF FifoStates, IsList
    <2>2. f.s_len - 1 \in Int /\ f.m_len + 1 \in Int
        BY <2>1
    <2> QED BY <1>1, <1>11, <1>15, <2>1, <2>2 DEF FifoStates
<1>17. SmallTags(b) = SmallTags(f) \ {h} /\ MainTags(b) = MainTags(f) \cup {x}
    BY <1>13, <1>16 DEF SmallTags, MainTags
<1>18. FifoSlotted(b)
    BY <1>1, <1>4, <1>14, <1>16, <1>17 DEF FifoSlotted, SmallTags, MainTags
<1>19. Queues!LiveS(b) = Tail(ls) /\ Queues!LiveM(b) = Append(lm, x) /\ Queues!LiveG(b) = lg
    BY <1>3, <1>4, <1>14, <1>16, <1>17, <1>18, LiveNames
<1>20. KeysOf(Append(lm, x)) = Append(KeysOf(lm), k)
    <2>1. lm \in Seq(QueueSlots) /\ x.key = k
        BY <1>3, TagIs DEF OneEach, IsList, x
    <2> QED BY <1>8, <2>1, KeysPushed
<1>21. /\ b.s_len = Cardinality(SmallKeys(d)) /\ b.m_len = Cardinality(MainKeys(d))
       /\ b.s_len + b.m_len = f.s_len + f.m_len
    <2>1. /\ IsFiniteSet(SmallKeys(e)) /\ IsFiniteSet(MainKeys(e))
          /\ Cardinality(SmallKeys(e)) \in Nat /\ Cardinality(MainKeys(e)) \in Nat
        BY <1>1, LiveCounts
    <2>2. f.s_len = Cardinality(SmallKeys(e)) /\ f.m_len = Cardinality(MainKeys(e))
        BY DEF FifoCounts
    <2>3. Cardinality(SmallKeys(d)) = Cardinality(SmallKeys(e)) - 1
        BY <1>2, <1>13, <2>1, FS_RemoveElement
    <2>4. Cardinality(MainKeys(d)) = Cardinality(MainKeys(e)) + 1
        BY <1>13, <2>1, FS_AddElement
    <2> QED BY <1>16, <2>1, <2>2, <2>3, <2>4
<1>22. \A y \in DOMAIN d : d[y].freq \in 0 .. FREQ_MAX
    <2>1. 0 \in 0 .. FREQ_MAX
        BY ReplayAssumption
    <2> QED BY <1>10, <1>11, <2>1 DEF FifoCounts
<1>23. FifoCounts(b)
    BY <1>16, <1>18, <1>21, <1>22 DEF FifoCounts
<1>24. Counted(d) = [Counted(e) EXCEPT ![k] = 0]
    BY <1>7, <1>10, <1>11 DEF Counted
<1>25. /\ View(b).s = Tail(View(f).s) /\ View(b).m = Append(View(f).m, k) /\ View(b).g = View(f).g
       /\ View(b).freq = [View(f).freq EXCEPT ![k] = 0] /\ k = Head(View(f).s)
    <2>1. View(f).s = KeysOf(ls) /\ View(f).m = KeysOf(lm) /\ View(f).g = KeysOf(lg) /\ View(f).freq = Counted(e)
        BY DEF View, ls, lm, lg
    <2>2. /\ View(b).s = KeysOf(Queues!LiveS(b)) /\ View(b).m = KeysOf(Queues!LiveM(b))
          /\ View(b).g = KeysOf(Queues!LiveG(b)) /\ View(b).freq = Counted(d)
        BY <1>16 DEF View
    <2> QED BY <1>2, <1>19, <1>20, <1>24, <2>1, <2>2
<1> QED BY <1>2, <1>11, <1>16, <1>21, <1>23, <1>25 DEF b, k, h

(* The cache proper is left alone.                                         *)
SameCache(b, f) ==
    /\ b.entries = f.entries /\ b.s_len = f.s_len /\ b.m_len = f.m_len
    /\ Queues!LiveS(b) = Queues!LiveS(f) /\ Queues!LiveM(b) = Queues!LiveM(f)

LEMMA SlottedParts ==
    ASSUME NEW f, FifoSlotted(f)
    PROVE  /\ f \in FifoStates /\ f.entries \in Tables(FifoEntries) /\ f.ghost \in Tables(Nat)
           /\ f.s_len \in Int /\ f.m_len \in Int
           /\ IsList(f.s, QueueSlots) /\ IsList(f.m, QueueSlots) /\ IsList(f.ghost_q, QueueSlots)
           /\ SmallTags(f) \subseteq Range(f.s) /\ MainTags(f) \subseteq Range(f.m)
           /\ GhostTags(f.ghost) \subseteq Range(f.ghost_q)
           /\ Queues!LiveS(f) = Live(f.s, SmallTags(f)) /\ Queues!LiveM(f) = Live(f.m, MainTags(f))
           /\ Queues!LiveG(f) = Live(f.ghost_q, GhostTags(f.ghost))
<1>1. /\ f \in FifoStates /\ f.entries \in Tables(FifoEntries) /\ f.ghost \in Tables(Nat)
      /\ f.s_len \in Int /\ f.m_len \in Int
    BY DEF FifoSlotted, FifoStates
<1>2. /\ IsList(f.s, QueueSlots) /\ IsList(f.m, QueueSlots) /\ IsList(f.ghost_q, QueueSlots)
      /\ SmallTags(f) \subseteq Range(f.s) /\ MainTags(f) \subseteq Range(f.m)
      /\ GhostTags(f.ghost) \subseteq Range(f.ghost_q)
    BY DEF FifoSlotted, SmallTags, MainTags
<1> QED BY <1>1, <1>2, LiveNames

Rewritten(b, f, q, r, t) == b = [f EXCEPT !.s = q, !.m = r, !.ghost_q = t]

(* The same live parts in queues that are written anew.                    *)
LEMMA Requeued ==
    ASSUME NEW f, FifoSlotted(f), NEW q, NEW r, NEW t, NEW b,
           IsList(q, QueueSlots), IsList(r, QueueSlots), IsList(t, QueueSlots),
           SmallTags(f) \subseteq Range(q), MainTags(f) \subseteq Range(r), GhostTags(f.ghost) \subseteq Range(t),
           Live(q, SmallTags(f)) = Queues!LiveS(f), Live(r, MainTags(f)) = Queues!LiveM(f),
           Live(t, GhostTags(f.ghost)) = Queues!LiveG(f),
           Rewritten(b, f, q, r, t)
    PROVE  /\ FifoSlotted(b) /\ SameCache(b, f) /\ b.ghost = f.ghost /\ Queues!LiveG(b) = Queues!LiveG(f)
           /\ b.s = q /\ b.m = r /\ b.ghost_q = t
<1>1. f \in FifoStates /\ q \in Seq(QueueSlots) /\ r \in Seq(QueueSlots) /\ t \in Seq(QueueSlots)
    BY SlottedParts DEF IsList
<1>2. /\ b \in FifoStates /\ b.entries = f.entries /\ b.ghost = f.ghost /\ b.s_len = f.s_len /\ b.m_len = f.m_len
      /\ b.s = q /\ b.m = r /\ b.ghost_q = t
    BY <1>1 DEF FifoStates, Rewritten
<1>3. SmallTags(b) = SmallTags(f) /\ MainTags(b) = MainTags(f)
    BY <1>2 DEF SmallTags, MainTags
<1>4. FifoSlotted(b)
    BY <1>2, <1>3 DEF FifoSlotted, SmallTags, MainTags
<1>5. /\ Queues!LiveS(b) = Live(b.s, SmallTags(b)) /\ Queues!LiveM(b) = Live(b.m, MainTags(b))
      /\ Queues!LiveG(b) = Live(b.ghost_q, GhostTags(b.ghost))
    BY <1>4, LiveNames
<1> QED BY <1>2, <1>3, <1>4, <1>5 DEF SameCache

LEMMA CompactGhostsIs ==
    ASSUME NEW f, FifoSlotted(f)
    PROVE  LET b == Queues!CompactGhostQ(f)
           IN  FifoSlotted(b) /\ SameCache(b, f) /\ b.ghost = f.ghost /\ Queues!LiveG(b) = Queues!LiveG(f)
<1> DEFINE b == Queues!CompactGhostQ(f)  g == Queues!LiveG(f)
<1>1. b = f \/ b = [f EXCEPT !.ghost_q = g]
    BY DEF Queues!CompactGhostQ
<1>2. CASE b = f
    BY <1>2 DEF SameCache
<1>3. CASE b = [f EXCEPT !.ghost_q = g]
    <2>1. /\ f \in FifoStates /\ IsList(f.s, QueueSlots) /\ IsList(f.m, QueueSlots) /\ IsList(f.ghost_q, QueueSlots)
          /\ SmallTags(f) \subseteq Range(f.s) /\ MainTags(f) \subseteq Range(f.m)
          /\ GhostTags(f.ghost) \subseteq Range(f.ghost_q)
          /\ Queues!LiveS(f) = Live(f.s, SmallTags(f)) /\ Queues!LiveM(f) = Live(f.m, MainTags(f))
          /\ g = Live(f.ghost_q, GhostTags(f.ghost))
        BY SlottedParts
    <2> HIDE DEF b, g
    <2>2. IsList(g, QueueSlots) /\ GhostTags(f.ghost) \subseteq Range(g) /\ Live(g, GhostTags(f.ghost)) = g
        <3> DEFINE Q == f.ghost_q  L == GhostTags(f.ghost)
        <3>1. IsList(Q, QueueSlots) /\ L \subseteq Range(Q) /\ g = Live(Q, L)
            BY <2>1
        <3> HIDE DEF Q, L
        <3>2. IsList(g, QueueSlots) /\ L \subseteq Range(g) /\ Live(g, L) = g
            BY <3>1, LiveCompact
        <3> QED BY <3>2 DEF L
    <2>3. Rewritten(b, f, f.s, f.m, g)
        BY <1>3, <2>1 DEF FifoStates, Rewritten
    <2>4. /\ Live(f.s, SmallTags(f)) = Queues!LiveS(f) /\ Live(f.m, MainTags(f)) = Queues!LiveM(f)
          /\ Live(g, GhostTags(f.ghost)) = Queues!LiveG(f)
        BY <2>1, <2>2 DEF g
    <2>5. FifoSlotted(b) /\ SameCache(b, f) /\ b.ghost = f.ghost /\ Queues!LiveG(b) = Queues!LiveG(f)
        BY <2>1, <2>2, <2>3, <2>4, Requeued
    <2> QED BY <2>5 DEF b
<1> QED BY <1>1, <1>2, <1>3

(* Compaction drops stale slots only: no view changes.                     *)
LEMMA CompactedIs ==
    ASSUME NEW f, FifoSlotted(f)
    PROVE  LET b == Queues!MaybeCompact(f)
           IN  FifoSlotted(b) /\ SameCache(b, f) /\ b.ghost = f.ghost /\ Queues!LiveG(b) = Queues!LiveG(f)
<1> DEFINE q == IF Queues!Stale(f.s, f.s_len) THEN Queues!LiveS(f) ELSE f.s
           r == IF Queues!Stale(f.m, f.m_len) THEN Queues!LiveM(f) ELSE f.m
           c == [f EXCEPT !.s = q, !.m = r]
<1>1. /\ f \in FifoStates /\ IsList(f.s, QueueSlots) /\ IsList(f.m, QueueSlots) /\ IsList(f.ghost_q, QueueSlots)
      /\ SmallTags(f) \subseteq Range(f.s) /\ MainTags(f) \subseteq Range(f.m)
      /\ GhostTags(f.ghost) \subseteq Range(f.ghost_q)
      /\ Queues!LiveS(f) = Live(f.s, SmallTags(f)) /\ Queues!LiveM(f) = Live(f.m, MainTags(f))
      /\ Queues!LiveG(f) = Live(f.ghost_q, GhostTags(f.ghost))
    BY SlottedParts
<1>2. Queues!MaybeCompact(f) = Queues!CompactGhostQ(c)
    BY DEF Queues!MaybeCompact
<1>3. IsList(q, QueueSlots) /\ SmallTags(f) \subseteq Range(q) /\ Live(q, SmallTags(f)) = Queues!LiveS(f)
    <2> DEFINE Q == f.s  L == SmallTags(f)  V == Queues!LiveS(f)
    <2>1. IsList(Q, QueueSlots) /\ L \subseteq Range(Q) /\ V = Live(Q, L)
        BY <1>1
    <2>2. q = V \/ q = Q
        OBVIOUS
    <2> HIDE DEF Q, L, V, q
    <2>3. IsList(V, QueueSlots) /\ L \subseteq Range(V) /\ Live(V, L) = V
        BY <2>1, LiveCompact
    <2>4. IsList(q, QueueSlots) /\ L \subseteq Range(q) /\ Live(q, L) = V
        BY <2>1, <2>2, <2>3
    <2> QED BY <2>4 DEF L, V
<1>4. IsList(r, QueueSlots) /\ MainTags(f) \subseteq Range(r) /\ Live(r, MainTags(f)) = Queues!LiveM(f)
    <2> DEFINE Q == f.m  L == MainTags(f)  V == Queues!LiveM(f)
    <2>1. IsList(Q, QueueSlots) /\ L \subseteq Range(Q) /\ V = Live(Q, L)
        BY <1>1
    <2>2. r = V \/ r = Q
        OBVIOUS
    <2> HIDE DEF Q, L, V, r
    <2>3. IsList(V, QueueSlots) /\ L \subseteq Range(V) /\ Live(V, L) = V
        BY <2>1, LiveCompact
    <2>4. IsList(r, QueueSlots) /\ L \subseteq Range(r) /\ Live(r, L) = V
        BY <2>1, <2>2, <2>3
    <2> QED BY <2>4 DEF L, V
<1> HIDE DEF q, r
<1>5. Rewritten(c, f, q, r, f.ghost_q)
    BY <1>1 DEF FifoStates, Rewritten
<1> HIDE DEF c
<1>6. FifoSlotted(c) /\ SameCache(c, f) /\ c.ghost = f.ghost /\ Queues!LiveG(c) = Queues!LiveG(f)
    BY <1>1, <1>3, <1>4, <1>5, Requeued
<1> DEFINE b == Queues!CompactGhostQ(c)
<1>7. FifoSlotted(b) /\ SameCache(b, c) /\ b.ghost = c.ghost /\ Queues!LiveG(b) = Queues!LiveG(c)
    BY <1>6, CompactGhostsIs
<1> HIDE DEF b
<1>8. FifoSlotted(b) /\ SameCache(b, f) /\ b.ghost = f.ghost /\ Queues!LiveG(b) = Queues!LiveG(f)
    BY <1>6, <1>7 DEF SameCache
<1> QED BY <1>2, <1>8 DEF b

(* A slot is pushed; a key is entered.                                     *)
Pushable(Q, L, x) == IsList(Q, QueueSlots) /\ L \subseteq Range(Q) /\ x \in QueueSlots /\ x \notin Range(Q)
SlotPushed(q, Q, L, x) ==
    IsList(q, QueueSlots) /\ L \cup {x} \subseteq Range(q) /\ Live(q, L \cup {x}) = Append(Live(Q, L), x)
PutIn(g, h, k, v, V) ==
    g \in Tables(V) /\ DOMAIN g = DOMAIN h \cup {k} /\ g[k] = v /\ \A x \in DOMAIN h \ {k} : g[x] = h[x]

LEMMA SlotPushedIs ==
    ASSUME NEW Q, NEW L, NEW x, Pushable(Q, L, x)
    PROVE  SlotPushed(Append(Q, x), Q, L, x)
<1>1. IsList(Q, QueueSlots) /\ L \subseteq Range(Q) /\ x \in QueueSlots /\ x \notin Range(Q)
    BY DEF Pushable
<1>2. /\ IsList(Append(Q, x), QueueSlots) /\ L \cup {x} \subseteq Range(Append(Q, x))
      /\ Live(Append(Q, x), L \cup {x}) = Append(Live(Q, L), x)
    BY <1>1, LivePushed
<1> QED BY <1>2 DEF SlotPushed

LEMMA PutIs ==
    ASSUME NEW V, NEW h, h \in Tables(V), NEW k, k \in Objects, NEW v, v \in V
    PROVE  PutIn(Queues!With(h, k, v), h, k, v, V)
<1>1. LET d == Queues!With(h, k, v)
      IN  d \in Tables(V) /\ DOMAIN d = DOMAIN h \cup {k} /\ d[k] = v /\ \A y \in DOMAIN h \ {k} : d[y] = h[y]
    BY TableMore
<1> QED BY <1>1 DEF PutIn

(* ghost_add: the key at the recent end, and the oldest ghost out when     *)
(* there is no room for one more.                                          *)
LEMMA TrimmedIs ==
    ASSUME NEW f, FifoSlotted(f)
    PROVE  LET b == Queues!TrimGhosts(f)
           IN  /\ FifoSlotted(b) /\ SameCache(b, f) /\ DOMAIN b.ghost \subseteq DOMAIN f.ghost
               /\ Queues!LiveG(b) = IF Len(Queues!LiveG(f)) > FifoCapacity THEN Tail(Queues!LiveG(f)) ELSE Queues!LiveG(f)
<1> DEFINE b == Queues!TrimGhosts(f)  lg == Queues!LiveG(f)  h == Head(lg)  k == h.key
           R == Queues!After(f.ghost_q, LAMBDA x : Queues!GhostLive(f, x))
           w == Queues!Without(f.ghost, k)
<1>1. /\ f \in FifoStates /\ IsList(f.s, QueueSlots) /\ IsList(f.m, QueueSlots) /\ f.ghost \in Tables(Nat)
      /\ SmallTags(f) \subseteq Range(f.s) /\ MainTags(f) \subseteq Range(f.m)
      /\ GhostTags(f.ghost) \subseteq Range(f.ghost_q)
      /\ Queues!LiveS(f) = Live(f.s, SmallTags(f)) /\ Queues!LiveM(f) = Live(f.m, MainTags(f))
      /\ lg = Live(f.ghost_q, GhostTags(f.ghost))
    BY SlottedParts
<1>2. Len(lg) = Cardinality(DOMAIN f.ghost) /\ Len(lg) \in Nat
    BY LiveCounts
<1>3. FifoCapacity \in Nat
    BY ReplayAssumption DEF FifoCapacity, Policies
<1>4. b = IF Len(lg) <= FifoCapacity THEN f ELSE [f EXCEPT !.ghost = w, !.ghost_q = R]
    BY <1>2, QueueNames DEF Queues!TrimGhosts, FifoCapacity
<1>5. CASE Len(lg) <= FifoCapacity
    BY <1>2, <1>3, <1>4, <1>5 DEF SameCache
<1>6. CASE ~(Len(lg) <= FifoCapacity)
    <2>1. GhostTags(f.ghost) # {}
        <3>1. DOMAIN f.ghost # {}
            <4> SUFFICES ASSUME DOMAIN f.ghost = {} PROVE FALSE
                OBVIOUS
            <4>1. Cardinality({}) = 0
                BY FS_EmptySet
            <4>2. Len(lg) = 0
                BY <1>2, <4>1
            <4> HIDE DEF lg
            <4> QED BY <1>3, <1>6, <4>2
        <3> QED BY <3>1 DEF GhostTags
    <2>2. Popped(R, f.ghost_q, GhostTags(f.ghost), QueueSlots)
        BY <2>1, PopGhost
    <2>3. /\ h \in GhostTags(f.ghost) /\ IsList(R, QueueSlots) /\ GhostTags(f.ghost) \ {h} \subseteq Range(R)
          /\ Live(R, GhostTags(f.ghost) \ {h}) = Tail(lg)
        BY <1>1, <2>2 DEF Popped
    <2>4. b = [f EXCEPT !.ghost = w, !.ghost_q = R]
        BY <1>4, <1>6
    <2> HIDE DEF b, R, h
    <2>5. k \in DOMAIN f.ghost /\ h = Tag(k, f.ghost[k])
        BY <2>3, TagIs DEF GhostTags
    <2> HIDE DEF k
    <2>6. w \in Tables(Nat) /\ DOMAIN w = DOMAIN f.ghost \ {k} /\ \A y \in DOMAIN f.ghost \ {k} : w[y] = f.ghost[y]
        <3> DEFINE g == f.ghost
        <3>1. g \in Tables(Nat)
            BY <1>1
        <3> HIDE DEF g
        <3>2. LET v == Queues!Without(g, k)
              IN  v \in Tables(Nat) /\ DOMAIN v = DOMAIN g \ {k} /\ \A y \in DOMAIN g \ {k} : v[y] = g[y]
            BY <3>1, TableLess
        <3> QED BY <3>2 DEF g
    <2> HIDE DEF w
    <2>7. GhostTags(w) = GhostTags(f.ghost) \ {h}
        BY <2>5, <2>6, TagIs DEF GhostTags
    <2>8. /\ b \in FifoStates /\ b.entries = f.entries /\ b.s = f.s /\ b.m = f.m /\ b.ghost = w /\ b.ghost_q = R
          /\ b.s_len = f.s_len /\ b.m_len = f.m_len
        BY <1>1, <2>3, <2>4, <2>6 DEF FifoStates, IsList
    <2>9. SmallTags(b) = SmallTags(f) /\ MainTags(b) = MainTags(f)
        BY <2>8 DEF SmallTags, MainTags
    <2>10. FifoSlotted(b)
        BY <1>1, <2>3, <2>7, <2>8, <2>9 DEF FifoSlotted, SmallTags, MainTags
    <2>11. Queues!LiveS(b) = Queues!LiveS(f) /\ Queues!LiveM(b) = Queues!LiveM(f) /\ Queues!LiveG(b) = Tail(lg)
        BY <1>1, <2>3, <2>7, <2>8, <2>9, <2>10, LiveNames
    <2>12. Len(lg) > FifoCapacity
        BY <1>2, <1>3, <1>6
    <2>13. SameCache(b, f) /\ DOMAIN b.ghost \subseteq DOMAIN f.ghost
        BY <2>6, <2>8, <2>11 DEF SameCache
    <2> QED BY <2>10, <2>11, <2>12, <2>13 DEF b
<1> QED BY <1>5, <1>6

(* ghost_add in all of its cases.                                          *)
LEMMA GhostAddIs ==
    ASSUME NEW f, FifoSlotted(f), NEW k \in Objects, k \notin DOMAIN f.ghost, k \notin DOMAIN f.entries, FifoGhosts(f)
    PROVE  LET b == Queues!GhostAdd(f, k)
           IN  /\ FifoSlotted(b) /\ SameCache(b, f) /\ FifoGhosts(b)
               /\ View(b).g = Eager!Ghosted(View(f).g, k)
<1> DEFINE n == Queues!BumpSeq(f, k)  lg == Queues!LiveG(f)
<1>1. /\ f \in FifoStates /\ IsList(f.s, QueueSlots) /\ IsList(f.m, QueueSlots) /\ f.ghost \in Tables(Nat)
      /\ SmallTags(f) \subseteq Range(f.s) /\ MainTags(f) \subseteq Range(f.m)
      /\ IsList(f.ghost_q, QueueSlots) /\ GhostTags(f.ghost) \subseteq Range(f.ghost_q)
      /\ Queues!LiveS(f) = Live(f.s, SmallTags(f)) /\ Queues!LiveM(f) = Live(f.m, MainTags(f))
      /\ lg = Live(f.ghost_q, GhostTags(f.ghost))
    BY SlottedParts
<1> DEFINE x == Tag(k, n)
<1>2. n \in Nat /\ x \in QueueSlots /\ x \notin Range(f.ghost_q)
    BY <1>1, EpochIs DEF IsList
<1> HIDE DEF n
<1> DEFINE w == Queues!With(f.ghost, k, n)
<1>4. w \in Tables(Nat) /\ DOMAIN w = DOMAIN f.ghost \cup {k} /\ w[k] = n /\ \A y \in DOMAIN f.ghost \ {k} : w[y] = f.ghost[y]
    <2>1. f.ghost \in Tables(Nat) /\ k \in Objects /\ n \in Nat
        BY <1>1, <1>2
    <2>2. PutIn(w, f.ghost, k, n, Nat)
        BY <2>1, PutIs
    <2> QED BY <2>2 DEF PutIn
<1> DEFINE q == Append(f.ghost_q, x)
<1>5. /\ IsList(q, QueueSlots) /\ GhostTags(f.ghost) \cup {x} \subseteq Range(q)
      /\ Live(q, GhostTags(f.ghost) \cup {x}) = Append(lg, x)
    <2>1. Pushable(f.ghost_q, GhostTags(f.ghost), x)
        BY <1>1, <1>2 DEF Pushable
    <2>2. SlotPushed(q, f.ghost_q, GhostTags(f.ghost), x)
        BY <2>1, SlotPushedIs
    <2> QED BY <1>1, <2>2 DEF SlotPushed
<1> DEFINE c == [f EXCEPT !.ghost = w, !.ghost_q = q]
           t == Queues!TrimGhosts(c)  b == Queues!CompactGhostQ(t)
<1>3. Queues!GhostAdd(f, k) = b
    BY TagIs DEF Queues!GhostAdd, n
<1> HIDE DEF w, q
<1>6. GhostTags(w) = GhostTags(f.ghost) \cup {x}
    BY <1>4 DEF GhostTags
<1> HIDE DEF x
<1>7. /\ c \in FifoStates /\ c.entries = f.entries /\ c.s = f.s /\ c.m = f.m /\ c.ghost = w /\ c.ghost_q = q
      /\ c.s_len = f.s_len /\ c.m_len = f.m_len
    BY <1>1, <1>4, <1>5 DEF FifoStates, IsList
<1> HIDE DEF c
<1>8. SmallTags(c) = SmallTags(f) /\ MainTags(c) = MainTags(f)
    BY <1>7 DEF SmallTags, MainTags
<1>9. FifoSlotted(c)
    BY <1>1, <1>5, <1>6, <1>7, <1>8 DEF FifoSlotted, SmallTags, MainTags
<1>10. Queues!LiveS(c) = Queues!LiveS(f) /\ Queues!LiveM(c) = Queues!LiveM(f) /\ Queues!LiveG(c) = Append(lg, x)
    BY <1>1, <1>5, <1>6, <1>7, <1>8, <1>9, LiveNames
<1>11. SameCache(c, f)
    BY <1>7, <1>10 DEF SameCache
<1>12. /\ FifoSlotted(t) /\ SameCache(t, c) /\ DOMAIN t.ghost \subseteq DOMAIN c.ghost
       /\ Queues!LiveG(t) = IF Len(Append(lg, x)) > FifoCapacity THEN Tail(Append(lg, x)) ELSE Append(lg, x)
    BY <1>9, <1>10, TrimmedIs
<1> HIDE DEF t
<1>13. FifoSlotted(b) /\ SameCache(b, t) /\ b.ghost = t.ghost /\ Queues!LiveG(b) = Queues!LiveG(t)
    BY <1>12, CompactGhostsIs
<1> HIDE DEF b
<1>14. SameCache(b, f)
    BY <1>11, <1>12, <1>13 DEF SameCache
<1>15. /\ OneEach(lg) /\ OneEach(Append(lg, x)) /\ Range(KeysOf(lg)) = DOMAIN f.ghost
       /\ IsList(KeysOf(lg), Objects) /\ Len(lg) = Cardinality(DOMAIN f.ghost) /\ Len(lg) \in Nat
       /\ Len(KeysOf(lg)) = Len(lg)
    BY <1>9, <1>10, LiveKeys, LiveCounts, KeysAre
<1>16. KeysOf(Append(lg, x)) = Append(KeysOf(lg), k) /\ Len(Append(lg, x)) = Len(lg) + 1 /\ Append(lg, x) # <<>>
    <2>1. lg \in Seq(QueueSlots) /\ x.key = k
        BY <1>15, TagIs DEF OneEach, IsList, x
    <2>2. KeysOf(Append(lg, x)) = Append(KeysOf(lg), k)
        BY <1>2, <2>1, KeysPushed
    <2>3. Append(lg, x) \in Seq(QueueSlots) /\ Len(Append(lg, x)) = Len(lg) + 1
        BY <1>2, <2>1, AppendProperties
    <2>4. Append(lg, x) # <<>>
        <3> SUFFICES ASSUME Append(lg, x) = <<>> PROVE FALSE
            OBVIOUS
        <3>1. Len(<<>>) = 0
            BY EmptySeq
        <3>2. Len(lg) + 1 = 0
            BY <2>3, <3>1
        <3> HIDE DEF lg
        <3> QED BY <1>15, <3>2
    <2> QED BY <2>2, <2>3, <2>4
<1>17. FifoCapacity \in Nat
    BY ReplayAssumption DEF FifoCapacity, Policies
<1>18. View(b).g = Eager!Ghosted(View(f).g, k)
    <2>1. View(b).g = KeysOf(Queues!LiveG(t)) /\ View(f).g = KeysOf(lg)
        BY <1>13 DEF View, lg
    <2>2. Eager!Without(KeysOf(lg), k) = KeysOf(lg)
        BY <1>15, EagerWithoutIs
    <2>3. Eager!Ghosted(KeysOf(lg), k)
            = IF Len(Append(KeysOf(lg), k)) > FifoCapacity THEN Tail(Append(KeysOf(lg), k)) ELSE Append(KeysOf(lg), k)
        BY <2>2 DEF Eager!Ghosted, FifoCapacity
    <2>4. Len(Append(KeysOf(lg), k)) = Len(lg) + 1
        BY <1>15, AppendProperties DEF IsList
    <2>5. KeysOf(Tail(Append(lg, x))) = Tail(Append(KeysOf(lg), k))
        BY <1>15, <1>16, KeysPopped
    <2> QED BY <1>12, <1>16, <2>1, <2>3, <2>4, <2>5
<1>19. FifoGhosts(b)
    <2>1. DOMAIN b.ghost \subseteq DOMAIN f.ghost \cup {k} /\ b.entries = f.entries
        BY <1>4, <1>7, <1>12, <1>13, <1>14 DEF SameCache
    <2>2. DOMAIN b.ghost \cap DOMAIN b.entries = {}
        BY <2>1 DEF FifoGhosts
    <2>3. Cardinality(DOMAIN b.ghost) = Len(Queues!LiveG(b)) /\ Len(Queues!LiveG(b)) \in Nat
        BY <1>13, LiveCounts
    <2>4. Len(lg) <= FifoCapacity
        BY <1>15 DEF FifoGhosts
    <2>5. Len(Tail(Append(lg, x))) = Len(lg)
        <3>1. Append(lg, x) \in Seq(QueueSlots)
            BY <1>15 DEF OneEach, IsList
        <3>2. Len(Tail(Append(lg, x))) = Len(Append(lg, x)) - 1
            BY <1>16, <3>1, HeadTailProperties
        <3> QED BY <1>15, <1>16, <3>2
    <2>6. Len(Queues!LiveG(b)) <= FifoCapacity
        BY <1>12, <1>13, <1>15, <1>16, <1>17, <2>4, <2>5
    <2> QED BY <2>2, <2>3, <2>6 DEF FifoGhosts
<1> QED BY <1>3, <1>13, <1>14, <1>18, <1>19

LEMMA FifoEntryIs ==
    ASSUME NEW f, FifoCounts(f), NEW k \in DOMAIN f.entries
    PROVE  /\ k \in Objects /\ f.entries[k] \in FifoEntries /\ f.entries[k].freq \in 0 .. FREQ_MAX
           /\ f.entries[k].in_m \in BOOLEAN /\ FREQ_MAX \in Nat
<1>1. f.entries \in Tables(FifoEntries)
    BY DEF FifoCounts, FifoSlotted, FifoStates
<1>2. f.entries \in [DOMAIN f.entries -> FifoEntries] /\ DOMAIN f.entries \subseteq Objects
    BY <1>1, TableIs
<1>3. f.entries[k] \in FifoEntries
    BY <1>2
<1>4. f.entries[k].in_m \in BOOLEAN
    BY <1>3 DEF FifoEntries
<1> QED BY <1>2, <1>3, <1>4, ReplayAssumption DEF FifoCounts

(* evict_m, when the key has a counted hit left: to the tail for one.      *)
SecondChance(f) ==
    LET k == Head(Queues!LiveM(f)).key
        popped == [f EXCEPT !.m = Queues!AfterLiveM(f)]
    IN  Queues!Moved(popped, k, f.entries[k].freq - 1)

LEMMA SecondChanceIs ==
    ASSUME NEW f, FifoCounts(f), MainKeys(f.entries) # {}, f.entries[Head(Queues!LiveM(f)).key].freq > 0
    PROVE  LET b == SecondChance(f)  k == Head(Queues!LiveM(f)).key
           IN  /\ FifoCounts(b) /\ b.ghost = f.ghost /\ DOMAIN b.entries = DOMAIN f.entries
               /\ b.s_len + b.m_len = f.s_len + f.m_len
               /\ k \in MainKeys(f.entries) /\ k = Head(View(f).m)
               /\ View(b).s = View(f).s /\ View(b).m = Append(Tail(View(f).m), k) /\ View(b).g = View(f).g
               /\ View(b).freq = [View(f).freq EXCEPT ![k] = f.entries[k].freq - 1]
<1> DEFINE e == f.entries  h == Head(Queues!LiveM(f))  k == h.key  R == Queues!AfterLiveM(f)
           c == e[k].freq - 1
           popped == [f EXCEPT !.m = R]
           n == Queues!BumpSeq(popped, k)  x == Tag(k, n)
           v == [freq |-> c, in_m |-> TRUE, seq |-> n]  d == [e EXCEPT ![k] = v]
           M == Append(R, x)  b == SecondChance(f)
           ls == Queues!LiveS(f)  lm == Queues!LiveM(f)  lg == Queues!LiveG(f)
<1>1. /\ FifoSlotted(f) /\ f \in FifoStates /\ e \in Tables(FifoEntries)
      /\ IsList(f.s, QueueSlots) /\ IsList(f.m, QueueSlots) /\ IsList(f.ghost_q, QueueSlots)
      /\ SmallTags(f) \subseteq Range(f.s) /\ MainTags(f) \subseteq Range(f.m) /\ GhostTags(f.ghost) \subseteq Range(f.ghost_q)
    BY DEF FifoCounts, FifoSlotted, FifoStates, SmallTags, MainTags
<1>2. /\ Popped(R, f.m, MainTags(f), QueueSlots) /\ k \in MainKeys(e)
      /\ MainTags(f) \ {h} = EntryTags(e, MainKeys(e) \ {k})
      /\ Head(KeysOf(lm)) = k /\ KeysOf(Tail(lm)) = Tail(KeysOf(lm))
    BY <1>1, OldestMain
<1>3. /\ ls = Live(f.s, SmallTags(f)) /\ lm = Live(f.m, MainTags(f)) /\ lg = Live(f.ghost_q, GhostTags(f.ghost))
      /\ OneEach(lm)
    BY <1>1, LiveNames, LiveKeys
<1>4. /\ IsList(R, QueueSlots) /\ MainTags(f) \ {h} \subseteq Range(R) /\ Live(R, MainTags(f) \ {h}) = Tail(lm)
      /\ lm # <<>>
    BY <1>2, <1>3 DEF Popped
<1>5. b = Queues!Moved(popped, k, c)
    BY DEF SecondChance
<1>7. k \in DOMAIN e /\ k \in Objects /\ e[k].freq \in 0 .. FREQ_MAX /\ FREQ_MAX \in Nat /\ e[k].freq > 0
    <2>1. k \in DOMAIN e
        BY <1>2 DEF MainKeys
    <2> HIDE DEF k
    <2> QED BY <2>1, FifoEntryIs DEF k
<1>77. c \in 0 .. FREQ_MAX /\ c \in Nat
    BY <1>7
<1> HIDE DEF h, k, R, ls, lm, lg, b, c
<1>6. /\ popped \in FifoStates /\ popped.s = f.s /\ popped.m = R /\ popped.ghost_q = f.ghost_q
      /\ popped.entries = e
    <2>1. R \in Seq(QueueSlots)
        BY <1>1, <1>4 DEF FifoStates, IsList
    <2> QED BY <1>1, <2>1 DEF FifoStates
<1>8. n \in Nat /\ x \in QueueSlots /\ x \notin Range(R)
    <2>1. popped.s \in Seq(QueueSlots) /\ popped.m \in Seq(QueueSlots) /\ popped.ghost_q \in Seq(QueueSlots)
        BY <1>6 DEF FifoStates
    <2> HIDE DEF popped
    <2> QED BY <1>6, <1>7, <2>1, EpochIs
<1>9. Queues!Moved(popped, k, c) = [popped EXCEPT !.entries = d, !.m = M]
    BY <1>6, TagIs DEF Queues!Moved
<1> HIDE DEF n, x
<1>10. v \in FifoEntries /\ v.in_m /\ v.freq = c /\ v.seq = n
    BY <1>8, <1>77 DEF FifoEntries
<1> HIDE DEF v
<1>11. d \in Tables(FifoEntries) /\ DOMAIN d = DOMAIN e /\ d[k] = v /\ \A y \in DOMAIN e \ {k} : d[y] = e[y]
    BY <1>1, <1>7, <1>10, TableSet
<1> HIDE DEF d
<1>12. Placed(d, e, k, v)
    BY <1>7, <1>11 DEF Placed
<1>13. /\ SmallKeys(d) = SmallKeys(e) /\ MainKeys(d) = MainKeys(e)
       /\ EntryTags(d, SmallKeys(d)) = SmallTags(f)
       /\ EntryTags(d, MainKeys(d)) = (MainTags(f) \ {h}) \cup {x}
    <2>1. /\ SmallKeys(d) = SmallKeys(e) \ {k} /\ MainKeys(d) = MainKeys(e) \cup {k}
          /\ EntryTags(d, SmallKeys(d)) = EntryTags(e, SmallKeys(e) \ {k})
          /\ EntryTags(d, MainKeys(d)) = EntryTags(e, MainKeys(e) \ {k}) \cup {Tag(k, v.seq)}
        <3> HIDE DEF e
        <3> QED BY <1>1, <1>10, <1>12, PlacedMain
    <2>2. SmallKeys(e) \ {k} = SmallKeys(e) /\ MainKeys(e) \cup {k} = MainKeys(e)
        BY <1>2 DEF SmallKeys, MainKeys
    <2> QED BY <1>2, <1>10, <2>1, <2>2 DEF SmallTags, x
<1>14. /\ IsList(M, QueueSlots) /\ (MainTags(f) \ {h}) \cup {x} \subseteq Range(M)
       /\ Live(M, (MainTags(f) \ {h}) \cup {x}) = Append(Tail(lm), x)
    <2>1. Pushable(R, MainTags(f) \ {h}, x)
        BY <1>4, <1>8 DEF Pushable
    <2>2. SlotPushed(M, R, MainTags(f) \ {h}, x)
        BY <2>1, SlotPushedIs
    <2> QED BY <1>4, <2>2 DEF SlotPushed
<1> HIDE DEF M
<1>15. b = [f EXCEPT !.entries = d, !.m = M]
    BY <1>1, <1>5, <1>9 DEF FifoStates
<1>16. /\ b \in FifoStates /\ b.entries = d /\ b.s = f.s /\ b.m = M /\ b.ghost = f.ghost /\ b.ghost_q = f.ghost_q
       /\ b.s_len = f.s_len /\ b.m_len = f.m_len
    <2>1. M \in Seq(QueueSlots)
        BY <1>14 DEF IsList
    <2> QED BY <1>1, <1>11, <1>15, <2>1 DEF FifoStates
<1>17. SmallTags(b) = SmallTags(f) /\ MainTags(b) = (MainTags(f) \ {h}) \cup {x}
    BY <1>13, <1>16 DEF SmallTags, MainTags
<1>18. FifoSlotted(b)
    BY <1>1, <1>14, <1>16, <1>17 DEF FifoSlotted, SmallTags, MainTags
<1>19. Queues!LiveS(b) = ls /\ Queues!LiveM(b) = Append(Tail(lm), x) /\ Queues!LiveG(b) = lg
    BY <1>3, <1>14, <1>16, <1>17, <1>18, LiveNames
<1>20. KeysOf(Append(Tail(lm), x)) = Append(Tail(KeysOf(lm)), k)
    <2>1. lm \in Seq(QueueSlots) /\ x.key = k
        BY <1>3, TagIs DEF OneEach, IsList, x
    <2>2. Tail(lm) \in Seq(QueueSlots)
        BY <1>4, <2>1, HeadTailProperties
    <2>3. KeysOf(Append(Tail(lm), x)) = Append(KeysOf(Tail(lm)), x.key)
        BY <1>8, <2>2, KeysPushed
    <2> QED BY <1>2, <2>1, <2>3
<1>21. /\ b.s_len = Cardinality(SmallKeys(d)) /\ b.m_len = Cardinality(MainKeys(d))
       /\ b.s_len + b.m_len = f.s_len + f.m_len
    BY <1>13, <1>16 DEF FifoCounts
<1>22. \A y \in DOMAIN d : d[y].freq \in 0 .. FREQ_MAX
    BY <1>10, <1>11, <1>77 DEF FifoCounts
<1>23. FifoCounts(b)
    BY <1>16, <1>18, <1>21, <1>22 DEF FifoCounts
<1>24. Counted(d) = [Counted(e) EXCEPT ![k] = c]
    BY <1>7, <1>10, <1>11 DEF Counted
<1>25. /\ View(b).s = View(f).s /\ View(b).m = Append(Tail(View(f).m), k) /\ View(b).g = View(f).g
       /\ View(b).freq = [View(f).freq EXCEPT ![k] = c] /\ k = Head(View(f).m)
    <2>1. View(f).s = KeysOf(ls) /\ View(f).m = KeysOf(lm) /\ View(f).g = KeysOf(lg) /\ View(f).freq = Counted(e)
        BY DEF View, ls, lm, lg
    <2>2. /\ View(b).s = KeysOf(Queues!LiveS(b)) /\ View(b).m = KeysOf(Queues!LiveM(b))
          /\ View(b).g = KeysOf(Queues!LiveG(b)) /\ View(b).freq = Counted(d)
        BY <1>16 DEF View
    <2> QED BY <1>2, <1>19, <1>20, <1>24, <2>1, <2>2
<1> QED BY <1>2, <1>11, <1>16, <1>21, <1>23, <1>25 DEF b, k, h, c

(* evict_m, when the key has none left: it has gone.                       *)
GoneFromMain(f) ==
    LET k == Head(Queues!LiveM(f)).key
        popped == [f EXCEPT !.m = Queues!AfterLiveM(f)]
    IN  [popped EXCEPT !.entries = Queues!Without(@, k), !.m_len = @ - 1]

LEMMA CountedLess ==
    ASSUME NEW e, NEW d, NEW k, DOMAIN d = DOMAIN e \ {k}, \A x \in DOMAIN e \ {k} : d[x] = e[x]
    PROVE  Counted(d) = Eager!Drop(Counted(e), k)
BY DEF Counted, Eager!Drop

(* The main queue loses a key, and nothing else changes.                   *)
LEMMA GoneFromMainIs ==
    ASSUME NEW f, FifoCounts(f), MainKeys(f.entries) # {}
    PROVE  LET b == GoneFromMain(f)  k == Head(Queues!LiveM(f)).key
           IN  /\ FifoCounts(b) /\ b.ghost = f.ghost /\ DOMAIN b.entries = DOMAIN f.entries \ {k}
               /\ b.s_len + b.m_len = f.s_len + f.m_len - 1
               /\ k \in MainKeys(f.entries) /\ k = Head(View(f).m)
               /\ View(b).s = View(f).s /\ View(b).m = Tail(View(f).m) /\ View(b).g = View(f).g
               /\ View(b).freq = Eager!Drop(View(f).freq, k)
<1> DEFINE e == f.entries  h == Head(Queues!LiveM(f))  k == h.key  R == Queues!AfterLiveM(f)
           d == Queues!Without(e, k)  b == GoneFromMain(f)
           ls == Queues!LiveS(f)  lm == Queues!LiveM(f)  lg == Queues!LiveG(f)
<1>1. /\ FifoSlotted(f) /\ f \in FifoStates /\ e \in Tables(FifoEntries)
      /\ IsList(f.s, QueueSlots) /\ IsList(f.m, QueueSlots) /\ IsList(f.ghost_q, QueueSlots)
      /\ SmallTags(f) \subseteq Range(f.s) /\ MainTags(f) \subseteq Range(f.m) /\ GhostTags(f.ghost) \subseteq Range(f.ghost_q)
    BY DEF FifoCounts, FifoSlotted, FifoStates, SmallTags, MainTags
<1>2. /\ Popped(R, f.m, MainTags(f), QueueSlots) /\ k \in MainKeys(e)
      /\ MainTags(f) \ {h} = EntryTags(e, MainKeys(e) \ {k})
      /\ Head(KeysOf(lm)) = k /\ KeysOf(Tail(lm)) = Tail(KeysOf(lm))
    BY <1>1, OldestMain
<1>3. ls = Live(f.s, SmallTags(f)) /\ lm = Live(f.m, MainTags(f)) /\ lg = Live(f.ghost_q, GhostTags(f.ghost))
    BY <1>1, LiveNames
<1>4. IsList(R, QueueSlots) /\ MainTags(f) \ {h} \subseteq Range(R) /\ Live(R, MainTags(f) \ {h}) = Tail(lm)
    BY <1>2, <1>3 DEF Popped
<1>5. b = [f EXCEPT !.m = R, !.entries = d, !.m_len = f.m_len - 1]
    BY <1>1 DEF GoneFromMain, FifoStates
<1> HIDE DEF h, k, R, ls, lm, lg, b
<1>6. /\ d \in Tables(FifoEntries) /\ DOMAIN d = DOMAIN e \ {k} /\ \A x \in DOMAIN e \ {k} : d[x] = e[x]
      /\ SmallKeys(d) = SmallKeys(e) \ {k} /\ MainKeys(d) = MainKeys(e) \ {k}
      /\ EntryTags(d, SmallKeys(d)) = EntryTags(e, SmallKeys(e) \ {k})
      /\ EntryTags(d, MainKeys(d)) = EntryTags(e, MainKeys(e) \ {k})
    <2> HIDE DEF e
    <2> QED BY <1>1, EntryGone
<1> HIDE DEF d
<1>7. SmallKeys(e) \ {k} = SmallKeys(e)
    BY <1>2 DEF SmallKeys, MainKeys
<1>8. /\ b \in FifoStates /\ b.entries = d /\ b.s = f.s /\ b.m = R /\ b.ghost = f.ghost /\ b.ghost_q = f.ghost_q
      /\ b.s_len = f.s_len /\ b.m_len = f.m_len - 1
    <2>1. R \in Seq(QueueSlots) /\ f.m_len \in Int
        BY <1>1, <1>4 DEF IsList, FifoStates
    <2>2. f.m_len - 1 \in Int
        BY <2>1
    <2> QED BY <1>1, <1>5, <1>6, <2>1, <2>2 DEF FifoStates
<1>9. SmallTags(b) = SmallTags(f) /\ MainTags(b) = MainTags(f) \ {h}
    BY <1>2, <1>6, <1>7, <1>8 DEF SmallTags, MainTags
<1>10. FifoSlotted(b)
    BY <1>1, <1>4, <1>8, <1>9 DEF FifoSlotted, SmallTags, MainTags
<1>11. Queues!LiveS(b) = ls /\ Queues!LiveM(b) = Tail(lm) /\ Queues!LiveG(b) = lg
    BY <1>3, <1>4, <1>8, <1>9, <1>10, LiveNames
<1>12. /\ b.s_len = Cardinality(SmallKeys(d)) /\ b.m_len = Cardinality(MainKeys(d))
       /\ b.s_len + b.m_len = f.s_len + f.m_len - 1
    <2>1. /\ IsFiniteSet(MainKeys(e)) /\ Cardinality(SmallKeys(e)) \in Nat /\ Cardinality(MainKeys(e)) \in Nat
        BY <1>1, LiveCounts
    <2>2. f.s_len = Cardinality(SmallKeys(e)) /\ f.m_len = Cardinality(MainKeys(e))
        BY DEF FifoCounts
    <2>3. Cardinality(MainKeys(d)) = Cardinality(MainKeys(e)) - 1
        BY <1>2, <1>6, <2>1, FS_RemoveElement
    <2> QED BY <1>6, <1>7, <1>8, <2>1, <2>2, <2>3
<1>13. FifoCounts(b)
    <2>1. \A y \in DOMAIN d : d[y].freq \in 0 .. FREQ_MAX
        BY <1>6 DEF FifoCounts
    <2> QED BY <1>8, <1>10, <1>12, <2>1 DEF FifoCounts
<1>14. Counted(d) = Eager!Drop(Counted(e), k)
    BY <1>6, CountedLess
<1>15. /\ View(b).s = View(f).s /\ View(b).m = Tail(View(f).m) /\ View(b).g = View(f).g
       /\ View(b).freq = Eager!Drop(View(f).freq, k) /\ k = Head(View(f).m)
    <2>1. View(f).s = KeysOf(ls) /\ View(f).m = KeysOf(lm) /\ View(f).g = KeysOf(lg) /\ View(f).freq = Counted(e)
        BY DEF View, ls, lm, lg
    <2>2. /\ View(b).s = KeysOf(Queues!LiveS(b)) /\ View(b).m = KeysOf(Queues!LiveM(b))
          /\ View(b).g = KeysOf(Queues!LiveG(b)) /\ View(b).freq = Counted(d)
        BY <1>8 DEF View
    <2> QED BY <1>2, <1>11, <1>14, <2>1, <2>2
<1> QED BY <1>2, <1>6, <1>8, <1>12, <1>13, <1>15 DEF b, k, h

(* evict_s, when the key has not been hit: it has gone, to the ghosts.     *)
LeftSmall(f) ==
    LET k == Head(Queues!LiveS(f)).key
        popped == [f EXCEPT !.s = Queues!AfterLiveS(f), !.s_len = @ - 1]
    IN  [popped EXCEPT !.entries = Queues!Without(@, k)]
GoneFromSmall(f) == Queues!GhostAdd(LeftSmall(f), Head(Queues!LiveS(f)).key)

LEMMA LeftSmallIs ==
    ASSUME NEW f, FifoCounts(f), SmallKeys(f.entries) # {}
    PROVE  LET b == LeftSmall(f)  k == Head(Queues!LiveS(f)).key
           IN  /\ FifoCounts(b) /\ b.ghost = f.ghost /\ DOMAIN b.entries = DOMAIN f.entries \ {k}
               /\ b.s_len + b.m_len = f.s_len + f.m_len - 1
               /\ k \in SmallKeys(f.entries) /\ k = Head(View(f).s)
               /\ View(b).s = Tail(View(f).s) /\ View(b).m = View(f).m /\ View(b).g = View(f).g
               /\ View(b).freq = Eager!Drop(View(f).freq, k)
<1> DEFINE e == f.entries  h == Head(Queues!LiveS(f))  k == h.key  R == Queues!AfterLiveS(f)
           d == Queues!Without(e, k)  b == LeftSmall(f)
           ls == Queues!LiveS(f)  lm == Queues!LiveM(f)  lg == Queues!LiveG(f)
<1>1. /\ FifoSlotted(f) /\ f \in FifoStates /\ e \in Tables(FifoEntries)
      /\ IsList(f.s, QueueSlots) /\ IsList(f.m, QueueSlots) /\ IsList(f.ghost_q, QueueSlots)
      /\ SmallTags(f) \subseteq Range(f.s) /\ MainTags(f) \subseteq Range(f.m) /\ GhostTags(f.ghost) \subseteq Range(f.ghost_q)
    BY DEF FifoCounts, FifoSlotted, FifoStates, SmallTags, MainTags
<1>2. /\ Popped(R, f.s, SmallTags(f), QueueSlots) /\ k \in SmallKeys(e)
      /\ SmallTags(f) \ {h} = EntryTags(e, SmallKeys(e) \ {k})
      /\ Head(KeysOf(ls)) = k /\ KeysOf(Tail(ls)) = Tail(KeysOf(ls))
    BY <1>1, OldestSmall
<1>3. ls = Live(f.s, SmallTags(f)) /\ lm = Live(f.m, MainTags(f)) /\ lg = Live(f.ghost_q, GhostTags(f.ghost))
    BY <1>1, LiveNames
<1>4. IsList(R, QueueSlots) /\ SmallTags(f) \ {h} \subseteq Range(R) /\ Live(R, SmallTags(f) \ {h}) = Tail(ls)
    BY <1>2, <1>3 DEF Popped
<1>5. b = [f EXCEPT !.s = R, !.s_len = f.s_len - 1, !.entries = d]
    BY <1>1 DEF LeftSmall, FifoStates
<1> HIDE DEF h, k, R, ls, lm, lg, b
<1>6. /\ d \in Tables(FifoEntries) /\ DOMAIN d = DOMAIN e \ {k} /\ \A x \in DOMAIN e \ {k} : d[x] = e[x]
      /\ SmallKeys(d) = SmallKeys(e) \ {k} /\ MainKeys(d) = MainKeys(e) \ {k}
      /\ EntryTags(d, SmallKeys(d)) = EntryTags(e, SmallKeys(e) \ {k})
      /\ EntryTags(d, MainKeys(d)) = EntryTags(e, MainKeys(e) \ {k})
    <2> HIDE DEF e
    <2> QED BY <1>1, EntryGone
<1> HIDE DEF d
<1>7. MainKeys(e) \ {k} = MainKeys(e)
    BY <1>2 DEF SmallKeys, MainKeys
<1>8. /\ b \in FifoStates /\ b.entries = d /\ b.s = R /\ b.m = f.m /\ b.ghost = f.ghost /\ b.ghost_q = f.ghost_q
      /\ b.s_len = f.s_len - 1 /\ b.m_len = f.m_len
    <2>1. R \in Seq(QueueSlots) /\ f.s_len \in Int
        BY <1>1, <1>4 DEF IsList, FifoStates
    <2>2. f.s_len - 1 \in Int
        BY <2>1
    <2> QED BY <1>1, <1>5, <1>6, <2>1, <2>2 DEF FifoStates
<1>9. SmallTags(b) = SmallTags(f) \ {h} /\ MainTags(b) = MainTags(f)
    BY <1>2, <1>6, <1>7, <1>8 DEF SmallTags, MainTags
<1>10. FifoSlotted(b)
    BY <1>1, <1>4, <1>8, <1>9 DEF FifoSlotted, SmallTags, MainTags
<1>11. Queues!LiveS(b) = Tail(ls) /\ Queues!LiveM(b) = lm /\ Queues!LiveG(b) = lg
    BY <1>3, <1>4, <1>8, <1>9, <1>10, LiveNames
<1>12. /\ b.s_len = Cardinality(SmallKeys(d)) /\ b.m_len = Cardinality(MainKeys(d))
       /\ b.s_len + b.m_len = f.s_len + f.m_len - 1
    <2>1. /\ IsFiniteSet(SmallKeys(e)) /\ Cardinality(SmallKeys(e)) \in Nat /\ Cardinality(MainKeys(e)) \in Nat
        BY <1>1, LiveCounts
    <2>2. f.s_len = Cardinality(SmallKeys(e)) /\ f.m_len = Cardinality(MainKeys(e))
        BY DEF FifoCounts
    <2>3. Cardinality(SmallKeys(d)) = Cardinality(SmallKeys(e)) - 1
        BY <1>2, <1>6, <2>1, FS_RemoveElement
    <2> QED BY <1>6, <1>7, <1>8, <2>1, <2>2, <2>3
<1>13. FifoCounts(b)
    <2>1. \A y \in DOMAIN d : d[y].freq \in 0 .. FREQ_MAX
        BY <1>6 DEF FifoCounts
    <2> QED BY <1>8, <1>10, <1>12, <2>1 DEF FifoCounts
<1>14. Counted(d) = Eager!Drop(Counted(e), k)
    BY <1>6, CountedLess
<1>15. /\ View(b).s = Tail(View(f).s) /\ View(b).m = View(f).m /\ View(b).g = View(f).g
       /\ View(b).freq = Eager!Drop(View(f).freq, k) /\ k = Head(View(f).s)
    <2>1. View(f).s = KeysOf(ls) /\ View(f).m = KeysOf(lm) /\ View(f).g = KeysOf(lg) /\ View(f).freq = Counted(e)
        BY DEF View, ls, lm, lg
    <2>2. /\ View(b).s = KeysOf(Queues!LiveS(b)) /\ View(b).m = KeysOf(Queues!LiveM(b))
          /\ View(b).g = KeysOf(Queues!LiveG(b)) /\ View(b).freq = Counted(d)
        BY <1>8 DEF View
    <2> QED BY <1>2, <1>11, <1>14, <2>1, <2>2
<1> QED BY <1>2, <1>6, <1>8, <1>12, <1>13, <1>15 DEF b, k, h

(* The small queue loses a key to the ghosts.                              *)
LEMMA GoneFromSmallIs ==
    ASSUME NEW f, FifoCounts(f), FifoGhosts(f), SmallKeys(f.entries) # {}
    PROVE  LET b == GoneFromSmall(f)  k == Head(Queues!LiveS(f)).key
           IN  /\ FifoCounts(b) /\ FifoGhosts(b) /\ DOMAIN b.entries = DOMAIN f.entries \ {k}
               /\ b.s_len + b.m_len = f.s_len + f.m_len - 1
               /\ k \in SmallKeys(f.entries) /\ k = Head(View(f).s)
               /\ View(b).s = Tail(View(f).s) /\ View(b).m = View(f).m /\ View(b).g = Eager!Ghosted(View(f).g, k)
               /\ View(b).freq = Eager!Drop(View(f).freq, k)
<1> DEFINE k == Head(Queues!LiveS(f)).key  c == LeftSmall(f)  b == GoneFromSmall(f)
<1>1. /\ FifoCounts(c) /\ c.ghost = f.ghost /\ DOMAIN c.entries = DOMAIN f.entries \ {k}
      /\ c.s_len + c.m_len = f.s_len + f.m_len - 1
      /\ k \in SmallKeys(f.entries) /\ k = Head(View(f).s)
      /\ View(c).s = Tail(View(f).s) /\ View(c).m = View(f).m /\ View(c).g = View(f).g
      /\ View(c).freq = Eager!Drop(View(f).freq, k)
    BY LeftSmallIs
<1>2. b = Queues!GhostAdd(c, k)
    BY DEF GoneFromSmall
<1> HIDE DEF k, c, b
<1>3. k \in DOMAIN f.entries /\ k \in Objects
    BY <1>1, FifoEntryIs DEF SmallKeys
<1>4. k \notin DOMAIN c.ghost /\ k \notin DOMAIN c.entries /\ FifoGhosts(c) /\ FifoSlotted(c)
    BY <1>1, <1>3 DEF FifoGhosts, FifoCounts
<1>5. FifoSlotted(b) /\ SameCache(b, c) /\ FifoGhosts(b) /\ View(b).g = Eager!Ghosted(View(c).g, k)
    BY <1>2, <1>3, <1>4, GhostAddIs
<1>6. FifoCounts(b)
    BY <1>1, <1>5 DEF FifoCounts, SameCache
<1>7. View(b).s = View(c).s /\ View(b).m = View(c).m /\ View(b).freq = View(c).freq
    BY <1>5 DEF SameCache, View
<1>8. DOMAIN b.entries = DOMAIN c.entries /\ b.s_len + b.m_len = c.s_len + c.m_len
    BY <1>5 DEF SameCache
<1> QED BY <1>1, <1>5, <1>6, <1>7, <1>8 DEF b, k

(* What is left of a live part when a key is forgotten.                    *)
Forgotten(M, L, k) == M = { x \in L : x.key # k }

LEMMA LiveForgot ==
    ASSUME NEW Q, IsList(Q, QueueSlots), NEW L, L \subseteq Range(Q), OneEach(Live(Q, L)), NEW M, NEW k, Forgotten(M, L, k)
    PROVE  M \subseteq Range(Q) /\ KeysOf(Live(Q, M)) = Eager!Without(KeysOf(Live(Q, L)), k)
<1>1. M \subseteq L /\ M \subseteq Range(Q)
    BY DEF Forgotten
<1>2. Part(Live(Q, M), Live(Q, L), QueueSlots)
    BY <1>1, LiveLess
<1>3. Range(Live(Q, M)) = M /\ Range(Live(Q, L)) = L
    <2>1. Range(Live(Q, M)) = Range(Q) \cap M /\ Range(Live(Q, L)) = Range(Q) \cap L
        BY LiveIs
    <2> QED BY <1>1, <2>1
<1> DEFINE q == Live(Q, L)  r == Live(Q, M)
<1>4. OneEach(q) /\ Part(r, q, QueueSlots) /\ Range(r) = { x \in Range(q) : x.key # k }
    BY <1>2, <1>3 DEF Forgotten
<1> HIDE DEF q, r
<1>5. KeysOf(r) = Eager!Without(KeysOf(q), k)
    BY <1>4, KeysWithout
<1> QED BY <1>1, <1>5 DEF q, r

LEMMA GhostForgot ==
    ASSUME NEW f, FifoSlotted(f), NEW k
    PROVE  LET w == Queues!Without(f.ghost, k)
           IN  /\ w \in Tables(Nat) /\ DOMAIN w = DOMAIN f.ghost \ {k} /\ GhostTags(w) \subseteq Range(f.ghost_q)
               /\ KeysOf(Live(f.ghost_q, GhostTags(w))) = Eager!Without(KeysOf(Queues!LiveG(f)), k)
               /\ Cardinality(DOMAIN w) <= Cardinality(DOMAIN f.ghost)
<1> DEFINE w == Queues!Without(f.ghost, k)  L == GhostTags(f.ghost)  Q == f.ghost_q
<1>1. f.ghost \in Tables(Nat) /\ IsList(Q, QueueSlots) /\ L \subseteq Range(Q) /\ Queues!LiveG(f) = Live(Q, L)
    BY SlottedParts
<1>2. OneEach(Live(Q, L))
    BY <1>1, LiveKeys
<1>3. w \in Tables(Nat) /\ DOMAIN w = DOMAIN f.ghost \ {k} /\ \A x \in DOMAIN f.ghost \ {k} : w[x] = f.ghost[x]
    BY <1>1, TableLess
<1> HIDE DEF w
<1>4. Forgotten(GhostTags(w), L, k)
    <2>1. \A y, n : Tag(y, n).key = y
        BY TagIs
    <2>2. GhostTags(w) = { Tag(y, f.ghost[y]) : y \in DOMAIN f.ghost \ {k} }
        BY <1>3 DEF GhostTags
    <2>3. { x \in { Tag(y, f.ghost[y]) : y \in DOMAIN f.ghost } : x.key # k }
             = { Tag(y, f.ghost[y]) : y \in DOMAIN f.ghost \ {k} }
        BY <2>1
    <2> QED BY <2>2, <2>3 DEF GhostTags, Forgotten
<1> HIDE DEF L, Q
<1>5. GhostTags(w) \subseteq Range(Q) /\ KeysOf(Live(Q, GhostTags(w))) = Eager!Without(KeysOf(Live(Q, L)), k)
    BY <1>1, <1>2, <1>4, LiveForgot
<1>6. Cardinality(DOMAIN w) <= Cardinality(DOMAIN f.ghost)
    <2>1. IsFiniteSet(DOMAIN f.ghost)
        BY LiveCounts
    <2> QED BY <1>3, <2>1, FS_Subset
<1> QED BY <1>1, <1>3, <1>5, <1>6 DEF w, Q

LEMMA CountedMore ==
    ASSUME NEW e, NEW d, NEW k, NEW v, DOMAIN d = DOMAIN e \cup {k}, d[k] = v, \A x \in DOMAIN e \ {k} : d[x] = e[x]
    PROVE  Counted(d) = Eager!Set(Counted(e), k, v.freq)
BY DEF Counted, Eager!Set

PlacedInMain(d, e, k, v) ==
    /\ SmallKeys(d) = SmallKeys(e) \ {k} /\ MainKeys(d) = MainKeys(e) \cup {k}
    /\ EntryTags(d, SmallKeys(d)) = EntryTags(e, SmallKeys(e) \ {k})
    /\ EntryTags(d, MainKeys(d)) = EntryTags(e, MainKeys(e) \ {k}) \cup {Tag(k, v.seq)}
PlacedInSmall(d, e, k, v) ==
    /\ SmallKeys(d) = SmallKeys(e) \cup {k} /\ MainKeys(d) = MainKeys(e) \ {k}
    /\ EntryTags(d, SmallKeys(d)) = EntryTags(e, SmallKeys(e) \ {k}) \cup {Tag(k, v.seq)}
    /\ EntryTags(d, MainKeys(d)) = EntryTags(e, MainKeys(e) \ {k})

LEMMA PlacedEither ==
    ASSUME NEW e, e \in Tables(FifoEntries), NEW d, NEW k, NEW v, Placed(d, e, k, v)
    PROVE  (v.in_m => PlacedInMain(d, e, k, v)) /\ (~v.in_m => PlacedInSmall(d, e, k, v))
<1>1. ASSUME v.in_m PROVE PlacedInMain(d, e, k, v)
    <2>1. SmallKeys(d) = SmallKeys(e) \ {k} /\ MainKeys(d) = (MainKeys(e) \ {k}) \cup {k}
        BY <1>1 DEF Placed, SmallKeys, MainKeys
    <2>2. \A x \in SmallKeys(e) \ {k} : d[x].seq = e[x].seq
        BY DEF Placed, SmallKeys
    <2>3. \A x \in MainKeys(e) \ {k} : d[x].seq = e[x].seq
        BY DEF Placed, MainKeys
    <2>4. EntryTags(d, SmallKeys(e) \ {k}) = EntryTags(e, SmallKeys(e) \ {k})
        BY <2>2 DEF EntryTags
    <2>5. EntryTags(d, (MainKeys(e) \ {k}) \cup {k}) = EntryTags(e, MainKeys(e) \ {k}) \cup {Tag(k, v.seq)}
        BY <2>3 DEF EntryTags, Placed
    <2> QED BY <2>1, <2>4, <2>5 DEF PlacedInMain
<1>2. ASSUME ~v.in_m PROVE PlacedInSmall(d, e, k, v)
    BY <1>2, PlacedSmall DEF PlacedInSmall
<1> QED BY <1>1, <1>2

(* insert, of a key that is not held, when there is room.                  *)
EnteredMain(f, k, n) ==
    [f EXCEPT !.ghost = Queues!Without(@, k), !.entries = Queues!With(@, k, [freq |-> 0, in_m |-> TRUE, seq |-> n]),
              !.m = Append(@, Queues!Slot(k, n)), !.m_len = @ + 1]
EnteredSmall(f, k, n) ==
    [f EXCEPT !.ghost = Queues!Without(@, k), !.entries = Queues!With(@, k, [freq |-> 0, in_m |-> FALSE, seq |-> n]),
              !.s = Append(@, Queues!Slot(k, n)), !.s_len = @ + 1]

(* insert of a key the ghosts remember: to the main queue.                 *)
LEMMA EnteredMainIs ==
    ASSUME NEW f, FifoCounts(f), FifoGhosts(f), NEW k \in Objects, k \notin DOMAIN f.entries
    PROVE  LET b == EnteredMain(f, k, Queues!BumpSeq(f, k))
           IN  /\ FifoCounts(b) /\ FifoGhosts(b) /\ b.s_len + b.m_len = f.s_len + f.m_len + 1
               /\ View(b).s = View(f).s /\ View(b).m = Append(View(f).m, k) /\ View(b).g = Eager!Without(View(f).g, k)
               /\ View(b).freq = Eager!Set(View(f).freq, k, 0)
<1> DEFINE e == f.entries  w == Queues!Without(f.ghost, k)
           n == Queues!BumpSeq(f, k)  x == Tag(k, n)
           v == [freq |-> 0, in_m |-> TRUE, seq |-> n]  d == Queues!With(e, k, v)
           M == Append(f.m, x)  b == EnteredMain(f, k, n)
           ls == Queues!LiveS(f)  lm == Queues!LiveM(f)
<1>1. /\ FifoSlotted(f) /\ f \in FifoStates /\ e \in Tables(FifoEntries)
      /\ IsList(f.s, QueueSlots) /\ IsList(f.m, QueueSlots) /\ IsList(f.ghost_q, QueueSlots)
      /\ SmallTags(f) \subseteq Range(f.s) /\ MainTags(f) \subseteq Range(f.m)
    BY DEF FifoCounts, FifoSlotted, FifoStates, SmallTags, MainTags
<1>2. ls = Live(f.s, SmallTags(f)) /\ lm = Live(f.m, MainTags(f)) /\ OneEach(lm)
    BY <1>1, LiveNames, LiveKeys
<1>3. n \in Nat /\ x \in QueueSlots /\ x \notin Range(f.m)
    <2>1. f.s \in Seq(QueueSlots) /\ f.m \in Seq(QueueSlots) /\ f.ghost_q \in Seq(QueueSlots)
        BY <1>1 DEF FifoStates
    <2> QED BY <2>1, EpochIs
<1>4. b = [f EXCEPT !.ghost = w, !.entries = d, !.m = M, !.m_len = f.m_len + 1]
    BY <1>1, TagIs DEF EnteredMain, FifoStates
<1> HIDE DEF n, x, ls, lm, b
<1>5. /\ w \in Tables(Nat) /\ DOMAIN w = DOMAIN f.ghost \ {k} /\ GhostTags(w) \subseteq Range(f.ghost_q)
      /\ KeysOf(Live(f.ghost_q, GhostTags(w))) = Eager!Without(KeysOf(Queues!LiveG(f)), k)
      /\ Cardinality(DOMAIN w) <= Cardinality(DOMAIN f.ghost)
    BY <1>1, GhostForgot
<1>6. v \in FifoEntries /\ v.in_m /\ v.freq = 0 /\ v.seq = n
    BY <1>3 DEF FifoEntries
<1> HIDE DEF w, v
<1>7. PutIn(d, e, k, v, FifoEntries)
    <2> HIDE DEF e
    <2> QED BY <1>1, <1>6, PutIs
<1> HIDE DEF d
<1>8. Placed(d, e, k, v)
    BY <1>7 DEF Placed, PutIn
<1>9. /\ SmallKeys(d) = SmallKeys(e) /\ MainKeys(d) = MainKeys(e) \cup {k} /\ k \notin MainKeys(e)
      /\ EntryTags(d, SmallKeys(d)) = SmallTags(f)
      /\ EntryTags(d, MainKeys(d)) = MainTags(f) \cup {x}
    <2>1. /\ SmallKeys(d) = SmallKeys(e) \ {k} /\ MainKeys(d) = MainKeys(e) \cup {k}
          /\ EntryTags(d, SmallKeys(d)) = EntryTags(e, SmallKeys(e) \ {k})
          /\ EntryTags(d, MainKeys(d)) = EntryTags(e, MainKeys(e) \ {k}) \cup {Tag(k, v.seq)}
        <3>1. e \in Tables(FifoEntries) /\ v.in_m /\ Placed(d, e, k, v)
            BY <1>1, <1>6, <1>8
        <3> HIDE DEF e
        <3>2. PlacedInMain(d, e, k, v)
            BY <3>1, PlacedEither
        <3> QED BY <3>2 DEF PlacedInMain
    <2>2. SmallKeys(e) \ {k} = SmallKeys(e) /\ MainKeys(e) \ {k} = MainKeys(e) /\ k \notin MainKeys(e)
        BY DEF SmallKeys, MainKeys
    <2> QED BY <1>6, <2>1, <2>2 DEF SmallTags, MainTags, x
<1>10. IsList(M, QueueSlots) /\ MainTags(f) \cup {x} \subseteq Range(M) /\ Live(M, MainTags(f) \cup {x}) = Append(lm, x)
    <2>1. Pushable(f.m, MainTags(f), x)
        BY <1>1, <1>3 DEF Pushable
    <2>2. SlotPushed(M, f.m, MainTags(f), x)
        BY <2>1, SlotPushedIs
    <2> QED BY <1>2, <2>2 DEF SlotPushed
<1> HIDE DEF M
<1>11. /\ b \in FifoStates /\ b.entries = d /\ b.s = f.s /\ b.m = M /\ b.ghost = w /\ b.ghost_q = f.ghost_q
       /\ b.s_len = f.s_len /\ b.m_len = f.m_len + 1
    <2>1. M \in Seq(QueueSlots) /\ f.m_len \in Int /\ d \in Tables(FifoEntries)
        BY <1>1, <1>7, <1>10 DEF IsList, FifoStates, PutIn
    <2>2. f.m_len + 1 \in Int
        BY <2>1
    <2> QED BY <1>1, <1>4, <1>5, <2>1, <2>2 DEF FifoStates
<1>12. SmallTags(b) = SmallTags(f) /\ MainTags(b) = MainTags(f) \cup {x}
    BY <1>9, <1>11 DEF SmallTags, MainTags
<1>13. FifoSlotted(b)
    BY <1>1, <1>5, <1>10, <1>11, <1>12 DEF FifoSlotted, SmallTags, MainTags
<1>14. Queues!LiveS(b) = ls /\ Queues!LiveM(b) = Append(lm, x) /\ Queues!LiveG(b) = Live(f.ghost_q, GhostTags(w))
    BY <1>2, <1>10, <1>11, <1>12, <1>13, LiveNames
<1>15. KeysOf(Append(lm, x)) = Append(KeysOf(lm), k)
    <2>1. lm \in Seq(QueueSlots) /\ x.key = k
        BY <1>2, TagIs DEF OneEach, IsList, x
    <2> QED BY <1>3, <2>1, KeysPushed
<1>16. /\ b.s_len = Cardinality(SmallKeys(d)) /\ b.m_len = Cardinality(MainKeys(d))
       /\ b.s_len + b.m_len = f.s_len + f.m_len + 1
    <2>1. /\ IsFiniteSet(MainKeys(e)) /\ Cardinality(SmallKeys(e)) \in Nat /\ Cardinality(MainKeys(e)) \in Nat
        BY <1>1, LiveCounts
    <2>2. f.s_len = Cardinality(SmallKeys(e)) /\ f.m_len = Cardinality(MainKeys(e))
        BY DEF FifoCounts
    <2>3. Cardinality(MainKeys(d)) = Cardinality(MainKeys(e)) + 1
        BY <1>9, <2>1, FS_AddElement
    <2> QED BY <1>9, <1>11, <2>1, <2>2, <2>3
<1>17. FifoCounts(b)
    <2>1. 0 \in 0 .. FREQ_MAX
        BY ReplayAssumption
    <2>2. \A y \in DOMAIN d : d[y].freq \in 0 .. FREQ_MAX
        BY <1>6, <1>8, <2>1 DEF FifoCounts, Placed
    <2> QED BY <1>11, <1>13, <1>16, <2>2 DEF FifoCounts
<1>18. FifoGhosts(b)
    <2>1. DOMAIN b.ghost \cap DOMAIN b.entries = {}
        BY <1>5, <1>8, <1>11 DEF FifoGhosts, Placed
    <2>2. Cardinality(DOMAIN f.ghost) \in Nat /\ Cardinality(DOMAIN b.ghost) \in Nat
        BY <1>1, <1>13, LiveCounts
    <2>3. FifoCapacity \in Nat
        BY ReplayAssumption DEF FifoCapacity, Policies
    <2> QED BY <1>5, <1>11, <2>1, <2>2, <2>3 DEF FifoGhosts
<1>19. Counted(d) = Eager!Set(Counted(e), k, 0)
    <2>1. DOMAIN d = DOMAIN e \cup {k} /\ d[k] = v /\ \A y \in DOMAIN e \ {k} : d[y] = e[y]
        BY <1>8 DEF Placed
    <2> HIDE DEF e
    <2>2. Counted(d) = Eager!Set(Counted(e), k, v.freq)
        BY <2>1, CountedMore
    <2> QED BY <1>6, <2>2
<1>20. /\ View(b).s = View(f).s /\ View(b).m = Append(View(f).m, k) /\ View(b).g = Eager!Without(View(f).g, k)
       /\ View(b).freq = Eager!Set(View(f).freq, k, 0)
    <2>1. View(f).s = KeysOf(ls) /\ View(f).m = KeysOf(lm) /\ View(f).g = KeysOf(Queues!LiveG(f)) /\ View(f).freq = Counted(e)
        BY DEF View, ls, lm
    <2>2. /\ View(b).s = KeysOf(Queues!LiveS(b)) /\ View(b).m = KeysOf(Queues!LiveM(b))
          /\ View(b).g = KeysOf(Queues!LiveG(b)) /\ View(b).freq = Counted(d)
        BY <1>11 DEF View
    <2> QED BY <1>5, <1>14, <1>15, <1>19, <2>1, <2>2
<1> QED BY <1>16, <1>17, <1>18, <1>20 DEF b, n
(* insert of a key nobody remembers: to the small queue.                   *)
LEMMA EnteredSmallIs ==
    ASSUME NEW f, FifoCounts(f), FifoGhosts(f), NEW k \in Objects, k \notin DOMAIN f.entries
    PROVE  LET b == EnteredSmall(f, k, Queues!BumpSeq(f, k))
           IN  /\ FifoCounts(b) /\ FifoGhosts(b) /\ b.s_len + b.m_len = f.s_len + f.m_len + 1
               /\ View(b).s = Append(View(f).s, k) /\ View(b).m = View(f).m /\ View(b).g = Eager!Without(View(f).g, k)
               /\ View(b).freq = Eager!Set(View(f).freq, k, 0)
<1> DEFINE e == f.entries  w == Queues!Without(f.ghost, k)
           n == Queues!BumpSeq(f, k)  x == Tag(k, n)
           v == [freq |-> 0, in_m |-> FALSE, seq |-> n]  d == Queues!With(e, k, v)
           S == Append(f.s, x)  b == EnteredSmall(f, k, n)
           ls == Queues!LiveS(f)  lm == Queues!LiveM(f)
<1>1. /\ FifoSlotted(f) /\ f \in FifoStates /\ e \in Tables(FifoEntries)
      /\ IsList(f.s, QueueSlots) /\ IsList(f.m, QueueSlots) /\ IsList(f.ghost_q, QueueSlots)
      /\ SmallTags(f) \subseteq Range(f.s) /\ MainTags(f) \subseteq Range(f.m)
    BY DEF FifoCounts, FifoSlotted, FifoStates, SmallTags, MainTags
<1>2. ls = Live(f.s, SmallTags(f)) /\ lm = Live(f.m, MainTags(f)) /\ OneEach(ls)
    BY <1>1, LiveNames, LiveKeys
<1>3. n \in Nat /\ x \in QueueSlots /\ x \notin Range(f.s)
    <2>1. f.s \in Seq(QueueSlots) /\ f.m \in Seq(QueueSlots) /\ f.ghost_q \in Seq(QueueSlots)
        BY <1>1 DEF FifoStates
    <2> QED BY <2>1, EpochIs
<1>4. b = [f EXCEPT !.ghost = w, !.entries = d, !.s = S, !.s_len = f.s_len + 1]
    BY <1>1, TagIs DEF EnteredSmall, FifoStates
<1> HIDE DEF n, x, ls, lm, b
<1>5. /\ w \in Tables(Nat) /\ DOMAIN w = DOMAIN f.ghost \ {k} /\ GhostTags(w) \subseteq Range(f.ghost_q)
      /\ KeysOf(Live(f.ghost_q, GhostTags(w))) = Eager!Without(KeysOf(Queues!LiveG(f)), k)
      /\ Cardinality(DOMAIN w) <= Cardinality(DOMAIN f.ghost)
    BY <1>1, GhostForgot
<1>6. v \in FifoEntries /\ ~v.in_m /\ v.freq = 0 /\ v.seq = n
    BY <1>3 DEF FifoEntries
<1> HIDE DEF w, v
<1>7. PutIn(d, e, k, v, FifoEntries)
    <2> HIDE DEF e
    <2> QED BY <1>1, <1>6, PutIs
<1> HIDE DEF d
<1>8. Placed(d, e, k, v)
    BY <1>7 DEF Placed, PutIn
<1>9. /\ MainKeys(d) = MainKeys(e) /\ SmallKeys(d) = SmallKeys(e) \cup {k} /\ k \notin SmallKeys(e)
      /\ EntryTags(d, MainKeys(d)) = MainTags(f)
      /\ EntryTags(d, SmallKeys(d)) = SmallTags(f) \cup {x}
    <2>1. /\ SmallKeys(d) = SmallKeys(e) \cup {k} /\ MainKeys(d) = MainKeys(e) \ {k}
          /\ EntryTags(d, SmallKeys(d)) = EntryTags(e, SmallKeys(e) \ {k}) \cup {Tag(k, v.seq)}
          /\ EntryTags(d, MainKeys(d)) = EntryTags(e, MainKeys(e) \ {k})
        <3>1. e \in Tables(FifoEntries) /\ ~v.in_m /\ Placed(d, e, k, v)
            BY <1>1, <1>6, <1>8
        <3> HIDE DEF e
        <3>2. PlacedInSmall(d, e, k, v)
            BY <3>1, PlacedEither
        <3> QED BY <3>2 DEF PlacedInSmall
    <2>2. SmallKeys(e) \ {k} = SmallKeys(e) /\ MainKeys(e) \ {k} = MainKeys(e) /\ k \notin SmallKeys(e)
        BY DEF SmallKeys, MainKeys
    <2> QED BY <1>6, <2>1, <2>2 DEF SmallTags, MainTags, x
<1>10. IsList(S, QueueSlots) /\ SmallTags(f) \cup {x} \subseteq Range(S) /\ Live(S, SmallTags(f) \cup {x}) = Append(ls, x)
    <2>1. Pushable(f.s, SmallTags(f), x)
        BY <1>1, <1>3 DEF Pushable
    <2>2. SlotPushed(S, f.s, SmallTags(f), x)
        BY <2>1, SlotPushedIs
    <2> QED BY <1>2, <2>2 DEF SlotPushed
<1> HIDE DEF S
<1>11. /\ b \in FifoStates /\ b.entries = d /\ b.s = S /\ b.m = f.m /\ b.ghost = w /\ b.ghost_q = f.ghost_q
       /\ b.s_len = f.s_len + 1 /\ b.m_len = f.m_len
    <2>1. S \in Seq(QueueSlots) /\ f.s_len \in Int /\ d \in Tables(FifoEntries)
        BY <1>1, <1>7, <1>10 DEF IsList, FifoStates, PutIn
    <2>2. f.s_len + 1 \in Int
        BY <2>1
    <2> QED BY <1>1, <1>4, <1>5, <2>1, <2>2 DEF FifoStates
<1>12. SmallTags(b) = SmallTags(f) \cup {x} /\ MainTags(b) = MainTags(f)
    BY <1>9, <1>11 DEF SmallTags, MainTags
<1>13. FifoSlotted(b)
    BY <1>1, <1>5, <1>10, <1>11, <1>12 DEF FifoSlotted, SmallTags, MainTags
<1>14. Queues!LiveS(b) = Append(ls, x) /\ Queues!LiveM(b) = lm /\ Queues!LiveG(b) = Live(f.ghost_q, GhostTags(w))
    BY <1>2, <1>10, <1>11, <1>12, <1>13, LiveNames
<1>15. KeysOf(Append(ls, x)) = Append(KeysOf(ls), k)
    <2>1. ls \in Seq(QueueSlots) /\ x.key = k
        BY <1>2, TagIs DEF OneEach, IsList, x
    <2> QED BY <1>3, <2>1, KeysPushed
<1>16. /\ b.s_len = Cardinality(SmallKeys(d)) /\ b.m_len = Cardinality(MainKeys(d))
       /\ b.s_len + b.m_len = f.s_len + f.m_len + 1
    <2>1. /\ IsFiniteSet(SmallKeys(e)) /\ Cardinality(SmallKeys(e)) \in Nat /\ Cardinality(MainKeys(e)) \in Nat
        BY <1>1, LiveCounts
    <2>2. f.s_len = Cardinality(SmallKeys(e)) /\ f.m_len = Cardinality(MainKeys(e))
        BY DEF FifoCounts
    <2>3. Cardinality(SmallKeys(d)) = Cardinality(SmallKeys(e)) + 1
        BY <1>9, <2>1, FS_AddElement
    <2> QED BY <1>9, <1>11, <2>1, <2>2, <2>3
<1>17. FifoCounts(b)
    <2>1. 0 \in 0 .. FREQ_MAX
        BY ReplayAssumption
    <2>2. \A y \in DOMAIN d : d[y].freq \in 0 .. FREQ_MAX
        BY <1>6, <1>8, <2>1 DEF FifoCounts, Placed
    <2> QED BY <1>11, <1>13, <1>16, <2>2 DEF FifoCounts
<1>18. FifoGhosts(b)
    <2>1. DOMAIN b.ghost \cap DOMAIN b.entries = {}
        BY <1>5, <1>8, <1>11 DEF FifoGhosts, Placed
    <2>2. Cardinality(DOMAIN f.ghost) \in Nat /\ Cardinality(DOMAIN b.ghost) \in Nat
        BY <1>1, <1>13, LiveCounts
    <2>3. FifoCapacity \in Nat
        BY ReplayAssumption DEF FifoCapacity, Policies
    <2> QED BY <1>5, <1>11, <2>1, <2>2, <2>3 DEF FifoGhosts
<1>19. Counted(d) = Eager!Set(Counted(e), k, 0)
    <2>1. DOMAIN d = DOMAIN e \cup {k} /\ d[k] = v /\ \A y \in DOMAIN e \ {k} : d[y] = e[y]
        BY <1>8 DEF Placed
    <2> HIDE DEF e
    <2>2. Counted(d) = Eager!Set(Counted(e), k, v.freq)
        BY <2>1, CountedMore
    <2> QED BY <1>6, <2>2
<1>20. /\ View(b).s = Append(View(f).s, k) /\ View(b).m = View(f).m /\ View(b).g = Eager!Without(View(f).g, k)
       /\ View(b).freq = Eager!Set(View(f).freq, k, 0)
    <2>1. View(f).s = KeysOf(ls) /\ View(f).m = KeysOf(lm) /\ View(f).g = KeysOf(Queues!LiveG(f)) /\ View(f).freq = Counted(e)
        BY DEF View, ls, lm
    <2>2. /\ View(b).s = KeysOf(Queues!LiveS(b)) /\ View(b).m = KeysOf(Queues!LiveM(b))
          /\ View(b).g = KeysOf(Queues!LiveG(b)) /\ View(b).freq = Counted(d)
        BY <1>11 DEF View
    <2> QED BY <1>5, <1>14, <1>15, <1>19, <2>1, <2>2
<1> QED BY <1>16, <1>17, <1>18, <1>20 DEF b, n

LEMMA LeastOf ==
    ASSUME NEW x \in Nat, NEW y \in Nat
    PROVE  Queues!Min({x, y}) = IF x < y THEN x ELSE y
<1> DEFINE S == {x, y}
<1>1. S # {} /\ S \in SUBSET Nat
    OBVIOUS
<1>2. x \in S /\ y \in S /\ \A z \in S : z = x \/ z = y
    OBVIOUS
<1> HIDE DEF S
<1>3. Min(S) \in S /\ \A z \in S : Min(S) <= z
    BY <1>1, MinIs
<1>4. Min(S) <= x /\ Min(S) <= y /\ (Min(S) = x \/ Min(S) = y)
    BY <1>2, <1>3
<1>5. Min(S) = IF x < y THEN x ELSE y
    BY <1>4
<1> QED BY <1>5, QueueNames DEF S

(* get, of a key that is held: a counted hit more.                         *)
FifoCounted(f, k) == [f EXCEPT !.entries[k].freq = Queues!Min({@ + 1, FREQ_MAX})]

LEMMA FifoCountedIs ==
    ASSUME NEW f, FifoInv(f), NEW k \in DOMAIN f.entries
    PROVE  LET b == FifoCounted(f, k)
           IN  /\ FifoInv(b)
               /\ View(b) = [View(f) EXCEPT !.freq[k] = IF @ < FREQ_MAX THEN @ + 1 ELSE @]
<1> DEFINE e == f.entries  c == IF e[k].freq < FREQ_MAX THEN e[k].freq + 1 ELSE e[k].freq
           v == [e[k] EXCEPT !.freq = c]  d == [e EXCEPT ![k] = v]  b == FifoCounted(f, k)
<1>1. /\ FifoCounts(f) /\ FifoSlotted(f) /\ f \in FifoStates /\ e \in Tables(FifoEntries)
    BY DEF FifoInv, FifoCounts, FifoSlotted, FifoStates
<1>2. /\ k \in DOMAIN e /\ k \in Objects /\ e[k] \in FifoEntries /\ e[k].freq \in 0 .. FREQ_MAX
      /\ e[k].in_m \in BOOLEAN /\ FREQ_MAX \in Nat
    BY <1>1, FifoEntryIs
<1>3. Queues!Min({e[k].freq + 1, FREQ_MAX}) = c /\ c \in 0 .. FREQ_MAX /\ c \in Nat
    <2> DEFINE x == e[k].freq + 1
    <2>1. x \in Nat /\ FREQ_MAX \in Nat
        BY <1>2
    <2> HIDE DEF x
    <2>2. Queues!Min({x, FREQ_MAX}) = IF x < FREQ_MAX THEN x ELSE FREQ_MAX
        BY <2>1, LeastOf
    <2>3. c \in 0 .. FREQ_MAX /\ c = IF x < FREQ_MAX THEN x ELSE FREQ_MAX
        BY <1>2 DEF x
    <2> QED BY <2>2, <2>3 DEF x
<1>4. b = [f EXCEPT !.entries = d]
    BY <1>1, <1>3 DEF FifoCounted, FifoStates
<1> HIDE DEF c, b
<1>5. v \in FifoEntries /\ v.in_m = e[k].in_m /\ v.freq = c /\ v.seq = e[k].seq
    BY <1>2, <1>3 DEF FifoEntries
<1> HIDE DEF v
<1>6. d \in Tables(FifoEntries) /\ DOMAIN d = DOMAIN e /\ d[k] = v /\ \A y \in DOMAIN e \ {k} : d[y] = e[y]
    BY <1>1, <1>2, <1>5, TableSet
<1> HIDE DEF d
<1>7. b \in FifoStates /\ b = [f EXCEPT !.entries = d] /\ b.entries = d
    BY <1>1, <1>4, <1>6 DEF FifoStates
<1>8. /\ b.s = f.s /\ b.m = f.m /\ b.ghost = f.ghost /\ b.ghost_q = f.ghost_q
      /\ b.s_len = f.s_len /\ b.m_len = f.m_len
    BY <1>1, <1>4 DEF FifoStates
<1>9. \A y \in DOMAIN e : d[y].in_m = e[y].in_m /\ d[y].seq = e[y].seq
    BY <1>5, <1>6
<1>10. SmallKeys(d) = SmallKeys(e) /\ MainKeys(d) = MainKeys(e)
    BY <1>6, <1>9 DEF SmallKeys, MainKeys
<1>11. SmallTags(b) = SmallTags(f) /\ MainTags(b) = MainTags(f)
    <2>1. \A y \in SmallKeys(e) : d[y].seq = e[y].seq
        BY <1>9 DEF SmallKeys
    <2>2. \A y \in MainKeys(e) : d[y].seq = e[y].seq
        BY <1>9 DEF MainKeys
    <2>3. EntryTags(d, SmallKeys(e)) = EntryTags(e, SmallKeys(e))
        BY <2>1 DEF EntryTags
    <2>4. EntryTags(d, MainKeys(e)) = EntryTags(e, MainKeys(e))
        BY <2>2 DEF EntryTags
    <2> QED BY <1>7, <1>10, <2>3, <2>4 DEF SmallTags, MainTags
<1>12. FifoSlotted(b)
    BY <1>1, <1>7, <1>8, <1>11 DEF FifoSlotted, SmallTags, MainTags
<1>13. Queues!LiveS(b) = Queues!LiveS(f) /\ Queues!LiveM(b) = Queues!LiveM(f) /\ Queues!LiveG(b) = Queues!LiveG(f)
    BY <1>1, <1>8, <1>11, <1>12, LiveNames
<1>14. \A y \in DOMAIN d : d[y].freq \in 0 .. FREQ_MAX
    BY <1>1, <1>3, <1>5, <1>6 DEF FifoCounts
<1>15. FifoCounts(b)
    BY <1>1, <1>7, <1>8, <1>10, <1>12, <1>14 DEF FifoCounts
<1>16. FifoInv(b)
    BY <1>6, <1>7, <1>8, <1>15 DEF FifoInv, FifoGhosts
<1>17. Counted(d) = [Counted(e) EXCEPT ![k] = c]
    BY <1>2, <1>5, <1>6 DEF Counted
<1>18. Counted(e)[k] = e[k].freq
    BY <1>2 DEF Counted
<1>19. View(b) = [View(f) EXCEPT !.freq[k] = IF @ < FREQ_MAX THEN @ + 1 ELSE @]
    <2>1. View(b) = [s |-> View(f).s, m |-> View(f).m, g |-> View(f).g, freq |-> Counted(d)]
        BY <1>7, <1>13 DEF View
    <2>2. View(f).freq = Counted(e)
        BY DEF View
    <2>3. Counted(d) = [View(f).freq EXCEPT ![k] = IF @ < FREQ_MAX THEN @ + 1 ELSE @]
        BY <1>17, <1>18, <2>2 DEF c
    <2>4. DOMAIN View(f) = {"s", "m", "g", "freq"}
        BY DEF View
    <2>5. View(f) = [s |-> View(f).s, m |-> View(f).m, g |-> View(f).g, freq |-> View(f).freq]
        BY DEF View
    <2> DEFINE t == View(f)
    <2> HIDE DEF t
    <2>6. [t EXCEPT !.freq[k] = IF @ < FREQ_MAX THEN @ + 1 ELSE @]
            = [t EXCEPT !.freq = [t.freq EXCEPT ![k] = IF @ < FREQ_MAX THEN @ + 1 ELSE @]]
        OBVIOUS
    <2>7. t = [s |-> t.s, m |-> t.m, g |-> t.g, freq |-> t.freq]
        BY <2>5 DEF t
    <2>8. [t EXCEPT !.freq = Counted(d)] = [s |-> t.s, m |-> t.m, g |-> t.g, freq |-> Counted(d)]
        BY <2>7
    <2> QED BY <2>1, <2>3, <2>6, <2>8 DEF t
<1> QED BY <1>16, <1>19 DEF b

(* invalidate, before the queues are compacted.                            *)
Forgot(f, k) ==
    LET gone == IF k \notin DOMAIN f.entries THEN f
                ELSE IF f.entries[k].in_m THEN [f EXCEPT !.m_len = @ - 1] ELSE [f EXCEPT !.s_len = @ - 1]
    IN  [gone EXCEPT !.entries = Queues!Without(@, k), !.ghost = Queues!Without(@, k)]

LEMMA TagsForgotten ==
    ASSUME NEW e, NEW K, NEW k
    PROVE  Forgotten(EntryTags(e, K \ {k}), EntryTags(e, K), k)
BY TagIs DEF EntryTags, Forgotten

LEMMA OneLess ==
    ASSUME NEW S, IsFiniteSet(S), NEW x
    PROVE  Cardinality(S \ {x}) = IF x \in S THEN Cardinality(S) - 1 ELSE Cardinality(S)
<1>1. CASE x \in S
    BY <1>1, FS_RemoveElement
<1>2. CASE x \notin S
    <2>1. S \ {x} = S
        BY <1>2
    <2> QED BY <1>2, <2>1
<1> QED BY <1>1, <1>2

(* The written key leaves every view, its slots stay behind as stale.      *)
LEMMA ForgotIs ==
    ASSUME NEW f, FifoInv(f), NEW k \in Objects
    PROVE  LET b == Forgot(f, k)
           IN  /\ FifoInv(b)
               /\ View(b).s = Eager!Without(View(f).s, k) /\ View(b).m = Eager!Without(View(f).m, k)
               /\ View(b).g = Eager!Without(View(f).g, k) /\ View(b).freq = Eager!Drop(View(f).freq, k)
<1> DEFINE e == f.entries  d == Queues!Without(e, k)  w == Queues!Without(f.ghost, k)
           x == IF k \in SmallKeys(e) THEN f.s_len - 1 ELSE f.s_len
           y == IF k \in MainKeys(e) THEN f.m_len - 1 ELSE f.m_len
           b == Forgot(f, k)
<1>1. /\ FifoCounts(f) /\ FifoGhosts(f) /\ FifoSlotted(f) /\ f \in FifoStates /\ e \in Tables(FifoEntries)
      /\ f.s_len \in Int /\ f.m_len \in Int
    BY DEF FifoInv, FifoCounts, FifoSlotted, FifoStates
<1>2. /\ IsList(f.s, QueueSlots) /\ IsList(f.m, QueueSlots) /\ IsList(f.ghost_q, QueueSlots)
      /\ SmallTags(f) \subseteq Range(f.s) /\ MainTags(f) \subseteq Range(f.m)
      /\ Queues!LiveS(f) = Live(f.s, SmallTags(f)) /\ Queues!LiveM(f) = Live(f.m, MainTags(f))
    BY <1>1, SlottedParts
<1>3. OneEach(Live(f.s, SmallTags(f))) /\ OneEach(Live(f.m, MainTags(f)))
    BY <1>1, <1>2, LiveKeys
<1>4. /\ d \in Tables(FifoEntries) /\ DOMAIN d = DOMAIN e \ {k} /\ \A z \in DOMAIN e \ {k} : d[z] = e[z]
      /\ SmallKeys(d) = SmallKeys(e) \ {k} /\ MainKeys(d) = MainKeys(e) \ {k}
      /\ EntryTags(d, SmallKeys(d)) = EntryTags(e, SmallKeys(e) \ {k})
      /\ EntryTags(d, MainKeys(d)) = EntryTags(e, MainKeys(e) \ {k})
    <2>1. e \in Tables(FifoEntries)
        BY <1>1
    <2> HIDE DEF e
    <2> QED BY <2>1, EntryGone
<1>5. /\ w \in Tables(Nat) /\ DOMAIN w = DOMAIN f.ghost \ {k} /\ GhostTags(w) \subseteq Range(f.ghost_q)
      /\ KeysOf(Live(f.ghost_q, GhostTags(w))) = Eager!Without(KeysOf(Queues!LiveG(f)), k)
      /\ Cardinality(DOMAIN w) <= Cardinality(DOMAIN f.ghost)
    BY <1>1, GhostForgot
<1>6. b = [f EXCEPT !.s_len = x, !.m_len = y, !.entries = d, !.ghost = w]
    <2>1. CASE k \notin DOMAIN e
        <3>1. k \notin SmallKeys(e) /\ k \notin MainKeys(e)
            BY <2>1 DEF SmallKeys, MainKeys
        <3> QED BY <1>1, <2>1, <3>1 DEF Forgot, FifoStates
    <2>2. CASE k \in DOMAIN e /\ e[k].in_m
        <3>1. k \notin SmallKeys(e) /\ k \in MainKeys(e)
            BY <2>2 DEF SmallKeys, MainKeys
        <3> QED BY <1>1, <2>2, <3>1 DEF Forgot, FifoStates
    <2>3. CASE k \in DOMAIN e /\ ~e[k].in_m
        <3>1. k \in SmallKeys(e) /\ k \notin MainKeys(e)
            BY <2>3 DEF SmallKeys, MainKeys
        <3> QED BY <1>1, <2>3, <3>1 DEF Forgot, FifoStates
    <2> QED BY <2>1, <2>2, <2>3
<1>7. x \in Int /\ y \in Int
    BY <1>1
<1> HIDE DEF w, d, b, x, y
<1>8. /\ b \in FifoStates /\ b.entries = d /\ b.s = f.s /\ b.m = f.m /\ b.ghost = w /\ b.ghost_q = f.ghost_q
      /\ b.s_len = x /\ b.m_len = y
    BY <1>1, <1>4, <1>5, <1>6, <1>7 DEF FifoStates
<1>9. Forgotten(SmallTags(b), SmallTags(f), k) /\ Forgotten(MainTags(b), MainTags(f), k)
    BY <1>4, <1>8, TagsForgotten DEF SmallTags, MainTags
<1>10. /\ SmallTags(b) \subseteq Range(f.s) /\ KeysOf(Live(f.s, SmallTags(b))) = Eager!Without(KeysOf(Live(f.s, SmallTags(f))), k)
    BY <1>2, <1>3, <1>9, LiveForgot
<1>11. /\ MainTags(b) \subseteq Range(f.m) /\ KeysOf(Live(f.m, MainTags(b))) = Eager!Without(KeysOf(Live(f.m, MainTags(f))), k)
    BY <1>2, <1>3, <1>9, LiveForgot
<1>12. FifoSlotted(b)
    BY <1>2, <1>5, <1>8, <1>10, <1>11 DEF FifoSlotted, SmallTags, MainTags
<1>13. /\ Queues!LiveS(b) = Live(f.s, SmallTags(b)) /\ Queues!LiveM(b) = Live(f.m, MainTags(b))
       /\ Queues!LiveG(b) = Live(f.ghost_q, GhostTags(w))
    BY <1>8, <1>12, LiveNames
<1>14. /\ x = Cardinality(SmallKeys(d)) /\ y = Cardinality(MainKeys(d)) /\ x + y <= f.s_len + f.m_len
    <2>1. IsFiniteSet(SmallKeys(e)) /\ IsFiniteSet(MainKeys(e))
        BY <1>1, LiveCounts
    <2>2. f.s_len = Cardinality(SmallKeys(e)) /\ f.m_len = Cardinality(MainKeys(e))
        BY <1>1 DEF FifoCounts
    <2>3. /\ Cardinality(SmallKeys(d)) = IF k \in SmallKeys(e) THEN f.s_len - 1 ELSE f.s_len
          /\ Cardinality(MainKeys(d)) = IF k \in MainKeys(e) THEN f.m_len - 1 ELSE f.m_len
        BY <1>4, <2>1, <2>2, OneLess
    <2> QED BY <1>1, <2>3 DEF x, y
<1>15. FifoCounts(b)
    <2>1. \A z \in DOMAIN d : d[z].freq \in 0 .. FREQ_MAX
        BY <1>1, <1>4 DEF FifoCounts
    <2> QED BY <1>8, <1>12, <1>14, <2>1 DEF FifoCounts
<1>16. FifoGhosts(b)
    <2>1. DOMAIN b.ghost \cap DOMAIN b.entries = {}
        BY <1>1, <1>4, <1>5, <1>8 DEF FifoGhosts
    <2>2. Cardinality(DOMAIN f.ghost) \in Nat /\ Cardinality(DOMAIN b.ghost) \in Nat
        BY <1>1, <1>12, LiveCounts
    <2>3. FifoCapacity \in Nat
        BY ReplayAssumption DEF FifoCapacity, Policies
    <2> QED BY <1>1, <1>5, <1>8, <2>1, <2>2, <2>3 DEF FifoGhosts
<1>17. FifoInv(b)
    <2>1. FifoCapacity \in Nat
        BY ReplayAssumption DEF FifoCapacity, Policies
    <2>2. b.s_len + b.m_len <= FifoCapacity
        BY <1>1, <1>7, <1>8, <1>14, <2>1 DEF FifoInv
    <2> QED BY <1>15, <1>16, <2>2 DEF FifoInv
<1>18. Counted(d) = Eager!Drop(Counted(e), k)
    BY <1>4, CountedLess
<1>19. /\ View(b).s = Eager!Without(View(f).s, k) /\ View(b).m = Eager!Without(View(f).m, k)
       /\ View(b).g = Eager!Without(View(f).g, k) /\ View(b).freq = Eager!Drop(View(f).freq, k)
    <2>1. /\ View(f).s = KeysOf(Queues!LiveS(f)) /\ View(f).m = KeysOf(Queues!LiveM(f))
          /\ View(f).g = KeysOf(Queues!LiveG(f)) /\ View(f).freq = Counted(e)
        BY DEF View
    <2>2. /\ View(b).s = KeysOf(Queues!LiveS(b)) /\ View(b).m = KeysOf(Queues!LiveM(b))
          /\ View(b).g = KeysOf(Queues!LiveG(b)) /\ View(b).freq = Counted(d)
        BY <1>8 DEF View
    <2> QED BY <1>2, <1>5, <1>10, <1>11, <1>13, <1>18, <2>1, <2>2
<1> QED BY <1>17, <1>19 DEF b

(* invalidate, the compaction that follows included.                       *)
LEMMA FifoInvalidateIs ==
    ASSUME NEW f, FifoInv(f), NEW k \in Objects
    PROVE  LET b == Queues!FifoInvalidate(f, k)
           IN  /\ FifoInv(b)
               /\ View(b).s = Eager!Without(View(f).s, k) /\ View(b).m = Eager!Without(View(f).m, k)
               /\ View(b).g = Eager!Without(View(f).g, k) /\ View(b).freq = Eager!Drop(View(f).freq, k)
<1> DEFINE c == Forgot(f, k)  b == Queues!MaybeCompact(c)
<1>1. Queues!FifoInvalidate(f, k) = b
    BY DEF Queues!FifoInvalidate, Forgot
<1>2. /\ FifoInv(c)
      /\ View(c).s = Eager!Without(View(f).s, k) /\ View(c).m = Eager!Without(View(f).m, k)
      /\ View(c).g = Eager!Without(View(f).g, k) /\ View(c).freq = Eager!Drop(View(f).freq, k)
    BY ForgotIs
<1> HIDE DEF c
<1>3. FifoSlotted(b) /\ SameCache(b, c) /\ b.ghost = c.ghost /\ Queues!LiveG(b) = Queues!LiveG(c)
    BY <1>2, CompactedIs DEF FifoInv, FifoCounts
<1> HIDE DEF b
<1>4. FifoInv(b) /\ View(b) = View(c)
    BY <1>2, <1>3 DEF FifoInv, FifoCounts, FifoGhosts, SameCache, View
<1> QED BY <1>1, <1>2, <1>4

-----------------------------------------------------------------------------
(* One eviction. The counted hits that are left bound its rounds.          *)

HitsLeft(e) == UNION { {k} \X (1 .. e[k].freq) : k \in DOMAIN e }
Heat(f) == Cardinality(HitsLeft(f.entries))

Full(f) == FifoCounts(f) /\ FifoGhosts(f) /\ f.s_len + f.m_len = FifoCapacity
Vacant(f) == FifoCounts(f) /\ FifoGhosts(f) /\ f.s_len + f.m_len = FifoCapacity - 1

(* The counted hits of the resident keys.                                  *)
LEMMA HeatIs ==
    ASSUME NEW f, Full(f)
    PROVE  IsFiniteSet(HitsLeft(f.entries)) /\ Heat(f) \in Nat /\ Heat(f) <= FifoCapacity * FREQ_MAX
<1> DEFINE K == DOMAIN f.entries  F == 1 .. FREQ_MAX
<1>1. IsFiniteSet(K) /\ Cardinality(K) = FifoCapacity
    <2>1. IsFiniteSet(K)
        BY LiveCounts DEF Full, FifoCounts
    <2>2. Cardinality(K) = f.s_len + f.m_len
        BY FifoNumbers DEF Full
    <2> QED BY <2>1, <2>2 DEF Full
<1>2. FREQ_MAX \in Nat
    BY ReplayAssumption
<1>3. IsFiniteSet(F) /\ Cardinality(F) = FREQ_MAX
    BY <1>2, FS_Interval
<1>4. IsFiniteSet(K \X F) /\ Cardinality(K \X F) = FifoCapacity * FREQ_MAX
    <2> HIDE DEF K, F
    <2> QED BY <1>1, <1>3, FS_Product
<1>5. HitsLeft(f.entries) \in SUBSET (K \X F)
    <2>1. \A k \in K : f.entries[k].freq \in 0 .. FREQ_MAX
        BY DEF Full, FifoCounts
    <2>2. \A k \in K : 1 .. f.entries[k].freq \subseteq F
        BY <1>2, <2>1
    <2> QED BY <2>2 DEF HitsLeft
<1> HIDE DEF K, F
<1> QED BY <1>4, <1>5, FS_Subset, FS_CardinalityType DEF Heat

(* A second chance lowers them by one.                                     *)
LEMMA HeatLess ==
    ASSUME NEW f, NEW b, Full(f), Full(b), NEW k \in DOMAIN f.entries, DOMAIN b.entries = DOMAIN f.entries,
           Counted(b.entries)[k] < Counted(f.entries)[k],
           \A x \in DOMAIN f.entries \ {k} : Counted(b.entries)[x] = Counted(f.entries)[x]
    PROVE  Heat(b) < Heat(f)
<1> DEFINE d == b.entries  e == f.entries
<1>1. \A x \in DOMAIN e : d[x].freq \in Nat /\ e[x].freq \in Nat
    <2>1. \A x \in DOMAIN e : d[x].freq \in 0 .. FREQ_MAX /\ e[x].freq \in 0 .. FREQ_MAX
        BY DEF Full, FifoCounts
    <2>2. FREQ_MAX \in Nat
        BY ReplayAssumption
    <2> QED BY <2>1, <2>2
<1>2. d[k].freq < e[k].freq /\ \A x \in DOMAIN e \ {k} : d[x].freq = e[x].freq
    BY DEF Counted
<1>3. \A x \in DOMAIN e : 1 .. d[x].freq \subseteq 1 .. e[x].freq
    BY <1>1, <1>2
<1>4. HitsLeft(d) \in SUBSET HitsLeft(e)
    BY <1>3 DEF HitsLeft
<1>5. HitsLeft(d) # HitsLeft(e)
    <2> DEFINE p == <<k, e[k].freq>>
    <2>1. e[k].freq \in 1 .. e[k].freq /\ e[k].freq \notin 1 .. d[k].freq
        BY <1>1, <1>2
    <2>2. p \in HitsLeft(e)
        BY <2>1 DEF HitsLeft
    <2>3. p \notin HitsLeft(d)
        BY <2>1 DEF HitsLeft
    <2> QED BY <2>2, <2>3
<1>6. IsFiniteSet(HitsLeft(e)) /\ Heat(f) \in Nat /\ Heat(b) \in Nat
    BY HeatIs
<1>7. Heat(b) <= Heat(f) /\ Heat(b) # Heat(f)
    <2> DEFINE S == HitsLeft(e)  T == HitsLeft(d)
    <2>1. IsFiniteSet(S) /\ T \in SUBSET S /\ T # S
        BY <1>4, <1>5, <1>6
    <2> HIDE DEF S, T
    <2>2. Cardinality(T) <= Cardinality(S) /\ Cardinality(T) # Cardinality(S)
        BY <2>1, FS_Subset
    <2> QED BY <2>2 DEF S, T, Heat
<1> QED BY <1>6, <1>7

LEMMA CountsOf ==
    ASSUME NEW f, FifoCounts(f)
    PROVE  /\ (f.s_len = 0 <=> SmallKeys(f.entries) = {}) /\ (f.m_len = 0 <=> MainKeys(f.entries) = {})
           /\ (f.s_len = 0 <=> View(f).s = <<>>) /\ (f.m_len = 0 <=> View(f).m = <<>>)
           /\ (f.s_len = 0 <=> Queues!LiveS(f) = <<>>) /\ (f.m_len = 0 <=> Queues!LiveM(f) = <<>>)
           /\ Len(View(f).s) = f.s_len /\ Len(View(f).m) = f.m_len /\ f.s_len \in Nat /\ f.m_len \in Nat
<1>1. /\ f.s_len \in Nat /\ f.m_len \in Nat
      /\ Len(View(f).s) = f.s_len /\ Len(View(f).m) = f.m_len
      /\ IsList(View(f).s, Objects) /\ IsList(View(f).m, Objects)
      /\ Range(View(f).s) = SmallKeys(f.entries) /\ Range(View(f).m) = MainKeys(f.entries)
    BY FifoNumbers
<1>2. /\ OneEach(Queues!LiveS(f)) /\ OneEach(Queues!LiveM(f))
      /\ Len(Queues!LiveS(f)) = f.s_len /\ Len(Queues!LiveM(f)) = f.m_len
    BY LiveKeys, LiveCounts DEF FifoCounts
<1>3. /\ (f.s_len = 0 <=> Queues!LiveS(f) = <<>>) /\ (f.m_len = 0 <=> Queues!LiveM(f) = <<>>)
    BY <1>2, LenIs DEF OneEach
<1>4. /\ (f.s_len = 0 <=> View(f).s = <<>>) /\ (f.s_len = 0 <=> SmallKeys(f.entries) = {})
    BY <1>1, LenIs
<1>5. /\ (f.m_len = 0 <=> View(f).m = <<>>) /\ (f.m_len = 0 <=> MainKeys(f.entries) = {})
    BY <1>1, LenIs
<1> QED BY <1>1, <1>3, <1>4, <1>5

(* Its steps are those of S3FifoEager.                                     *)
Onward(r, f) ==
    \/ /\ r = <<FALSE, r[2]>> /\ Full(r[2]) /\ Heat(r[2]) < Heat(f)
       /\ DOMAIN r[2].entries \subseteq DOMAIN f.entries
    \/ /\ r = <<TRUE, r[2]>> /\ Vacant(r[2]) /\ DOMAIN r[2].entries \subseteq DOMAIN f.entries

(* evict_s: one promotion, or one key gone.                                *)
LEMMA EvictSIs ==
    ASSUME NEW f, Full(f), SmallKeys(f.entries) # {}
    PROVE  LET r == Queues!EvictS(f)  c == View(f)  k == Head(c.s)
           IN  /\ Onward(r, f) /\ k = Head(Queues!LiveS(f)).key
               /\ <<r[1], View(r[2])>>
                    = IF c.freq[k] >= S_PROMOTE_MIN_FREQ
                      THEN <<FALSE, [c EXCEPT !.s = Tail(@), !.m = Append(@, k), !.freq[k] = 0]>>
                      ELSE <<TRUE, [c EXCEPT !.s = Tail(@), !.freq = Eager!Drop(@, k), !.g = Eager!Ghosted(@, k)]>>
<1> DEFINE r == Queues!EvictS(f)  c == View(f)  k == Head(Queues!LiveS(f)).key  p == Promoted(f)  g == GoneFromSmall(f)
<1>1. FifoCounts(f) /\ FifoGhosts(f) /\ f.s_len + f.m_len = FifoCapacity
    BY DEF Full
<1>2. r = IF f.entries[k].freq >= S_PROMOTE_MIN_FREQ THEN <<FALSE, p>> ELSE <<TRUE, g>>
    BY DEF Queues!EvictS, Promoted, GoneFromSmall, LeftSmall
<1>3. /\ FifoCounts(p) /\ p.ghost = f.ghost /\ DOMAIN p.entries = DOMAIN f.entries
      /\ p.s_len + p.m_len = f.s_len + f.m_len
      /\ k \in SmallKeys(f.entries) /\ k = Head(c.s)
      /\ View(p).s = Tail(c.s) /\ View(p).m = Append(c.m, k) /\ View(p).g = c.g
      /\ View(p).freq = [c.freq EXCEPT ![k] = 0]
    BY <1>1, PromotedIs
<1>4. /\ FifoCounts(g) /\ FifoGhosts(g) /\ DOMAIN g.entries = DOMAIN f.entries \ {k}
      /\ g.s_len + g.m_len = f.s_len + f.m_len - 1
      /\ View(g).s = Tail(c.s) /\ View(g).m = c.m /\ View(g).g = Eager!Ghosted(c.g, k)
      /\ View(g).freq = Eager!Drop(c.freq, k)
    BY <1>1, GoneFromSmallIs
<1>5. c = [s |-> c.s, m |-> c.m, g |-> c.g, freq |-> c.freq] /\ c.freq = Counted(f.entries)
    BY DEF View
<1>6. View(p) = [s |-> View(p).s, m |-> View(p).m, g |-> View(p).g, freq |-> View(p).freq] /\ View(p).freq = Counted(p.entries)
    BY DEF View
<1>7. View(g) = [s |-> View(g).s, m |-> View(g).m, g |-> View(g).g, freq |-> View(g).freq]
    BY DEF View
<1> HIDE DEF r, c, k, p, g
<1>8. k \in DOMAIN f.entries /\ c.freq[k] = f.entries[k].freq /\ f.entries[k].freq \in 0 .. FREQ_MAX /\ FREQ_MAX \in Nat
    <2>1. k \in DOMAIN f.entries
        BY <1>3 DEF SmallKeys
    <2> QED BY <1>1, <1>5, <2>1, FifoEntryIs DEF Counted
<1>9. S_PROMOTE_MIN_FREQ \in Nat \ {0}
    BY ReplayAssumption
<1>10. CASE f.entries[k].freq >= S_PROMOTE_MIN_FREQ
    <2>1. r = <<FALSE, p>>
        BY <1>2, <1>10
    <2>2. r[1] = FALSE /\ r[2] = p
        BY <2>1
    <2>3. Full(p)
        BY <1>1, <1>3 DEF Full, FifoGhosts
    <2>4. Heat(p) < Heat(f)
        <3>1. c.freq \in [DOMAIN f.entries -> Nat]
            <4>1. \A x \in DOMAIN f.entries : f.entries[x].freq \in Nat
                BY <1>1, <1>8 DEF FifoCounts
            <4> QED BY <1>5, <4>1 DEF Counted
        <3>2. View(p).freq[k] = 0 /\ \A x \in DOMAIN f.entries \ {k} : View(p).freq[x] = c.freq[x]
            BY <1>3, <1>8, <3>1
        <3>3. 0 < c.freq[k]
            BY <1>8, <1>9, <1>10
        <3>4. /\ Counted(p.entries)[k] < Counted(f.entries)[k]
              /\ \A x \in DOMAIN f.entries \ {k} : Counted(p.entries)[x] = Counted(f.entries)[x]
            BY <1>5, <1>6, <3>2, <3>3
        <3> QED BY <1>3, <1>8, <2>3, <3>4, HeatLess
    <2>5. Onward(r, f)
        BY <1>3, <2>1, <2>2, <2>3, <2>4 DEF Onward
    <2>6. View(p) = [c EXCEPT !.s = Tail(@), !.m = Append(@, k), !.freq[k] = 0]
        BY <1>3, <1>5, <1>6
    <2>7. Head(c.s) = k /\ c.freq[k] >= S_PROMOTE_MIN_FREQ
        BY <1>3, <1>8, <1>10
    <2> QED BY <2>2, <2>5, <2>6, <2>7 DEF r, c, k
<1>11. CASE ~(f.entries[k].freq >= S_PROMOTE_MIN_FREQ)
    <2>1. r = <<TRUE, g>>
        BY <1>2, <1>11
    <2>2. r[1] = TRUE /\ r[2] = g
        BY <2>1
    <2>3. Vacant(g)
        <3>1. FifoCounts(g) /\ FifoGhosts(g)
            BY <1>1, <1>4 DEF FifoGhosts
        <3>2. f.s_len \in Nat /\ f.m_len \in Nat /\ g.s_len \in Nat /\ g.m_len \in Nat
            BY <1>1, <1>4, FifoNumbers
        <3>3. g.s_len + g.m_len = FifoCapacity - 1
            <4>1. g.s_len + g.m_len = f.s_len + f.m_len - 1 /\ f.s_len + f.m_len = FifoCapacity
                BY <1>1, <1>4
            <4>2. FifoCapacity \in Nat
                BY ReplayAssumption DEF FifoCapacity, Policies
            <4> QED BY <4>1, <4>2, <3>2
        <3> QED BY <3>1, <3>3 DEF Vacant
    <2>4. DOMAIN g.entries \subseteq DOMAIN f.entries
        BY <1>4
    <2>5. Onward(r, f)
        BY <2>1, <2>2, <2>3, <2>4 DEF Onward
    <2>6. View(g) = [c EXCEPT !.s = Tail(@), !.freq = Eager!Drop(@, k), !.g = Eager!Ghosted(@, k)]
        BY <1>4, <1>5, <1>7
    <2>7. Head(c.s) = k /\ ~(c.freq[k] >= S_PROMOTE_MIN_FREQ)
        BY <1>3, <1>8, <1>11
    <2> QED BY <2>2, <2>5, <2>6, <2>7 DEF r, c, k
<1> QED BY <1>10, <1>11

(* evict_m: one second chance, or one key gone.                            *)
LEMMA EvictMIs ==
    ASSUME NEW f, Full(f), MainKeys(f.entries) # {}
    PROVE  LET r == Queues!EvictM(f)  c == View(f)  k == Head(c.m)
           IN  /\ Onward(r, f)
               /\ <<r[1], View(r[2])>>
                    = IF c.freq[k] > 0
                      THEN <<FALSE, [c EXCEPT !.m = Append(Tail(@), k), !.freq[k] = @ - 1]>>
                      ELSE <<TRUE, [c EXCEPT !.m = Tail(@), !.freq = Eager!Drop(@, k)]>>
<1> DEFINE r == Queues!EvictM(f)  c == View(f)  k == Head(Queues!LiveM(f)).key  p == SecondChance(f)  g == GoneFromMain(f)
<1>1. FifoCounts(f) /\ FifoGhosts(f) /\ f.s_len + f.m_len = FifoCapacity
    BY DEF Full
<1>2. r = IF f.entries[k].freq > 0 THEN <<FALSE, p>> ELSE <<TRUE, g>>
    BY DEF Queues!EvictM, SecondChance, GoneFromMain
<1>3. f.entries[k].freq > 0 =>
        /\ FifoCounts(p) /\ p.ghost = f.ghost /\ DOMAIN p.entries = DOMAIN f.entries
        /\ p.s_len + p.m_len = f.s_len + f.m_len
        /\ View(p).s = c.s /\ View(p).m = Append(Tail(c.m), k) /\ View(p).g = c.g
        /\ View(p).freq = [c.freq EXCEPT ![k] = f.entries[k].freq - 1]
    BY <1>1, SecondChanceIs
<1>4. /\ FifoCounts(g) /\ g.ghost = f.ghost /\ DOMAIN g.entries = DOMAIN f.entries \ {k}
      /\ g.s_len + g.m_len = f.s_len + f.m_len - 1
      /\ k \in MainKeys(f.entries) /\ k = Head(c.m)
      /\ View(g).s = c.s /\ View(g).m = Tail(c.m) /\ View(g).g = c.g
      /\ View(g).freq = Eager!Drop(c.freq, k)
    BY <1>1, GoneFromMainIs
<1>5. c = [s |-> c.s, m |-> c.m, g |-> c.g, freq |-> c.freq] /\ c.freq = Counted(f.entries)
    BY DEF View
<1>6. View(p) = [s |-> View(p).s, m |-> View(p).m, g |-> View(p).g, freq |-> View(p).freq] /\ View(p).freq = Counted(p.entries)
    BY DEF View
<1>7. View(g) = [s |-> View(g).s, m |-> View(g).m, g |-> View(g).g, freq |-> View(g).freq]
    BY DEF View
<1> HIDE DEF r, c, k, p, g
<1>8. k \in DOMAIN f.entries /\ c.freq[k] = f.entries[k].freq /\ f.entries[k].freq \in 0 .. FREQ_MAX /\ FREQ_MAX \in Nat
    <2>1. k \in DOMAIN f.entries
        BY <1>4 DEF MainKeys
    <2> QED BY <1>1, <1>5, <2>1, FifoEntryIs DEF Counted
<1>10. CASE f.entries[k].freq > 0
    <2>0. /\ FifoCounts(p) /\ p.ghost = f.ghost /\ DOMAIN p.entries = DOMAIN f.entries
          /\ p.s_len + p.m_len = f.s_len + f.m_len
          /\ View(p).s = c.s /\ View(p).m = Append(Tail(c.m), k) /\ View(p).g = c.g
          /\ View(p).freq = [c.freq EXCEPT ![k] = f.entries[k].freq - 1]
        BY <1>3, <1>10
    <2>1. r = <<FALSE, p>>
        BY <1>2, <1>10
    <2>2. r[1] = FALSE /\ r[2] = p
        BY <2>1
    <2>3. Full(p)
        BY <1>1, <2>0 DEF Full, FifoGhosts
    <2>4. Heat(p) < Heat(f)
        <3>1. c.freq \in [DOMAIN f.entries -> Nat]
            <4>1. \A x \in DOMAIN f.entries : f.entries[x].freq \in Nat
                BY <1>1, <1>8 DEF FifoCounts
            <4> QED BY <1>5, <4>1 DEF Counted
        <3>2. View(p).freq[k] = c.freq[k] - 1 /\ \A x \in DOMAIN f.entries \ {k} : View(p).freq[x] = c.freq[x]
            BY <2>0, <1>8, <3>1
        <3>3. c.freq[k] - 1 < c.freq[k]
            BY <1>8
        <3>4. /\ Counted(p.entries)[k] < Counted(f.entries)[k]
              /\ \A x \in DOMAIN f.entries \ {k} : Counted(p.entries)[x] = Counted(f.entries)[x]
            BY <1>5, <1>6, <3>2, <3>3
        <3> QED BY <2>0, <1>8, <2>3, <3>4, HeatLess
    <2>5. Onward(r, f)
        BY <2>0, <2>1, <2>2, <2>3, <2>4 DEF Onward
    <2>6. View(p) = [c EXCEPT !.m = Append(Tail(@), k), !.freq[k] = @ - 1]
        BY <2>0, <1>5, <1>6, <1>8
    <2>7. Head(c.m) = k /\ c.freq[k] > 0
        BY <1>4, <1>8, <1>10
    <2> QED BY <2>2, <2>5, <2>6, <2>7 DEF r, c
<1>11. CASE ~(f.entries[k].freq > 0)
    <2>1. r = <<TRUE, g>>
        BY <1>2, <1>11
    <2>2. r[1] = TRUE /\ r[2] = g
        BY <2>1
    <2>3. Vacant(g)
        <3>1. FifoCounts(g) /\ FifoGhosts(g)
            BY <1>1, <1>4 DEF FifoGhosts
        <3>2. f.s_len \in Nat /\ f.m_len \in Nat /\ g.s_len \in Nat /\ g.m_len \in Nat
            BY <1>1, <1>4, FifoNumbers
        <3>3. g.s_len + g.m_len = FifoCapacity - 1
            <4>1. g.s_len + g.m_len = f.s_len + f.m_len - 1 /\ f.s_len + f.m_len = FifoCapacity
                BY <1>1, <1>4
            <4>2. FifoCapacity \in Nat
                BY ReplayAssumption DEF FifoCapacity, Policies
            <4> QED BY <4>1, <4>2, <3>2
        <3> QED BY <3>1, <3>3 DEF Vacant
    <2>4. DOMAIN g.entries \subseteq DOMAIN f.entries
        BY <1>4
    <2>5. Onward(r, f)
        BY <2>1, <2>2, <2>3, <2>4 DEF Onward
    <2>6. View(g) = [c EXCEPT !.m = Tail(@), !.freq = Eager!Drop(@, k)]
        BY <1>4, <1>5, <1>7
    <2>7. Head(c.m) = k /\ ~(c.freq[k] > 0)
        BY <1>4, <1>8, <1>11
    <2> QED BY <2>2, <2>5, <2>6, <2>7 DEF r, c
<1> QED BY <1>10, <1>11

(* A round of an eviction: a key has gone, or the bound is closer.         *)
LEMMA EvictStepIs ==
    ASSUME NEW f, Full(f)
    PROVE  LET r == Queues!EvictStep(f)
           IN  Onward(r, f) /\ Eager!Moved(View(f)) = <<r[1], View(r[2])>>
<1> DEFINE c == View(f)
<1>1. FifoCounts(f) /\ f.s_len + f.m_len = FifoCapacity
    BY DEF Full
<1>2. /\ (f.s_len = 0 <=> SmallKeys(f.entries) = {}) /\ (f.m_len = 0 <=> MainKeys(f.entries) = {})
      /\ (f.s_len = 0 <=> c.s = <<>>) /\ (f.m_len = 0 <=> c.m = <<>>)
      /\ (f.s_len = 0 <=> Queues!LiveS(f) = <<>>) /\ (f.m_len = 0 <=> Queues!LiveM(f) = <<>>)
      /\ Len(c.s) = f.s_len /\ Len(c.m) = f.m_len /\ f.s_len \in Nat /\ f.m_len \in Nat
    BY <1>1, CountsOf
<1>3. FifoCapacity \in Nat \ {0}
    BY ReplayAssumption DEF FifoCapacity, Policies
<1> HIDE DEF c
<1>4. Queues!FromS(f) <=> c.s # <<>> /\ (Len(c.s) >= Queues!s_target \/ c.m = <<>>)
    BY <1>2 DEF Queues!FromS
<1>5. CASE Queues!FromS(f)
    <2>1. SmallKeys(f.entries) # {} /\ Queues!LiveS(f) # <<>>
        BY <1>2, <1>4, <1>5
    <2>2. Queues!EvictStep(f) = Queues!EvictS(f)
        BY <1>5, <2>1 DEF Queues!EvictStep
    <2>3. Eager!Moved(c) =
            IF c.freq[Head(c.s)] >= S_PROMOTE_MIN_FREQ
            THEN <<FALSE, [c EXCEPT !.s = Tail(@), !.m = Append(@, Head(c.s)), !.freq[Head(c.s)] = 0]>>
            ELSE <<TRUE, [c EXCEPT !.s = Tail(@), !.freq = Eager!Drop(@, Head(c.s)), !.g = Eager!Ghosted(@, Head(c.s))]>>
        BY <1>4, <1>5 DEF Eager!Moved
    <2> DEFINE r == Queues!EvictS(f)
    <2>4. Onward(r, f) /\ <<r[1], View(r[2])>> =
            IF c.freq[Head(c.s)] >= S_PROMOTE_MIN_FREQ
            THEN <<FALSE, [c EXCEPT !.s = Tail(@), !.m = Append(@, Head(c.s)), !.freq[Head(c.s)] = 0]>>
            ELSE <<TRUE, [c EXCEPT !.s = Tail(@), !.freq = Eager!Drop(@, Head(c.s)), !.g = Eager!Ghosted(@, Head(c.s))]>>
        BY <2>1, EvictSIs DEF c
    <2> QED BY <2>2, <2>3, <2>4 DEF c
<1>6. CASE ~Queues!FromS(f)
    <2>1. MainKeys(f.entries) # {} /\ Queues!LiveM(f) # <<>>
        BY <1>1, <1>2, <1>3, <1>6 DEF Queues!FromS
    <2>2. Queues!EvictStep(f) = Queues!EvictM(f)
        BY <1>6, <2>1 DEF Queues!EvictStep
    <2>3. Eager!Moved(c) =
            IF c.freq[Head(c.m)] > 0
            THEN <<FALSE, [c EXCEPT !.m = Append(Tail(@), Head(c.m)), !.freq[Head(c.m)] = @ - 1]>>
            ELSE <<TRUE, [c EXCEPT !.m = Tail(@), !.freq = Eager!Drop(@, Head(c.m))]>>
        BY <1>4, <1>6 DEF Eager!Moved
    <2> DEFINE r == Queues!EvictM(f)
    <2>4. Onward(r, f) /\ <<r[1], View(r[2])>> =
            IF c.freq[Head(c.m)] > 0
            THEN <<FALSE, [c EXCEPT !.m = Append(Tail(@), Head(c.m)), !.freq[Head(c.m)] = @ - 1]>>
            ELSE <<TRUE, [c EXCEPT !.m = Tail(@), !.freq = Eager!Drop(@, Head(c.m))]>>
        BY <2>1, EvictMIs DEF c
    <2> QED BY <2>2, <2>3, <2>4 DEF c
<1> QED BY <1>5, <1>6

(* The states of an eviction: a cache that is full until a key has gone.   *)
EvictStates(f) ==
    { c \in BOOLEAN \X FifoStates :
        (IF c[1] THEN Vacant(c[2]) ELSE Full(c[2])) /\ DOMAIN c[2].entries \subseteq DOMAIN f.entries }
Onwards(c) == IF c[1] THEN c ELSE Queues!EvictStep(c[2])
Seen(c) == <<c[1], View(c[2])>>

LEMMA OnwardIs ==
    ASSUME NEW r, NEW d, Onward(r, d)
    PROVE  /\ r = <<r[1], r[2]>> /\ r[1] \in BOOLEAN /\ DOMAIN r[2].entries \subseteq DOMAIN d.entries
           /\ r[1] => Vacant(r[2])
           /\ ~r[1] => Full(r[2]) /\ Heat(r[2]) < Heat(d)
<1>1. CASE r = <<FALSE, r[2]>> /\ Full(r[2]) /\ Heat(r[2]) < Heat(d) /\ DOMAIN r[2].entries \subseteq DOMAIN d.entries
    <2>1. ASSUME NEW x, r = <<FALSE, x>> PROVE r[1] = FALSE
        BY <2>1
    <2>2. r[1] = FALSE
        BY <1>1, <2>1
    <2>3. r = <<r[1], r[2]>>
        BY <1>1, <2>2, Zenon
    <2>4. ~r[1] /\ r[1] \in BOOLEAN
        BY <2>2, Zenon
    <2> QED BY <1>1, <2>3, <2>4, Zenon
<1>2. CASE r = <<TRUE, r[2]>> /\ Vacant(r[2]) /\ DOMAIN r[2].entries \subseteq DOMAIN d.entries
    <2>1. ASSUME NEW x, r = <<TRUE, x>> PROVE r[1] = TRUE
        BY <2>1
    <2>2. r[1] = TRUE
        BY <1>2, <2>1
    <2>3. r = <<r[1], r[2]>>
        BY <1>2, <2>2, Zenon
    <2>4. r[1] /\ r[1] \in BOOLEAN
        BY <2>2, Zenon
    <2> QED BY <1>2, <2>3, <2>4, Zenon
<1> QED BY <1>1, <1>2 DEF Onward

LEMMA OnwardsIs ==
    ASSUME NEW f, NEW c \in EvictStates(f)
    PROVE  /\ Onwards(c) \in EvictStates(f)
           /\ ~c[1] => Onwards(c)[1] \/ Heat(Onwards(c)[2]) < Heat(c[2])
           /\ c[1] => Onwards(c)[1]
           /\ Seen(Onwards(c)) = IF Seen(c)[1] THEN Seen(c) ELSE Eager!Moved(Seen(c)[2])
<1>1. /\ c \in BOOLEAN \X FifoStates /\ DOMAIN c[2].entries \subseteq DOMAIN f.entries
      /\ c = <<c[1], c[2]>> /\ c[1] \in BOOLEAN /\ c[2] \in FifoStates
    BY DEF EvictStates
<1>2. Seen(c)[1] = c[1] /\ Seen(c)[2] = View(c[2])
    BY DEF Seen
<1>3. CASE c[1]
    <2>1. Onwards(c) = c
        BY <1>3 DEF Onwards
    <2>2. Seen(Onwards(c)) = Seen(c) /\ Seen(c)[1]
        BY <1>2, <1>3, <2>1
    <2> QED BY <1>3, <2>1, <2>2
<1>4. CASE ~c[1]
    <2> DEFINE d == c[2]  r == Queues!EvictStep(d)
    <2>1. Full(d)
        BY <1>4 DEF EvictStates
    <2>2. Onward(r, d) /\ Eager!Moved(View(d)) = <<r[1], View(r[2])>>
        BY <2>1, EvictStepIs
    <2>3. Onwards(c) = r
        BY <1>4 DEF Onwards
    <2> HIDE DEF r, d
    <2>4. /\ r = <<r[1], r[2]>> /\ r[1] \in BOOLEAN /\ DOMAIN r[2].entries \subseteq DOMAIN d.entries
          /\ (IF r[1] THEN Vacant(r[2]) ELSE Full(r[2])) /\ (r[1] \/ Heat(r[2]) < Heat(d))
        BY <2>2, OnwardIs
    <2>5. r[2] \in FifoStates
        BY <2>4 DEF Full, Vacant, FifoCounts, FifoSlotted
    <2>6. r \in BOOLEAN \X FifoStates
        BY <2>4, <2>5
    <2>7. DOMAIN r[2].entries \subseteq DOMAIN f.entries
        BY <1>1, <2>4 DEF d
    <2>8. r \in EvictStates(f)
        BY <2>4, <2>6, <2>7 DEF EvictStates
    <2>9. Seen(r) = Eager!Moved(Seen(c)[2])
        BY <1>2, <2>2 DEF Seen, d
    <2>10. ~Seen(c)[1]
        BY <1>2, <1>4
    <2> QED BY <1>4, <2>3, <2>4, <2>8, <2>9, <2>10 DEF d
<1> QED BY <1>1, <1>3, <1>4

(* What EvictOne and Evicted reach.                                        *)
Evicting(h, f, n) ==
    h = [i \in 0 .. n |-> IF i = 0 THEN <<FALSE, f>> ELSE Onwards(h[i - 1])]
EagerStep(d) == IF d[1] THEN d ELSE Eager!Moved(d[2])
EagerEvicting(h, c, n) ==
    h = [i \in 0 .. n |-> IF i = 0 THEN <<FALSE, c>> ELSE EagerStep(h[i - 1])]

LEMMA EvictingIs ==
    ASSUME NEW f, Full(f), NEW n \in Nat, NEW h, Evicting(h, f, n)
    PROVE  /\ \A i \in 0 .. n : h[i] \in EvictStates(f)
           /\ \A i \in 0 .. n : h[i][1] \/ Heat(h[i][2]) + i <= Heat(f)
<1>1. h[0] = <<FALSE, f>>
    <2>1. 0 \in 0 .. n
        OBVIOUS
    <2> QED BY <2>1 DEF Evicting
<1>2. ASSUME NEW i \in 1 .. n PROVE h[i] = Onwards(h[i - 1]) /\ i - 1 \in 0 .. n
    <2>1. i \in 0 .. n /\ i # 0 /\ i - 1 \in 0 .. n
        OBVIOUS
    <2> QED BY <2>1 DEF Evicting
<1>3. <<FALSE, f>> \in EvictStates(f)
    <2>1. f \in FifoStates
        BY DEF Full, FifoCounts, FifoSlotted
    <2> DEFINE c == <<FALSE, f>>
    <2>2. c[1] = FALSE /\ c[2] = f /\ c \in BOOLEAN \X FifoStates
        BY <2>1
    <2> HIDE DEF c
    <2>3. c \in EvictStates(f)
        BY <2>2 DEF EvictStates
    <2> QED BY <2>3 DEF c
<1> DEFINE Cool(i) == h[i] \in EvictStates(f) /\ (h[i][1] \/ Heat(h[i][2]) + i <= Heat(f))
           J == { i \in 0 .. n : Cool(i) }
<1>4. 0 \in J
    <2>1. Heat(f) \in Nat
        BY HeatIs
    <2>2. h[0][1] = FALSE /\ h[0][2] = f
        BY <1>1
    <2>3. Heat(h[0][2]) + 0 <= Heat(f)
        BY <2>1, <2>2
    <2>4. Cool(0)
        BY <1>1, <1>3, <2>3
    <2> HIDE DEF Cool
    <2> QED BY <2>4
<1>5. ASSUME NEW i \in 1 .. n, i - 1 \in J PROVE i \in J
    <2> DEFINE c == h[i - 1]  d == h[i]
    <2>1. d = Onwards(c) /\ i \in 0 .. n /\ i - 1 \in 0 .. n
        BY <1>2
    <2>2. c \in EvictStates(f) /\ (c[1] \/ Heat(c[2]) + (i - 1) <= Heat(f))
        BY <1>5
    <2> HIDE DEF c, d
    <2>3. /\ d \in EvictStates(f) /\ (~c[1] => d[1] \/ Heat(d[2]) < Heat(c[2])) /\ (c[1] => d[1])
        BY <2>1, <2>2, OnwardsIs
    <2>4. ASSUME ~d[1] PROVE Heat(d[2]) + i <= Heat(f)
        <3>1. ~c[1] /\ Heat(d[2]) < Heat(c[2]) /\ Heat(c[2]) + (i - 1) <= Heat(f)
            BY <2>2, <2>3, <2>4
        <3>2. Full(c[2]) /\ Full(d[2])
            BY <2>2, <2>3, <2>4, <3>1 DEF EvictStates
        <3>3. Heat(d[2]) \in Nat /\ Heat(c[2]) \in Nat /\ Heat(f) \in Nat
            BY <3>2, HeatIs
        <3> QED BY <3>1, <3>3
    <2>5. Cool(i)
        BY <2>3, <2>4 DEF d
    <2> HIDE DEF Cool
    <2> QED BY <2>1, <2>5
<1> HIDE DEF J
<1>6. 0 .. n \subseteq J
    BY <1>4, <1>5, Upwards
<1> QED BY <1>6 DEF J

(* The rounds of an eviction are a function of their number.               *)
LEMMA EvictingExists ==
    ASSUME NEW f, Full(f), NEW n \in Nat
    PROVE  \E h : Evicting(h, f, n)
<1> DEFINE T == EvictStates(f)  step == [i \in 1 .. n |-> [c \in T |-> Onwards(c)]]  c0 == <<FALSE, f>>
<1>1. c0 \in T
    <2>1. f \in FifoStates
        BY DEF Full, FifoCounts, FifoSlotted
    <2>2. c0[1] = FALSE /\ c0[2] = f /\ c0 \in BOOLEAN \X FifoStates
        BY <2>1
    <2> HIDE DEF c0
    <2> QED BY <2>2 DEF EvictStates
<1>2. \A c \in T : Onwards(c) \in T
    BY OnwardsIs
<1> HIDE DEF T, c0
<1>3. step \in [1 .. n -> [T -> T]]
    BY <1>2
<1>4. \A i \in 1 .. n, c \in T : step[i][c] = Onwards(c)
    OBVIOUS
<1> HIDE DEF step
<1>5. PICK g : Run(g, n, T, c0, step)
    BY <1>1, <1>3, Unrolled
<1>6. Evicting(g, f, n)
    <2>1. \A i \in 0 .. n : i # 0 => i \in 1 .. n /\ i - 1 \in 0 .. n
        OBVIOUS
    <2>2. \A i \in 0 .. n : g[i] = IF i = 0 THEN c0 ELSE Onwards(g[i - 1])
        BY <1>4, <1>5, <2>1 DEF Run
    <2>3. g \in [0 .. n -> T]
        BY <1>5 DEF Run
    <2> QED BY <2>2, <2>3 DEF Evicting, c0
<1> QED BY <1>6

Followed(g, h, n) == g[n] = Seen(h[n])
LEMMA EagerEvictingIs ==
    ASSUME NEW f, Full(f), NEW n \in Nat, NEW h, Evicting(h, f, n), NEW c, c = View(f)
    PROVE  /\ \E g : EagerEvicting(g, c, n)
           /\ \A g : EagerEvicting(g, c, n) => Followed(g, h, n)
<1> DEFINE s == [i \in 0 .. n |-> Seen(h[i])]
<1>1. \A i \in 0 .. n : h[i] \in EvictStates(f)
    BY EvictingIs
<1>2. h[0] = <<FALSE, f>> /\ \A i \in 1 .. n : h[i] = Onwards(h[i - 1]) /\ i - 1 \in 0 .. n
    <2>1. \A i \in 1 .. n : i \in 0 .. n /\ i # 0 /\ i - 1 \in 0 .. n
        OBVIOUS
    <2>2. 0 \in 0 .. n
        OBVIOUS
    <2> QED BY <2>1, <2>2 DEF Evicting
<1>3. Seen(h[0]) = <<FALSE, c>>
    <2>1. h[0][1] = FALSE /\ h[0][2] = f
        BY <1>2
    <2> QED BY <2>1 DEF Seen
<1>4. ASSUME NEW i \in 1 .. n PROVE Seen(h[i]) = EagerStep(Seen(h[i - 1]))
    <2>1. h[i - 1] \in EvictStates(f) /\ h[i] = Onwards(h[i - 1])
        BY <1>1, <1>2
    <2> QED BY <2>1, OnwardsIs DEF EagerStep
<1>5. \A i \in 0 .. n : s[i] = IF i = 0 THEN <<FALSE, c>> ELSE EagerStep(s[i - 1])
    <2>1. \A i \in 0 .. n : i # 0 => i \in 1 .. n /\ i - 1 \in 0 .. n
        OBVIOUS
    <2> QED BY <1>3, <1>4, <2>1
<1>6. EagerEvicting(s, c, n)
    <2>1. s = [i \in 0 .. n |-> s[i]]
        OBVIOUS
    <2> HIDE DEF s
    <2> QED BY <1>5, <2>1 DEF EagerEvicting
<1>7. ASSUME NEW g, EagerEvicting(g, c, n) PROVE Followed(g, h, n)
    <2>1. \A i \in 0 .. n : g[i] = IF i = 0 THEN <<FALSE, c>> ELSE EagerStep(g[i - 1])
        BY <1>7 DEF EagerEvicting
    <2> DEFINE J == { i \in 0 .. n : g[i] = Seen(h[i]) }
    <2>2. 0 \in J
        <3>1. 0 \in 0 .. n
            OBVIOUS
        <3>2. g[0] = <<FALSE, c>>
            BY <2>1, <3>1
        <3>3. g[0] = Seen(h[0])
            BY <1>3, <3>2
        <3> QED BY <3>1, <3>3
    <2>3. ASSUME NEW i \in 1 .. n, i - 1 \in J PROVE i \in J
        <3>1. i \in 0 .. n /\ i # 0
            OBVIOUS
        <3>2. g[i] = EagerStep(g[i - 1])
            BY <2>1, <3>1
        <3> QED BY <1>4, <2>3, <3>1, <3>2
    <2> HIDE DEF J
    <2>4. 0 .. n \subseteq J
        BY <2>2, <2>3, Upwards
    <2>5. n \in J
        BY <2>4
    <2> QED BY <2>5 DEF J, Followed
<1> QED BY <1>6, <1>7

(* evict_one of a full cache takes exactly one key out of the residents.   *)
LEMMA EvictOneIs ==
    ASSUME NEW f, Full(f)
    PROVE  LET b == Queues!EvictOne(f)
           IN  Vacant(b) /\ DOMAIN b.entries \subseteq DOMAIN f.entries /\ View(b) = Eager!Evicted(View(f))
<1> DEFINE n == Queues!Rounds  c == View(f)
           h == CHOOSE a : Evicting(a, f, n)  g == CHOOSE a : EagerEvicting(a, c, n)
<1>1. n \in Nat /\ n = FifoCapacity * FREQ_MAX + 1 /\ FifoCapacity * FREQ_MAX \in Nat
    <2>1. FifoCapacity \in Nat /\ FREQ_MAX \in Nat
        BY ReplayAssumption DEF FifoCapacity, Policies
    <2>2. \A x, y \in Nat : x * y \in Nat
        OBVIOUS
    <2> QED BY <2>1, <2>2 DEF Queues!Rounds, FifoCapacity
<1>2. Queues!EvictOne(f) = h[n][2]
    BY DEF Queues!EvictOne, Evicting, Onwards
<1>3. Eager!Evicted(c) = g[n][2]
    BY <1>1 DEF Eager!Evicted, EagerEvicting, EagerStep, FifoCapacity
<1> HIDE DEF n
<1>4. Evicting(h, f, n)
    BY <1>1, EvictingExists
<1> HIDE DEF h
<1> HIDE DEF c
<1>5. (\E a : EagerEvicting(a, c, n)) /\ (\A a : EagerEvicting(a, c, n) => Followed(a, h, n))
    <2>1. c = View(f)
        BY DEF c
    <2> QED BY <1>1, <1>4, <2>1, EagerEvictingIs
<1>6. g[n] = Seen(h[n])
    BY <1>5 DEF Followed
<1> HIDE DEF g
<1>7. h[n] \in EvictStates(f) /\ (h[n][1] \/ Heat(h[n][2]) + n <= Heat(f))
    <2>1. n \in 0 .. n
        BY <1>1
    <2> QED BY <1>1, <1>4, <2>1, EvictingIs
<1>8. h[n][1]
    <2> SUFFICES ASSUME ~h[n][1] PROVE FALSE
        OBVIOUS
    <2>1. Full(h[n][2])
        BY <1>7 DEF EvictStates
    <2>2. Heat(h[n][2]) \in Nat /\ Heat(f) \in Nat /\ Heat(f) <= FifoCapacity * FREQ_MAX
        BY <2>1, HeatIs
    <2>3. Heat(h[n][2]) + n <= Heat(f)
        BY <1>7
    <2> QED BY <1>1, <2>2, <2>3
<1>9. Vacant(h[n][2]) /\ DOMAIN h[n][2].entries \subseteq DOMAIN f.entries
    BY <1>7, <1>8 DEF EvictStates
<1>10. g[n][2] = View(h[n][2])
    BY <1>6 DEF Seen
<1> QED BY <1>2, <1>3, <1>9, <1>10 DEF c

(* A miss: room, and the key enters the queue its ghost speaks for.        *)
RoomOf(f) == IF f.s_len + f.m_len >= FifoCapacity THEN Queues!EvictOne(f) ELSE f
EagerRoom(c) == IF Len(c.s) + Len(c.m) >= FifoCapacity THEN Eager!Evicted(c) ELSE c
Loose(f) == FifoCounts(f) /\ FifoGhosts(f) /\ f.s_len + f.m_len < FifoCapacity
MissOf(b, c, k) ==
    /\ b.g = Eager!Without(c.g, k) /\ b.freq = Eager!Set(c.freq, k, 0)
    /\ IF k \in Eager!Range(c.g) THEN b.s = c.s /\ b.m = Append(c.m, k)
                                 ELSE b.s = Append(c.s, k) /\ b.m = c.m

(* There is room for a key after at most one eviction.                     *)
LEMMA RoomIs ==
    ASSUME NEW f, FifoInv(f)
    PROVE  LET b == RoomOf(f)
           IN  Loose(b) /\ DOMAIN b.entries \subseteq DOMAIN f.entries /\ View(b) = EagerRoom(View(f))
<1>1. FifoCounts(f) /\ FifoGhosts(f) /\ f.s_len + f.m_len <= FifoCapacity
    BY DEF FifoInv
<1>2. /\ f.s_len \in Nat /\ f.m_len \in Nat /\ Len(View(f).s) = f.s_len /\ Len(View(f).m) = f.m_len
    BY <1>1, FifoNumbers
<1>3. FifoCapacity \in Nat
    BY ReplayAssumption DEF FifoCapacity, Policies
<1>4. CASE f.s_len + f.m_len >= FifoCapacity
    <2> DEFINE b == Queues!EvictOne(f)
    <2>1. Full(f)
        BY <1>1, <1>2, <1>3, <1>4 DEF Full
    <2>2. Vacant(b) /\ DOMAIN b.entries \subseteq DOMAIN f.entries /\ View(b) = Eager!Evicted(View(f))
        BY <2>1, EvictOneIs
    <2>3. RoomOf(f) = b /\ EagerRoom(View(f)) = Eager!Evicted(View(f))
        BY <1>2, <1>4 DEF RoomOf, EagerRoom
    <2> HIDE DEF b
    <2>4. Loose(b)
        BY <1>3, <2>2 DEF Loose, Vacant
    <2> QED BY <2>2, <2>3, <2>4
<1>5. CASE ~(f.s_len + f.m_len >= FifoCapacity)
    <2>1. RoomOf(f) = f /\ EagerRoom(View(f)) = View(f)
        BY <1>2, <1>5 DEF RoomOf, EagerRoom
    <2>2. Loose(f)
        BY <1>1, <1>2, <1>3, <1>5 DEF Loose
    <2> QED BY <2>1, <2>2
<1> QED BY <1>4, <1>5

LEMMA EnteredIsMiss ==
    ASSUME NEW r, Loose(r), NEW k \in Objects, k \notin DOMAIN r.entries
    PROVE  LET n == Queues!BumpSeq(r, k)
               b == IF k \in DOMAIN r.ghost THEN EnteredMain(r, k, n) ELSE EnteredSmall(r, k, n)
           IN  FifoInv(b) /\ MissOf(View(b), View(r), k)
<1> DEFINE n == Queues!BumpSeq(r, k)  bm == EnteredMain(r, k, n)  bs == EnteredSmall(r, k, n)
<1>1. FifoCounts(r) /\ FifoGhosts(r) /\ r.s_len + r.m_len < FifoCapacity
    BY DEF Loose
<1>2. Eager!Range(View(r).g) = DOMAIN r.ghost
    BY <1>1, FifoNumbers, EagerNames
<1>3. r.s_len \in Nat /\ r.m_len \in Nat /\ FifoCapacity \in Nat
    BY <1>1, FifoNumbers, ReplayAssumption DEF FifoCapacity, Policies
<1>4. CASE k \in DOMAIN r.ghost
    <2>1. /\ FifoCounts(bm) /\ FifoGhosts(bm) /\ bm.s_len + bm.m_len = r.s_len + r.m_len + 1
          /\ View(bm).s = View(r).s /\ View(bm).m = Append(View(r).m, k) /\ View(bm).g = Eager!Without(View(r).g, k)
          /\ View(bm).freq = Eager!Set(View(r).freq, k, 0)
        BY <1>1, EnteredMainIs
    <2> HIDE DEF bm
    <2>2. FifoInv(bm)
        BY <1>1, <1>3, <2>1 DEF FifoInv
    <2>3. MissOf(View(bm), View(r), k)
        BY <1>2, <1>4, <2>1 DEF MissOf
    <2> QED BY <1>4, <2>2, <2>3 DEF bm
<1>5. CASE k \notin DOMAIN r.ghost
    <2>1. /\ FifoCounts(bs) /\ FifoGhosts(bs) /\ bs.s_len + bs.m_len = r.s_len + r.m_len + 1
          /\ View(bs).s = Append(View(r).s, k) /\ View(bs).m = View(r).m /\ View(bs).g = Eager!Without(View(r).g, k)
          /\ View(bs).freq = Eager!Set(View(r).freq, k, 0)
        BY <1>1, EnteredSmallIs
    <2> HIDE DEF bs
    <2>2. FifoInv(bs)
        BY <1>1, <1>3, <2>1 DEF FifoInv
    <2>3. MissOf(View(bs), View(r), k)
        BY <1>2, <1>5, <2>1 DEF MissOf
    <2> QED BY <1>5, <2>2, <2>3 DEF bs
<1> QED BY <1>4, <1>5

(* A miss, from the eviction to the slot of the new key.                   *)
LEMMA FifoInsertIs ==
    ASSUME NEW f, FifoInv(f), NEW k \in Objects, k \notin DOMAIN f.entries
    PROVE  FifoInv(Queues!Insert(f, k)) /\ MissOf(View(Queues!Insert(f, k)), EagerRoom(View(f)), k)
<1> DEFINE r == RoomOf(f)  n == Queues!BumpSeq(r, k)
           b == IF k \in DOMAIN r.ghost THEN EnteredMain(r, k, n) ELSE EnteredSmall(r, k, n)
<1>1. Loose(r) /\ DOMAIN r.entries \subseteq DOMAIN f.entries /\ View(r) = EagerRoom(View(f))
    BY RoomIs
<1>2. Queues!Insert(f, k)
        = LET m == k \in DOMAIN r.ghost
              e == [r EXCEPT !.ghost = Queues!Without(@, k),
                             !.entries = Queues!With(@, k, [freq |-> 0, in_m |-> m, seq |-> n])]
          IN  IF m THEN [e EXCEPT !.m = Append(@, Queues!Slot(k, n)), !.m_len = @ + 1]
                   ELSE [e EXCEPT !.s = Append(@, Queues!Slot(k, n)), !.s_len = @ + 1]
    BY DEF Queues!Insert, RoomOf, FifoCapacity
<1> HIDE DEF r, n
<1>3. r \in FifoStates
    BY <1>1 DEF Loose, FifoCounts, FifoSlotted
<1>4. Queues!Insert(f, k) = b
    <2>1. CASE k \in DOMAIN r.ghost
        <3>1. (k \in DOMAIN r.ghost) = TRUE
            BY <2>1
        <3> QED BY <1>2, <1>3, <2>1, <3>1 DEF EnteredMain, FifoStates
    <2>2. CASE k \notin DOMAIN r.ghost
        <3>1. (k \in DOMAIN r.ghost) = FALSE
            BY <2>2
        <3> QED BY <1>2, <1>3, <2>2, <3>1 DEF EnteredSmall, FifoStates
    <2> QED BY <2>1, <2>2
<1>5. FifoInv(b) /\ MissOf(View(b), View(r), k)
    <2>1. k \notin DOMAIN r.entries
        BY <1>1
    <2> QED BY <1>1, <2>1, EnteredIsMiss DEF n
<1> QED BY <1>1, <1>4, <1>5

(* The empty cache.                                                        *)
LEMMA FifoNewIs ==
    /\ FifoInv(Queues!FifoNew)
    /\ LET c == View(Queues!FifoNew) IN c.s = <<>> /\ c.m = <<>> /\ c.g = <<>> /\ c.freq = <<>>
<1> DEFINE f == Queues!FifoNew
<1>1. /\ f.entries = <<>> /\ f.s = <<>> /\ f.m = <<>> /\ f.s_len = 0 /\ f.m_len = 0 /\ f.ghost = <<>> /\ f.ghost_q = <<>>
      /\ f = [entries |-> <<>>, s |-> <<>>, m |-> <<>>, s_len |-> 0, m_len |-> 0, ghost |-> <<>>, ghost_q |-> <<>>]
    BY DEF Queues!FifoNew
<1> HIDE DEF f
<1>2. IsList(<<>>, QueueSlots) /\ Range(<<>>) = {} /\ DOMAIN <<>> = {}
    BY EmptyIs
<1>3. \A V : <<>> \in Tables(V)
    <2>1. \A V : <<>> \in [{} -> V]
        OBVIOUS
    <2> QED BY <2>1 DEF Tables
<1>4. f \in FifoStates
    <2>1. <<>> \in Seq(QueueSlots) /\ 0 \in Int
        BY <1>2 DEF IsList
    <2> QED BY <1>1, <1>3, <2>1 DEF FifoStates
<1>5. SmallKeys(f.entries) = {} /\ MainKeys(f.entries) = {}
    BY <1>1, <1>2 DEF SmallKeys, MainKeys
<1>6. FifoSlotted(f)
    BY <1>1, <1>2, <1>4, <1>5 DEF FifoSlotted, EntryTags, GhostTags
<1>7. Cardinality({}) = 0 /\ FifoCapacity \in Nat
    BY FS_EmptySet, ReplayAssumption DEF FifoCapacity, Policies
<1>8. FifoCounts(f)
    BY <1>1, <1>2, <1>5, <1>6, <1>7 DEF FifoCounts
<1>9. FifoInv(f)
    BY <1>1, <1>2, <1>7, <1>8 DEF FifoInv, FifoGhosts
<1>10. View(f).s = <<>> /\ View(f).m = <<>>
    BY <1>1, <1>8, CountsOf
<1>11. View(f).g = <<>>
    <2>1. IsList(View(f).g, Objects) /\ Range(View(f).g) = {}
        BY <1>1, <1>2, <1>8, FifoNumbers
    <2> QED BY <2>1, LenIs DEF IsList
<1>12. View(f).freq = <<>>
    <2>1. View(f).freq = Counted(<<>>)
        BY <1>1 DEF View
    <2>2. Counted(<<>>) = <<>>
        BY <1>2 DEF Counted
    <2> QED BY <2>1, <2>2
<1> QED BY <1>9, <1>10, <1>11, <1>12 DEF f

(* What the counters promise.                                              *)
LEMMA FifoHolds ==
    ASSUME NEW f, FifoInv(f)
    PROVE  Queues!FifoBounded(f)
<1>1. FifoCounts(f) /\ FifoGhosts(f) /\ FifoSlotted(f) /\ f.s_len + f.m_len <= FifoCapacity
    BY DEF FifoInv, FifoCounts
<1>2. /\ f.s_len = Len(Queues!LiveS(f)) /\ f.m_len = Len(Queues!LiveM(f))
      /\ f.s_len + f.m_len = Cardinality(DOMAIN f.entries)
      /\ Len(Queues!LiveG(f)) = Cardinality(DOMAIN f.ghost)
    BY <1>1, LiveCounts, FifoNumbers DEF FifoCounts
<1>3. OneEach(Queues!LiveS(f)) /\ OneEach(Queues!LiveM(f))
    BY <1>1, LiveKeys
<1>4. ASSUME NEW q, OneEach(q) PROVE Queues!IsInjective(q)
    <2>1. \A i, j \in DOMAIN q : q[i] = q[j] => i = j
        BY <1>4 DEF OneEach, IsList, IsInjective
    <2> QED BY <2>1 DEF Queues!IsInjective
<1>5. Queues!IsInjective(Queues!LiveS(f)) /\ Queues!IsInjective(Queues!LiveM(f))
    BY <1>3, <1>4
<1>6. /\ Queues!Cardinality(DOMAIN f.entries) = Cardinality(DOMAIN f.entries)
      /\ Queues!Cardinality(DOMAIN f.ghost) = Cardinality(DOMAIN f.ghost)
    BY QueueNames
<1> QED BY <1>1, <1>2, <1>5, <1>6 DEF Queues!FifoBounded, FifoGhosts, FifoCapacity

(* A GET: a counted hit, or a miss.                                        *)
LEMMA FifoAccessIs ==
    ASSUME NEW f, FifoInv(f), NEW k \in Objects
    PROVE  /\ FifoInv(Queues!FifoAccess(f, k))
           /\ k \in DOMAIN f.entries =>
                View(Queues!FifoAccess(f, k)) = [View(f) EXCEPT !.freq[k] = IF @ < FREQ_MAX THEN @ + 1 ELSE @]
           /\ k \notin DOMAIN f.entries => MissOf(View(Queues!FifoAccess(f, k)), EagerRoom(View(f)), k)
<1>1. CASE k \in DOMAIN f.entries
    <2>1. Queues!FifoAccess(f, k) = FifoCounted(f, k)
        BY <1>1 DEF Queues!FifoAccess, Queues!FifoHit, FifoCounted
    <2> QED BY <1>1, <2>1, FifoCountedIs
<1>2. CASE k \notin DOMAIN f.entries
    <2>1. Queues!FifoAccess(f, k) = Queues!Insert(f, k)
        BY <1>2 DEF Queues!FifoAccess, Queues!FifoHit
    <2> QED BY <1>2, <2>1, FifoInsertIs
<1> QED BY <1>1, <1>2

-----------------------------------------------------------------------------
(* The replays.                                                            *)

SimPolicies == {"bytes", "driver", "admission"}

(* What is owed to the tuned pool, and what its bucket has left.           *)
Settled ==
    /\ tokens \in Nat /\ debt \in Nat /\ tokens + debt <= BURST
    /\ policy = "tuned" => due = PoolOwed(cache)

ReplayInv ==
    /\ policy \in Policies /\ Settled
    /\ policy \in SimPolicies => SimInv(cache)
    /\ policy = "s3fifo" => FifoInv(cache)
    /\ policy = "tuned" => PoolInv(cache)

(* What the invariant of the pool promises.                                *)
LEMMA PoolHolds ==
    ASSUME NEW p, PoolInv(p)
    PROVE  /\ Len(p.seg) <= p.cap /\ Cardinality(Pool!Ids(p.seg)) = Len(p.seg)
           /\ p.pf_budget \in 1 .. p.budget_max /\ p.pf_unused = Pool!Unused(p.seg)
<1> DEFINE q == p.seg  R == Range(q)  name == [e \in R |-> e.id]
<1>1. IsList(q, Cell) /\ Keyed(R) /\ Len(q) <= p.cap /\ p.pf_unused = Unused(q) /\ p.pf_budget \in 1 .. p.budget_max
    BY DEF PoolInv, PoolCounts
<1>2. IsFiniteSet(R) /\ Cardinality(R) = Len(q)
    BY <1>1, RangeFinite
<1>3. Pool!Ids(q) = { e.id : e \in R } /\ Pool!Unused(q) = Unused(q)
    BY PoolNames DEF Ids, Range
<1>4. name \in Surjection(R, { e.id : e \in R }) /\ name \in Injection(R, { e.id : e \in R })
    BY <1>1 DEF Surjection, Injection, IsInjective, Range, Keyed
<1>5. Cardinality({ e.id : e \in R }) = Len(q)
    BY <1>2, <1>4, FS_Surjection
<1> QED BY <1>1, <1>3, <1>5

(* The inductive invariant implies that what is counted is held.           *)
LEMMA ReplayHolds == ReplayInv => HeldIsCounted
<1> SUFFICES ASSUME ReplayInv PROVE HeldIsCounted
    OBVIOUS
<1>1. CASE policy \in SimPolicies
    <2>1. Sims!SimBounded(cache)
        BY <1>1, SimHolds DEF ReplayInv
    <2> QED BY <1>1, <2>1 DEF HeldIsCounted, SimPolicies
<1>2. CASE policy = "s3fifo"
    <2>1. Queues!FifoBounded(cache)
        BY <1>2, FifoHolds DEF ReplayInv
    <2> QED BY <1>2, <2>1 DEF HeldIsCounted
<1>3. CASE policy = "tuned"
    <2>1. PoolInv(cache) /\ Settled
        BY <1>3 DEF ReplayInv
    <2>2. due = Pool!Unused(cache.seg) + cache.drops
        BY <1>3, <2>1, PoolNames DEF Settled, PoolOwed
    <2>3. debt <= BURST
        BY <2>1, ReplayAssumption DEF Settled
    <2>4. PoolCounted(cache)
        BY <2>1, <2>2, <2>3, PoolHolds DEF PoolCounted
    <2> QED BY <1>3, <2>4 DEF HeldIsCounted
<1> QED BY <1>1, <1>2, <1>3 DEF ReplayInv, Policies, SimPolicies

(* Every cache starts empty and settled.                                   *)
LEMMA ReplayStart == Init => ReplayInv
<1> SUFFICES ASSUME Init PROVE ReplayInv
    OBVIOUS
<1>1. policy \in Policies /\ tokens = BURST /\ due = 0 /\ debt = 0
    BY DEF Init
<1>2. Slots \in Nat /\ BURST \in Nat
    BY <1>1, ReplayAssumption DEF Slots
<1>3. CASE policy \in SimPolicies
    <2>1. cache = Sims!SimNew(Slots)
        BY <1>3 DEF Init, SimPolicies
    <2>2. SimInv(cache)
        BY <1>2, <2>1, SimNewIs
    <2> QED BY <1>1, <1>2, <1>3, <2>2 DEF ReplayInv, Settled, SimPolicies
<1>4. CASE policy = "s3fifo"
    <2>1. cache = Queues!FifoNew
        BY <1>4 DEF Init
    <2>2. FifoInv(cache)
        BY <2>1, FifoNewIs
    <2> QED BY <1>1, <1>2, <1>4, <2>2 DEF ReplayInv, Settled, SimPolicies
<1>5. CASE policy = "tuned"
    <2> DEFINE most == Most(Slots \div 2, 1)
    <2>1. cache = Pool!PoolNew(Slots, most)
        BY <1>5 DEF Init
    <2>2. most \in Nat
        <3>1. Slots \div 2 \in Nat
            BY <1>2
        <3> QED BY <3>1 DEF Most
    <2> HIDE DEF most
    <2>3. PoolInv(cache) /\ PoolOwed(cache) = 0
        BY <1>2, <2>1, <2>2, PoolNewIs
    <2> QED BY <1>1, <1>2, <1>5, <2>3 DEF ReplayInv, Settled, SimPolicies
<1> QED BY <1>1, <1>3, <1>4, <1>5 DEF Policies, SimPolicies

(* A GET of the tuned pool: what it is owed, and what its bucket pays.     *)
LEMMA BucketIs ==
    ASSUME NEW t \in Nat, NEW d \in Nat, t + d <= BURST, NEW u \in {0, 1}, NEW i \in {0, 1},
           NEW r, r = Least(Least(t + WASTE_RATE, BURST) + u * UNIT, BURST), i = 1 => r >= UNIT
    PROVE  /\ r - i * UNIT \in Nat /\ Most(d - WASTE_RATE - u * UNIT, 0) + i * UNIT \in Nat
           /\ (r - i * UNIT) + (Most(d - WASTE_RATE - u * UNIT, 0) + i * UNIT) <= BURST
<1>1. UNIT \in Nat /\ WASTE_RATE \in Nat /\ BURST \in Nat
    BY ReplayAssumption
<1> DEFINE v == u * UNIT  w == i * UNIT
<1>2. v \in Nat /\ w \in Nat /\ w <= r /\ r \in Nat
    <2>1. CASE i = 0
        <3>1. w = 0
            BY <1>1, <2>1
        <3>2. v \in Nat
            BY <1>1
        <3> HIDE DEF v
        <3> QED BY <1>1, <3>1, <3>2 DEF Least
    <2>2. CASE i = 1
        <3>1. w = UNIT
            BY <1>1, <2>2
        <3>2. v \in Nat
            BY <1>1
        <3> HIDE DEF v
        <3> QED BY <1>1, <2>2, <3>1, <3>2 DEF Least
    <2> QED BY <2>1, <2>2
<1> HIDE DEF v, w
<1>3. r <= BURST /\ r <= t + WASTE_RATE + v
    BY <1>1, <1>2 DEF Least, v
<1>4. Most(d - WASTE_RATE - v, 0) = 0 \/ Most(d - WASTE_RATE - v, 0) = d - WASTE_RATE - v
    BY DEF Most
<1>5. Most(d - WASTE_RATE - v, 0) \in Nat
    BY <1>1, <1>2 DEF Most
<1>6. /\ r - w \in Nat /\ Most(d - WASTE_RATE - v, 0) + w \in Nat
      /\ (r - w) + (Most(d - WASTE_RATE - v, 0) + w) <= BURST
    BY <1>1, <1>2, <1>3, <1>4, <1>5
<1> QED BY <1>6 DEF v, w

(* A GET of the tuned pool keeps its books.                                *)
LEMMA TunedKeeps ==
    ASSUME ReplayInv, NEW k \in Keys, NEW pid \in Keys \cup {None}, GetTuned(k, pid)
    PROVE  ReplayInv'
<1> DEFINE used == IF Pool!PFirstUse(cache, k) THEN 1 ELSE 0
           seen == Pool!PAccess(cache, k)
           paid == IF used = 1 THEN Pool!Reward(seen) ELSE seen
           fetched == IF Pool!PHas(cache, k) THEN paid ELSE Pool!PInsert(paid, k, FALSE)
           issued == IF MayIssue(used) /\ pid \notin {None, k} /\ ~Pool!PHas(fetched, pid) THEN 1 ELSE 0
           after == IF issued = 1 THEN Pool!PInsert(fetched, pid, TRUE) ELSE fetched
           drained == Pool!Drained(Pool!PenalizeBy(after, after.drops))
<1>1. /\ policy = "tuned" /\ policy' = policy
      /\ tokens' = Refilled(used) - issued * UNIT
      /\ debt' = Most(debt - WASTE_RATE - used * UNIT, 0) + issued * UNIT
      /\ cache' = drained
      /\ due' = due + issued - used - after.drops
    BY DEF GetTuned
<1>2. /\ PoolInv(cache) /\ due = PoolOwed(cache) /\ k \in Objects
      /\ tokens \in Nat /\ debt \in Nat /\ tokens + debt <= BURST
    BY <1>1, ReplayAssumption DEF ReplayInv, Settled, Keys, Policies
<1>3. used \in {0, 1} /\ issued \in {0, 1} /\ (issued = 1 => Refilled(used) >= UNIT)
    <2>1. used \in {0, 1}
        OBVIOUS
    <2> HIDE DEF used, fetched
    <2>2. issued \in {0, 1} /\ (issued = 1 => MayIssue(used))
        OBVIOUS
    <2> HIDE DEF issued
    <2> QED BY <2>1, <2>2 DEF MayIssue
<1>4. PoolInv(seen) /\ PoolOwed(seen) = PoolOwed(cache) - used
    BY <1>2, PoolAccessIs
<1> HIDE DEF seen, used
<1>5. PoolInv(paid) /\ PoolOwed(paid) = PoolOwed(cache) - used
    BY <1>4, RewardIs
<1> HIDE DEF paid
<1>6. PoolInv(fetched) /\ PoolOwed(fetched) = PoolOwed(cache) - used
    <2>1. FALSE \in BOOLEAN
        OBVIOUS
    <2> DEFINE b == Pool!PInsert(paid, k, FALSE)
    <2>2. PoolInv(b) /\ PoolOwed(b) = PoolOwed(paid) + 0
        BY <1>2, <1>5, <2>1, PoolInsertIs
    <2>3. PoolOwed(paid) + 0 = PoolOwed(paid)
        BY <1>5, PoolNumbers DEF PoolInv
    <2> HIDE DEF b
    <2>4. CASE Pool!PHas(cache, k)
        <3>1. fetched = paid
            BY <2>4
        <3> QED BY <1>5, <3>1
    <2>5. CASE ~Pool!PHas(cache, k)
        <3>1. fetched = b
            BY <2>5 DEF b
        <3> QED BY <1>5, <2>2, <2>3, <3>1
    <2> QED BY <2>4, <2>5
<1> HIDE DEF fetched
<1>7. PoolInv(after) /\ PoolOwed(after) = PoolOwed(cache) - used + issued
    <2>1. PoolOwed(cache) \in Nat /\ used \in Int
        BY <1>2, <1>3, PoolNumbers DEF PoolInv
    <2>2. CASE issued = 1
        <3>1. pid \in Objects /\ TRUE \in BOOLEAN /\ ~Pool!PHas(fetched, pid)
            BY <1>1, <2>2, ReplayAssumption DEF Keys, Policies
        <3> DEFINE b == Pool!PInsert(fetched, pid, TRUE)
        <3>2. PoolInv(b) /\ PoolOwed(b) = PoolOwed(fetched) + 1
            BY <1>6, <3>1, PoolInsertIs
        <3>3. after = b
            BY <2>2
        <3> HIDE DEF b, after, issued
        <3> QED BY <1>6, <2>1, <2>2, <3>2, <3>3
    <2>3. CASE issued = 0
        <3>0. issued # 1
            BY <2>3
        <3> HIDE DEF issued
        <3>1. after = fetched
            BY <3>0
        <3> HIDE DEF after
        <3> QED BY <1>6, <2>1, <2>3, <3>1
    <2> QED BY <1>3, <2>2, <2>3
<1> HIDE DEF after, issued
<1>8. PoolInv(drained) /\ drained.drops = 0 /\ PoolOwed(drained) = PoolOwed(after) - after.drops /\ after.drops \in Nat
      /\ PoolOwed(cache) \in Nat
    <2>1. after.drops \in Nat /\ PoolOwed(cache) \in Nat
        BY <1>2, <1>7, PoolNumbers DEF PoolInv
    <2> QED BY <1>7, <2>1, PenalizedIs
<1> HIDE DEF drained
<1>9. tokens' \in Nat /\ debt' \in Nat /\ tokens' + debt' <= BURST
    <2> DEFINE r == Refilled(used)
    <2>1. r = Least(Least(tokens + WASTE_RATE, BURST) + used * UNIT, BURST)
        BY DEF Refilled
    <2>2. issued = 1 => r >= UNIT
        BY <1>3
    <2>3. tokens' = r - issued * UNIT
        BY <1>1
    <2> HIDE DEF r
    <2>4. /\ r - issued * UNIT \in Nat /\ Most(debt - WASTE_RATE - used * UNIT, 0) + issued * UNIT \in Nat
          /\ (r - issued * UNIT) + (Most(debt - WASTE_RATE - used * UNIT, 0) + issued * UNIT) <= BURST
        BY <1>2, <1>3, <2>1, <2>2, BucketIs
    <2> QED BY <1>1, <2>3, <2>4
<1>10. due' = PoolOwed(drained)
    <2>1. used \in Int /\ issued \in Int
        BY <1>3
    <2> QED BY <1>1, <1>2, <1>7, <1>8, <2>1
<1>11. /\ policy' = "tuned" /\ PoolInv(cache') /\ due' = PoolOwed(cache')
    BY <1>1, <1>8, <1>10
<1>12. PoolInv(cache)' /\ Settled'
    <2>1. PoolOwed(cache)' = PoolOwed(cache')
        BY DEF PoolOwed
    <2>2. PoolInv(cache)' = PoolInv(cache')
        BY DEF PoolInv, PoolCounts
    <2> QED BY <1>9, <1>11, <2>1, <2>2 DEF Settled
<1> QED BY <1>11, <1>12 DEF ReplayInv, SimPolicies, Policies

(* A GET of the LRU simulator, in bytes or of an admitted object.          *)
LEMMA SimKeeps ==
    ASSUME ReplayInv, policy \in SimPolicies, UNCHANGED ledger, SimInv(cache')
    PROVE  ReplayInv'
<1>1. policy' = policy /\ tokens' = tokens /\ due' = due /\ debt' = debt /\ policy # "tuned" /\ policy # "s3fifo"
    BY DEF ledger, SimPolicies
<1>2. Settled'
    BY <1>1 DEF ReplayInv, Settled
<1>3. SimInv(cache)'
    BY DEF SimInv, SimCounts
<1> QED BY <1>1, <1>2, <1>3 DEF ReplayInv

(* A GET of S3-FIFO.                                                       *)
LEMMA FifoKeeps ==
    ASSUME ReplayInv, policy = "s3fifo", UNCHANGED ledger, FifoInv(cache')
    PROVE  ReplayInv'
<1>1. policy' = policy /\ tokens' = tokens /\ due' = due /\ debt' = debt /\ policy # "tuned" /\ policy \notin SimPolicies
    BY DEF ledger, SimPolicies
<1>2. Settled'
    BY <1>1 DEF ReplayInv, Settled
<1>3. FifoInv(cache)'
    OBVIOUS
<1> QED BY <1>1, <1>2, <1>3 DEF ReplayInv

LEMMA GetKeeps ==
    ASSUME ReplayInv, NEW k \in Keys, NEW size \in Nat, NEW hotter,
           GetBytes(k, size) \/ GetAdmitted(k, hotter) \/ GetFifo(k)
    PROVE  ReplayInv'
<1>1. k \in Objects
    BY ReplayAssumption DEF Keys, ReplayInv
<1>2. CASE GetBytes(k, size)
    <2>1. policy \in SimPolicies /\ UNCHANGED ledger /\ cache' = DemandSim(cache, k, size)
        BY <1>2 DEF GetBytes, SimPolicies
    <2>2. SimInv(cache')
        BY <1>1, <2>1, DemandIs DEF ReplayInv
    <2> QED BY <2>1, <2>2, SimKeeps
<1>3. CASE GetAdmitted(k, hotter)
    <2>1. policy \in SimPolicies /\ UNCHANGED ledger /\ (cache' = DemandSim(cache, k, 1) \/ cache' = cache)
        BY <1>3 DEF GetAdmitted, SimPolicies
    <2>2. SimInv(cache) /\ SimInv(DemandSim(cache, k, 1))
        BY <1>1, <2>1, DemandIs DEF ReplayInv
    <2> QED BY <2>1, <2>2, SimKeeps
<1>4. CASE GetFifo(k)
    <2>1. policy = "s3fifo" /\ UNCHANGED ledger /\ cache' = Queues!FifoAccess(cache, k)
        BY <1>4 DEF GetFifo
    <2>2. FifoInv(cache')
        BY <1>1, <2>1, FifoAccessIs DEF ReplayInv
    <2> QED BY <2>1, <2>2, FifoKeeps
<1> QED BY <1>2, <1>3, <1>4

(* A GET with the prefetches that follow it.                               *)
LEMMA DrivenKeeps ==
    ASSUME ReplayInv, NEW k \in Keys, NEW ranked \in Predictions, GetDriven(k, ranked)
    PROVE  ReplayInv'
<1>1. k \in Objects /\ Keys \subseteq Objects
    BY ReplayAssumption DEF Keys, ReplayInv
<1>2. policy \in SimPolicies /\ UNCHANGED ledger /\ cache' = Speculated(DemandSim(cache, k, 1), ranked)
    BY DEF GetDriven, SimPolicies
<1>3. PICK n \in 0 .. k_for_cap : ranked \in [1 .. n -> Keys]
    BY DEF Predictions
<1>4. n \in Nat /\ ranked \in [1 .. n -> Objects]
    BY <1>1, <1>3
<1> DEFINE d == DemandSim(cache, k, 1)
<1>5. SimInv(d)
    BY <1>1, <1>2, DemandIs DEF ReplayInv
<1> HIDE DEF d
<1>6. SimInv(Speculated(d, ranked))
    BY <1>4, <1>5, SpeculatedIs
<1> QED BY <1>2, <1>6, SimKeeps DEF d

(* A write to any of the caches.                                           *)
LEMMA WriteKeeps ==
    ASSUME ReplayInv, NEW k \in Keys, Invalidate(k)
    PROVE  ReplayInv'
<1>1. k \in Objects
    BY ReplayAssumption DEF Keys, ReplayInv
<1>2. cache' = Written(k) /\ UNCHANGED ledger
    BY DEF Invalidate
<1>3. CASE policy \in SimPolicies
    <2>1. cache' = Sims!SimInvalidate(cache, k)
        BY <1>2, <1>3 DEF Written, SimPolicies
    <2>2. SimInv(cache')
        BY <1>1, <1>3, <2>1, SimInvalidateIs DEF ReplayInv
    <2> QED BY <1>2, <1>3, <2>2, SimKeeps
<1>4. CASE policy = "s3fifo"
    <2>1. cache' = Queues!FifoInvalidate(cache, k)
        BY <1>2, <1>4 DEF Written
    <2>2. FifoInv(cache')
        BY <1>1, <1>4, <2>1, FifoInvalidateIs DEF ReplayInv
    <2> QED BY <1>2, <1>4, <2>2, FifoKeeps
<1>5. CASE policy = "tuned"
    <2>1. cache' = Pool!PInvalidate(cache, k)
        BY <1>2, <1>5 DEF Written
    <2>2. PoolInv(cache') /\ PoolOwed(cache') = PoolOwed(cache)
        BY <1>1, <1>5, <2>1, PoolInvalidateIs DEF ReplayInv
    <2>3. policy' = policy /\ tokens' = tokens /\ due' = due /\ debt' = debt
        BY <1>2 DEF ledger
    <2>4. Settled' /\ PoolInv(cache)'
        <3>1. PoolOwed(cache)' = PoolOwed(cache') /\ PoolInv(cache)' = PoolInv(cache')
            BY DEF PoolOwed, PoolInv, PoolCounts
        <3> QED BY <2>2, <2>3, <3>1 DEF ReplayInv, Settled
    <2> QED BY <1>5, <2>3, <2>4 DEF ReplayInv, SimPolicies
<1> QED BY <1>3, <1>4, <1>5 DEF ReplayInv, Policies, SimPolicies

(* The invariant is inductive.                                             *)
LEMMA ReplayStep == ReplayInv /\ [Next]_vars => ReplayInv'
<1> SUFFICES ASSUME ReplayInv, [Next]_vars PROVE ReplayInv'
    OBVIOUS
<1>1. ASSUME NEW k \in Keys, NEW size \in Sizes, GetBytes(k, size) PROVE ReplayInv'
    <2>1. size \in Nat
        BY ReplayAssumption
    <2> QED BY <1>1, <2>1, GetKeeps
<1>2. ASSUME NEW k \in Keys, NEW hotter \in BOOLEAN, GetAdmitted(k, hotter) PROVE ReplayInv'
    <2>1. 0 \in Nat
        OBVIOUS
    <2> QED BY <1>2, <2>1, GetKeeps
<1>3. ASSUME NEW k \in Keys, GetFifo(k) PROVE ReplayInv'
    <2>1. 0 \in Nat
        OBVIOUS
    <2> QED BY <1>3, <2>1, GetKeeps
<1>4. ASSUME UNCHANGED vars PROVE ReplayInv'
    BY <1>4 DEF vars, ledger, ReplayInv, Settled, PoolOwed, SimInv, SimCounts, PoolInv, PoolCounts, FifoInv
<1> QED BY <1>1, <1>2, <1>3, <1>4, DrivenKeeps, TunedKeeps, WriteKeeps DEF Next

(* The counters of sim.rs, s3fifo.rs and the pool of hybrid.rs agree with  *)
(* what they hold, and stay within the capacity, over every trace of reads *)
(* and writes, whatever the predictor names: in bytes when an entry grows, *)
(* with stale slots in the queues, with prefetches that are used, dropped  *)
(* or written over; and the token bucket bounds what is wasted.            *)
THEOREM ReplayCounts == Spec => []HeldIsCounted
<1>1. Spec => []ReplayInv
    BY ReplayStart, ReplayStep, PTL DEF Spec
<1> QED BY <1>1, ReplayHolds, PTL

-----------------------------------------------------------------------------
(* The refinement: the live slots of the queues are the queues of          *)
(* S3FifoEager.                                                            *)

EagerIs(v) ==
    /\ KeysOf(Queues!LiveS(Fifo)) = v.s /\ KeysOf(Queues!LiveM(Fifo)) = v.m /\ KeysOf(Queues!LiveG(Fifo)) = v.g
    /\ [k \in DOMAIN Fifo.entries |-> Fifo.entries[k].freq] = v.freq

(* The views of the invariant are the variables of S3FifoEager.            *)
LEMMA EagerViews ==
    /\ EagerIs(View(Fifo)) /\ EagerIs(View(Fifo))'
    /\ policy = "s3fifo" => Fifo = cache
    /\ (policy = "s3fifo")' => Fifo' = cache'
    /\ policy # "s3fifo" => Fifo = Queues!FifoNew
    /\ (policy # "s3fifo")' => Fifo' = Queues!FifoNew
<1>1. \A f : /\ View(f).s = KeysOf(Queues!LiveS(f)) /\ View(f).m = KeysOf(Queues!LiveM(f))
             /\ View(f).g = KeysOf(Queues!LiveG(f)) /\ View(f).freq = [k \in DOMAIN f.entries |-> f.entries[k].freq]
    BY DEF View, Counted
<1> QED BY <1>1 DEF EagerIs, Fifo

(* Initial states map to initial states.                                   *)
LEMMA EagerStart == Init => Eager!Init
<1> SUFFICES ASSUME Init PROVE Eager!Init
    OBVIOUS
<1>1. Fifo = Queues!FifoNew
    BY DEF Init, Fifo
<1>2. EagerIs(View(Queues!FifoNew))
    BY <1>1, EagerViews
<1> QED BY <1>2, FifoNewIs DEF Eager!Init, EagerIs

LEMMA EagerRoomIs ==
    ASSUME NEW v, EagerIs(v), v = View(Fifo)
    PROVE  Eager!Room = EagerRoom(v)
<1>1. v = [s |-> v.s, m |-> v.m, g |-> v.g, freq |-> v.freq]
    BY DEF View
<1> QED BY <1>1 DEF Eager!Room, EagerRoom, EagerIs, FifoCapacity

(* A GET maps to a hit, or to the evictions and the insert of a miss.      *)
LEMMA EagerGet ==
    ASSUME FifoInv(Fifo), NEW k \in ObjectsOf["s3fifo"], Fifo' = Queues!FifoAccess(Fifo, k)
    PROVE  Eager!Hit(k) \/ Eager!Miss(k)
<1> DEFINE v == View(Fifo)  w == View(Fifo')
<1>1. k \in Objects
    BY ReplayAssumption DEF Policies
<1>2. EagerIs(v) /\ EagerIs(v)' /\ v' = w
    BY EagerViews
<1>3. /\ k \in DOMAIN Fifo.entries => w = [v EXCEPT !.freq[k] = IF @ < FREQ_MAX THEN @ + 1 ELSE @]
      /\ k \notin DOMAIN Fifo.entries => MissOf(w, EagerRoom(v), k)
    BY <1>1, FifoAccessIs
<1>4. /\ DOMAIN v.freq = DOMAIN Fifo.entries
      /\ v = [s |-> v.s, m |-> v.m, g |-> v.g, freq |-> v.freq]
    BY DEF View, Counted
<1>5. /\ KeysOf(Queues!LiveS(Fifo))' = w.s /\ KeysOf(Queues!LiveM(Fifo))' = w.m /\ KeysOf(Queues!LiveG(Fifo))' = w.g
      /\ [x \in DOMAIN Fifo.entries |-> Fifo.entries[x].freq]' = w.freq
    BY <1>2 DEF EagerIs
<1>6. CASE k \in DOMAIN Fifo.entries
    <2>1. w = [v EXCEPT !.freq[k] = IF @ < FREQ_MAX THEN @ + 1 ELSE @]
        BY <1>3, <1>6
    <2> HIDE DEF v, w
    <2>2. /\ w.s = v.s /\ w.m = v.m /\ w.g = v.g
          /\ w.freq = [v.freq EXCEPT ![k] = IF @ < FREQ_MAX THEN @ + 1 ELSE @]
        BY <1>4, <2>1
    <2>3. Eager!Hit(k)
        BY <1>2, <1>5, <1>6, <2>2 DEF Eager!Hit, EagerIs
    <2> QED BY <2>3
<1>7. CASE k \notin DOMAIN Fifo.entries
    <2>1. MissOf(w, EagerRoom(v), k)
        BY <1>3, <1>7
    <2>2. Eager!Room = EagerRoom(v)
        BY <1>2, EagerRoomIs
    <2> HIDE DEF v, w
    <2>3. Eager!Miss(k)
        BY <1>5, <1>7, <2>1, <2>2 DEF Eager!Miss, MissOf
    <2> QED BY <2>3
<1> QED BY <1>6, <1>7

(* A write maps to a write, which forgets the key at once.                 *)
LEMMA EagerWrite ==
    ASSUME FifoInv(Fifo), NEW k \in ObjectsOf["s3fifo"], Fifo' = Queues!FifoInvalidate(Fifo, k)
    PROVE  Eager!Invalidate(k)
<1> DEFINE v == View(Fifo)  w == View(Fifo')
<1>1. k \in Objects
    BY ReplayAssumption DEF Policies
<1>2. EagerIs(v) /\ EagerIs(v)' /\ v' = w
    BY EagerViews
<1>3. /\ w.s = Eager!Without(v.s, k) /\ w.m = Eager!Without(v.m, k)
      /\ w.g = Eager!Without(v.g, k) /\ w.freq = Eager!Drop(v.freq, k)
    BY <1>1, FifoInvalidateIs
<1>4. /\ KeysOf(Queues!LiveS(Fifo))' = w.s /\ KeysOf(Queues!LiveM(Fifo))' = w.m /\ KeysOf(Queues!LiveG(Fifo))' = w.g
      /\ [x \in DOMAIN Fifo.entries |-> Fifo.entries[x].freq]' = w.freq
    BY <1>2 DEF EagerIs
<1> HIDE DEF v, w
<1> QED BY <1>2, <1>3, <1>4 DEF Eager!Invalidate, EagerIs

EagerVars ==
    <<KeysOf(Queues!LiveS(Fifo)), KeysOf(Queues!LiveM(Fifo)), KeysOf(Queues!LiveG(Fifo)),
      [k \in DOMAIN Fifo.entries |-> Fifo.entries[k].freq]>>

(* Every step of the lazy queues is a step of the eager ones, or none.     *)
LEMMA EagerMoves == ReplayInv /\ [Next]_vars => [Eager!Next]_EagerVars
<1> SUFFICES ASSUME ReplayInv, [Next]_vars PROVE [Eager!Next]_EagerVars
    OBVIOUS
<1>1. ASSUME Fifo' = Fifo PROVE UNCHANGED EagerVars
    BY <1>1 DEF EagerVars
<1>2. policy' = policy
    <2>1. \A k, size : GetBytes(k, size) => policy' = policy
        BY DEF GetBytes, ledger
    <2>2. \A k, hotter : GetAdmitted(k, hotter) => policy' = policy
        BY DEF GetAdmitted, ledger
    <2>3. \A k : GetFifo(k) => policy' = policy
        BY DEF GetFifo, ledger
    <2>4. \A k, ranked : GetDriven(k, ranked) => policy' = policy
        BY DEF GetDriven, ledger
    <2>5. \A k, pid : GetTuned(k, pid) => policy' = policy
        BY DEF GetTuned
    <2>6. \A k : Invalidate(k) => policy' = policy
        BY DEF Invalidate, ledger
    <2>7. UNCHANGED vars => policy' = policy
        BY DEF vars, ledger
    <2> QED BY <2>1, <2>2, <2>3, <2>4, <2>5, <2>6, <2>7 DEF Next
<1>3. CASE policy # "s3fifo"
    BY <1>1, <1>2, <1>3 DEF Fifo
<1>4. CASE policy = "s3fifo"
    <2>1. Fifo = cache /\ Fifo' = cache' /\ FifoInv(Fifo) /\ Keys = ObjectsOf["s3fifo"]
        BY <1>2, <1>4 DEF Fifo, ReplayInv, Keys
    <2>2. ASSUME NEW k \in Keys, GetFifo(k) PROVE Eager!Next
        <3>1. Fifo' = Queues!FifoAccess(Fifo, k) /\ k \in ObjectsOf["s3fifo"]
            BY <2>1, <2>2 DEF GetFifo
        <3>2. Eager!Hit(k) \/ Eager!Miss(k)
            BY <2>1, <3>1, EagerGet
        <3> QED BY <3>1, <3>2 DEF Eager!Next
    <2>3. ASSUME NEW k \in Keys, Invalidate(k) PROVE Eager!Next
        <3>1. Fifo' = Queues!FifoInvalidate(Fifo, k) /\ k \in ObjectsOf["s3fifo"]
            BY <1>4, <2>1, <2>3 DEF Invalidate, Written
        <3>2. Eager!Invalidate(k)
            BY <2>1, <3>1, EagerWrite
        <3> QED BY <3>1, <3>2 DEF Eager!Next
    <2>4. ASSUME UNCHANGED vars PROVE UNCHANGED EagerVars
        BY <1>1, <2>1, <2>4 DEF vars
    <2>5. Next => \E k \in Keys : GetFifo(k) \/ Invalidate(k)
        BY <1>4 DEF Next, GetBytes, GetAdmitted, GetDriven, GetTuned
    <2> QED BY <2>2, <2>3, <2>4, <2>5
<1> QED BY <1>3, <1>4

(* s3fifo.rs leaves stale slots in its queues, by key and epoch; it evicts, *)
(* promotes and remembers exactly as S3-FIFO with queues of keys does: its *)
(* live slots are a refinement of S3FifoEager, for every capacity and trace.*)
THEOREM FifoRefines == Spec => EagerSpec
<1>1. Spec => []ReplayInv
    BY ReplayStart, ReplayStep, PTL DEF Spec
<1> QED BY <1>1, EagerStart, EagerMoves, PTL DEF Spec, EagerSpec, Eager!Spec, EagerVars
=============================================================================
