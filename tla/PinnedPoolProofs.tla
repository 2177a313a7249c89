-------------------------- MODULE PinnedPoolProofs --------------------------
(***************************************************************************)
(* The free list of PinnedPool implements ExtentPool, no byte has two      *)
(* owners, none is lost and largest_free is exact, for a pool of any       *)
(* capacity and alignment, any number of buffers and all requests of at    *)
(* least one byte.                                                         *)
(*                                                                         *)
(* The inductive invariant says of the list what release and alloc rely    *)
(* on: its extents are not empty, they are in order, and between two of    *)
(* them is a byte that is not free, so that a run of free bytes lies in    *)
(* one extent.  A buffer of no bytes breaks it: dropped, it may leave an   *)
(* empty extent, which keeps its neighbours from being merged.             *)
(***************************************************************************)
EXTENDS PinnedPool, FiniteSetTheorems, WellFoundedInduction, TLAPS

FreeExtent == [off : Nat, len : Nat \ {0}]

End(e) == e.off + e.len

Ordered(f) == \A m, n \in DOMAIN f : m < n => End(f[m]) <= f[n].off

Gap(f, n) == End(f[n]) < f[n + 1].off

Gapped(f) == \A n \in 1 .. Len(f) - 1 : Gap(f, n)

\* No extent of f has a byte of the r bytes at o.
Clear(f, o, r) == \A n \in DOMAIN f : End(f[n]) <= o \/ o + r <= f[n].off

Has(f, c) == \E n \in DOMAIN f : f[n].off <= c /\ c < End(f[n])

Live(b) == bufs[b] # Unused

PoolInv ==
  /\ free \in Seq(FreeExtent)
  /\ Ordered(free) /\ Gapped(free)
  /\ bufs \in [Bufs -> [off : Nat, reserved : Nat, len : Int]]
  /\ \A b \in Bufs : Live(b) => /\ bufs[b].reserved > 0
                                /\ Clear(free, bufs[b].off, bufs[b].reserved)
  /\ \A a, b \in Bufs :
       a # b /\ Live(a) /\ Live(b) =>
         \/ bufs[a].off + bufs[a].reserved <= bufs[b].off
         \/ bufs[b].off + bufs[b].reserved <= bufs[a].off

-----------------------------------------------------------------------------
(***************************************************************************)
(* A non-empty set of naturals has a least element.                        *)
(***************************************************************************)
LEMMA LeastElement ==
  ASSUME NEW S, S \subseteq Nat, S # {}
  PROVE  \E n \in S : \A m \in S : n <= m
<1> DEFINE Less == OpToRel(<, Nat)
<1>1. \A m, n \in Nat : m < n => <<m, n>> \in Less
  BY DEF OpToRel
<1>2. IsWellFoundedOn(Less, Nat)
  BY Zenon, NatLessThanWellFounded
<1> HIDE DEF Less
<1>3. PICK n \in S : \A m \in S : ~(<<m, n>> \in Less)
  BY Zenon, <1>2, WFMin
<1>4. ASSUME NEW m \in S PROVE n <= m
  <2>1. m \in Nat /\ n \in Nat
    OBVIOUS
  <2>2. ~(m < n)
    BY Zenon, <1>1, <1>3, <2>1
  <2> QED BY <2>1, <2>2
<1> QED BY <1>4

(***************************************************************************)
(* The elements of two sequences put end to end.                           *)
(***************************************************************************)
LEMMA SeqConcat ==
  ASSUME NEW S, NEW s \in Seq(S), NEW t \in Seq(S)
  PROVE  /\ s \o t \in Seq(S)
         /\ Len(s \o t) = Len(s) + Len(t)
         /\ \A i \in 1..Len(s) + Len(t) :
              (s \o t)[i] = IF i <= Len(s) THEN s[i] ELSE t[i - Len(s)]
  OBVIOUS

(***************************************************************************)
(* The elements of a sequence and one more behind it.                      *)
(***************************************************************************)
LEMMA SeqAppend ==
  ASSUME NEW S, NEW s \in Seq(S), NEW e \in S
  PROVE  /\ Append(s, e) \in Seq(S)
         /\ Len(Append(s, e)) = Len(s) + 1
         /\ \A i \in 1..Len(s) : Append(s, e)[i] = s[i]
         /\ Append(s, e)[Len(s) + 1] = e
  OBVIOUS

(***************************************************************************)
(* The elements of a piece of a sequence.                                  *)
(***************************************************************************)
LEMMA Piece ==
  ASSUME NEW S, NEW f \in Seq(S), NEW m \in Nat \ {0}, NEW n \in Nat, m <= n + 1, n <= Len(f)
  PROVE  /\ SubSeq(f, m, n) \in Seq(S)
         /\ Len(SubSeq(f, m, n)) = n - m + 1
         /\ \A i \in 1 .. n - m + 1 : SubSeq(f, m, n)[i] = f[m + i - 1]
<1>1. \A i \in m .. n : f[i] \in S
  OBVIOUS
<1>2. /\ SubSeq(f, m, n) \in Seq(S)
      /\ Len(SubSeq(f, m, n)) = IF m <= n THEN n - m + 1 ELSE 0
      /\ \A i \in 1 .. n - m + 1 : SubSeq(f, m, n)[i] = f[m + i - 1]
  BY <1>1
<1>3. n - m + 1 = IF m <= n THEN n - m + 1 ELSE 0
  OBVIOUS
<1> QED
  BY <1>2, <1>3, Zenon

(***************************************************************************)
(* What Vec::remove leaves.                                                *)
(***************************************************************************)
LEMMA RemoveAtElements ==
  ASSUME NEW S, NEW f \in Seq(S), NEW i \in 1 .. Len(f)
  PROVE  /\ RemoveAt(f, i) \in Seq(S)
         /\ Len(RemoveAt(f, i)) = Len(f) - 1
         /\ \A n \in 1 .. Len(f) - 1 :
              RemoveAt(f, i)[n] = IF n < i THEN f[n] ELSE f[n + 1]
<1> DEFINE a == SubSeq(f, 1, i - 1)
           b == SubSeq(f, i + 1, Len(f))
<1>0. Len(f) \in Nat /\ i \in Nat /\ i - 1 \in Nat /\ i + 1 \in Nat \ {0}
  OBVIOUS
<1>1. /\ a \in Seq(S) /\ Len(a) = i - 1
      /\ \A n \in 1 .. i - 1 : a[n] = f[n]
  <2>1. /\ a \in Seq(S) /\ Len(a) = (i - 1) - 1 + 1
        /\ \A n \in 1 .. (i - 1) - 1 + 1 : a[n] = f[1 + n - 1]
    BY <1>0, Piece
  <2> HIDE DEF a
  <2> QED
    BY <1>0, <2>1
<1>2. /\ b \in Seq(S) /\ Len(b) = Len(f) - i
      /\ \A n \in 1 .. Len(f) - i : b[n] = f[i + n]
  <2>1. /\ b \in Seq(S) /\ Len(b) = Len(f) - (i + 1) + 1
        /\ \A n \in 1 .. Len(f) - (i + 1) + 1 : b[n] = f[(i + 1) + n - 1]
    BY <1>0, Piece
  <2> HIDE DEF b
  <2> QED
    BY SMTT(60), <1>0, <2>1
<1>3. RemoveAt(f, i) = a \o b
  BY DEF RemoveAt
<1> HIDE DEF a, b
<1>4. /\ a \o b \in Seq(S) /\ Len(a \o b) = Len(a) + Len(b)
      /\ \A n \in 1 .. Len(a) + Len(b) :
           (a \o b)[n] = IF n <= Len(a) THEN a[n] ELSE b[n - Len(a)]
  BY Zenon, <1>1, <1>2, SeqConcat
<1>5. Len(a) + Len(b) = Len(f) - 1
  BY <1>0, <1>1, <1>2
<1>6. ASSUME NEW n \in 1 .. Len(f) - 1
      PROVE  (a \o b)[n] = IF n < i THEN f[n] ELSE f[n + 1]
  <2>1. CASE n < i
    <3>1. n \in 1 .. i - 1 /\ n <= Len(a) /\ n \in 1 .. Len(a) + Len(b)
      BY <1>0, <1>1, <1>5, <2>1
    <3> QED
      BY <1>1, <1>4, <2>1, <3>1
  <2>2. CASE ~(n < i)
    <3>1. /\ n - Len(a) \in 1 .. Len(f) - i /\ ~(n <= Len(a)) /\ n \in 1 .. Len(a) + Len(b)
          /\ i + (n - Len(a)) = n + 1
      BY <1>0, <1>1, <1>5, <2>2
    <3> QED
      BY Zenon, <1>2, <1>4, <2>2, <3>1
  <2> QED
    BY Zenon, <2>1, <2>2
<1> QED
  BY <1>3, <1>4, <1>5, <1>6, Zenon

(***************************************************************************)
(* What Vec::insert makes.                                                 *)
(***************************************************************************)
LEMMA InsertAtElements ==
  ASSUME NEW S, NEW f \in Seq(S), NEW i \in 1 .. Len(f) + 1, NEW e \in S
  PROVE  /\ InsertAt(f, i, e) \in Seq(S)
         /\ Len(InsertAt(f, i, e)) = Len(f) + 1
         /\ \A n \in 1 .. Len(f) + 1 :
              InsertAt(f, i, e)[n] = IF n < i THEN f[n] ELSE IF n = i THEN e ELSE f[n - 1]
<1> DEFINE a == SubSeq(f, 1, i - 1)
           x == Append(a, e)
           b == SubSeq(f, i, Len(f))
<1>0. Len(f) \in Nat /\ i \in Nat \ {0} /\ i - 1 \in Nat
  OBVIOUS
<1>1. /\ a \in Seq(S) /\ Len(a) = i - 1
      /\ \A n \in 1 .. i - 1 : a[n] = f[n]
  <2>1. /\ a \in Seq(S) /\ Len(a) = (i - 1) - 1 + 1
        /\ \A n \in 1 .. (i - 1) - 1 + 1 : a[n] = f[1 + n - 1]
    BY <1>0, Piece
  <2> HIDE DEF a
  <2> QED
    BY <1>0, <2>1
<1>2. /\ b \in Seq(S) /\ Len(b) = Len(f) - i + 1
      /\ \A n \in 1 .. Len(f) - i + 1 : b[n] = f[i + n - 1]
  BY <1>0, Piece
<1> HIDE DEF a, b
<1>3. x \in Seq(S) /\ Len(x) = i /\ (\A n \in 1 .. i - 1 : x[n] = f[n]) /\ x[i] = e
  <2>1. /\ x \in Seq(S) /\ Len(x) = Len(a) + 1
        /\ (\A n \in 1 .. Len(a) : x[n] = a[n]) /\ x[Len(a) + 1] = e
    BY <1>1, SeqAppend
  <2> HIDE DEF x
  <2> QED
    BY <1>0, <1>1, <2>1
<1>4. InsertAt(f, i, e) = x \o b
  <2>1. a \o <<e>> = x
    BY <1>1
  <2> QED
    BY Zenon, <2>1 DEF InsertAt, a, b
<1> HIDE DEF x
<1>5. /\ x \o b \in Seq(S) /\ Len(x \o b) = Len(x) + Len(b)
      /\ \A n \in 1 .. Len(x) + Len(b) :
           (x \o b)[n] = IF n <= Len(x) THEN x[n] ELSE b[n - Len(x)]
  BY <1>2, <1>3, SeqConcat
<1>6. Len(x) + Len(b) = Len(f) + 1
  BY <1>0, <1>2, <1>3
<1>7. ASSUME NEW n \in 1 .. Len(f) + 1
      PROVE  (x \o b)[n] = IF n < i THEN f[n] ELSE IF n = i THEN e ELSE f[n - 1]
  <2>1. CASE n < i
    <3>1. n \in 1 .. i - 1 /\ n <= Len(x) /\ n \in 1 .. Len(x) + Len(b)
      BY <1>0, <1>3, <1>6, <2>1
    <3> QED
      BY <1>3, <1>5, <2>1, <3>1
  <2>2. CASE n = i
    <3>1. n <= Len(x) /\ n \in 1 .. Len(x) + Len(b)
      BY <1>0, <1>3, <1>6, <2>2
    <3> QED
      BY <1>3, <1>5, <2>2, <3>1
  <2>3. CASE n > i
    <3>1. /\ n - Len(x) \in 1 .. Len(f) - i + 1 /\ ~(n <= Len(x)) /\ n \in 1 .. Len(x) + Len(b)
          /\ i + (n - Len(x)) - 1 = n - 1
      BY <1>0, <1>3, <1>6, <2>3
    <3>2. PICK k \in 1 .. Len(f) - i + 1 : k = n - Len(x)
      BY Zenon, <3>1
    <3>3. (x \o b)[n] = b[k] /\ b[k] = f[i + k - 1] /\ i + k - 1 = n - 1
      BY <1>2, <1>5, <3>1, <3>2
    <3>4. ~(n < i) /\ n # i
      BY <1>0, <2>3
    <3> QED
      BY <3>3, <3>4
  <2>4. n < i \/ n = i \/ n > i
    BY <1>0
  <2> QED
    BY <2>1, <2>2, <2>3, <2>4, Zenon
<1> QED
  BY <1>4, <1>5, <1>6, <1>7, Zenon

-----------------------------------------------------------------------------
(***************************************************************************)
(* The extents of a list, one by one.                                      *)
(***************************************************************************)
LEMMA ExtentType ==
  ASSUME NEW f \in Seq(FreeExtent), NEW n \in DOMAIN f
  PROVE  /\ n \in 1 .. Len(f) /\ Len(f) \in Nat /\ DOMAIN f = 1 .. Len(f)
         /\ f[n].off \in Nat /\ f[n].len \in Nat /\ f[n].len > 0
         /\ End(f[n]) \in Nat /\ f[n].off < End(f[n])
<1>1. f[n] \in FreeExtent /\ n \in 1 .. Len(f) /\ Len(f) \in Nat /\ DOMAIN f = 1 .. Len(f)
  OBVIOUS
<1>2. f[n].off \in Nat /\ f[n].len \in Nat /\ f[n].len > 0
  BY <1>1 DEF FreeExtent
<1> QED
  BY <1>1, <1>2 DEF End

(***************************************************************************)
(* The bytes that a list of extents covers.                                *)
(***************************************************************************)
LEMMA CoveredBytes ==
  ASSUME free \in Seq(FreeExtent), NEW c
  PROVE  c \in Covered <=> c \in Int /\ Has(free, c)
<1>1. \A n \in DOMAIN free : free[n].off \in Nat /\ free[n].len \in Nat
  BY ExtentType
<1>2. Covered = UNION {Cells(free[n].off, free[n].len) : n \in DOMAIN free}
  BY DEF Covered, ToSet
<1>3. \A n \in DOMAIN free : c \in Cells(free[n].off, free[n].len) <=>
                               c \in Int /\ free[n].off <= c /\ c < End(free[n])
  BY <1>1 DEF Cells, End
<1> QED
  BY <1>2, <1>3, Zenon DEF Has

(***************************************************************************)
(* The same of the list after a step.                                      *)
(***************************************************************************)
LEMMA CoveredBytesNext ==
  ASSUME free' \in Seq(FreeExtent), NEW c
  PROVE  c \in Covered' <=> c \in Int /\ Has(free', c)
<1>1. \A n \in DOMAIN free' : free'[n].off \in Nat /\ free'[n].len \in Nat
  BY ExtentType
<1>2. Covered' = UNION {Cells(free'[n].off, free'[n].len) : n \in DOMAIN free'}
  BY DEF Covered, ToSet
<1>3. \A n \in DOMAIN free' : c \in Cells(free'[n].off, free'[n].len) <=>
                               c \in Int /\ free'[n].off <= c /\ c < End(free'[n])
  BY <1>1 DEF Cells, End
<1> QED
  BY <1>2, <1>3, Zenon DEF Has

(***************************************************************************)
(* Two extents of an ordered list with gaps never touch.                   *)
(***************************************************************************)
LEMMA NeverTouch ==
  ASSUME NEW f \in Seq(FreeExtent), Ordered(f), Gapped(f),
         NEW m \in DOMAIN f, NEW n \in DOMAIN f, m < n
  PROVE  End(f[m]) < f[n].off
<1>1. /\ m \in 1 .. Len(f) /\ n \in 1 .. Len(f) /\ Len(f) \in Nat
      /\ DOMAIN f = 1 .. Len(f)
  OBVIOUS
<1>2. m \in 1 .. Len(f) - 1 /\ m + 1 \in DOMAIN f
  BY <1>1
<1>3. End(f[m]) < f[m + 1].off
  BY <1>2 DEF Gapped, Gap
<1>4. CASE n = m + 1
  BY <1>3, <1>4
<1>5. CASE n # m + 1
  <2>1. m + 1 < n
    BY <1>1, <1>5
  <2>2. End(f[m + 1]) <= f[n].off
    BY <1>2, <2>1 DEF Ordered
  <2>3. PICK k \in DOMAIN f : k = m + 1
    BY <1>2
  <2>4. /\ End(f[m]) \in Nat /\ f[k].off \in Nat /\ End(f[k]) \in Nat /\ f[n].off \in Nat
        /\ f[k].off < End(f[k])
    BY ExtentType
  <2> QED
    BY <1>3, <2>2, <2>3, <2>4
<1> QED
  BY <1>4, <1>5

(***************************************************************************)
(* A run of bytes that are all free lies in the extent of its first byte.  *)
(***************************************************************************)
LEMMA RunInOneExtent ==
  ASSUME PoolInv, NEW o \in Nat, NEW need \in Nat, need > 0,
         \A c \in Cells(o, need) : Has(free, c)
  PROVE  \E n \in DOMAIN free : free[n].off <= o /\ o + need <= End(free[n])
<1>0. free \in Seq(FreeExtent) /\ Ordered(free) /\ Gapped(free)
  BY DEF PoolInv
<1>1. o \in Cells(o, need)
  BY DEF Cells
<1>2. PICK n \in DOMAIN free : free[n].off <= o /\ o < End(free[n])
  BY <1>1 DEF Has
<1>3. ASSUME ~(o + need <= End(free[n])) PROVE FALSE
  <2>1. PICK c : c = End(free[n])
    OBVIOUS
  <2>2. End(free[n]) \in Nat
    BY <1>0, ExtentType
  <2>3. c \in Cells(o, need)
    BY <1>2, <1>3, <2>1, <2>2 DEF Cells
  <2>4. PICK m \in DOMAIN free : free[m].off <= c /\ c < End(free[m])
    BY <2>3 DEF Has
  <2>5. /\ m \in Nat /\ n \in Nat /\ free[m].off \in Nat /\ End(free[m]) \in Nat
        /\ free[n].off \in Nat /\ free[n].off < End(free[n])
    BY <1>0, ExtentType
  <2>6. CASE m = n
    BY <2>1, <2>2, <2>4, <2>6
  <2>7. CASE n < m
    <3>1. End(free[n]) < free[m].off
      BY <1>0, <2>7, NeverTouch
    <3> QED
      BY <2>1, <2>2, <2>4, <2>5, <3>1
  <2>8. CASE m < n
    <3>1. End(free[m]) < free[n].off
      BY <1>0, <2>8, NeverTouch
    <3> QED
      BY <2>1, <2>2, <2>4, <2>5, <3>1
  <2>9. m = n \/ n < m \/ m < n
    BY <2>5
  <2> QED
    BY <2>6, <2>7, <2>8, <2>9
<1> QED
  BY <1>2, <1>3

(***************************************************************************)
(* The position that alloc finds is the first extent that fits.            *)
(***************************************************************************)
LEMMA FirstThatFits ==
  ASSUME NEW f \in Seq(FreeExtent), NEW need \in Nat,
         NEW i, i = SelectInSeq(f, LAMBDA e : e.len >= need), i # 0
  PROVE  /\ i \in DOMAIN f /\ f[i].len >= need
         /\ \A n \in DOMAIN f : f[n].len >= need => i <= n
<1> DEFINE I == {n \in 1 .. Len(f) : f[n].len >= need}
<1>1. i = IF I # {} THEN Min(I) ELSE 0
  BY DEF SelectInSeq
<1>2. I # {} /\ i = Min(I)
  BY <1>1
<1>3. I \subseteq Nat
  OBVIOUS
<1> HIDE DEF I
<1>4. i \in I /\ \A n \in I : i <= n
  BY Zenon, <1>2, <1>3, LeastElement DEF Min
<1>5. DOMAIN f = 1 .. Len(f)
  OBVIOUS
<1> QED
  BY Zenon, <1>4, <1>5 DEF I

(***************************************************************************)
(* A list whose extents never touch is ordered and has gaps.               *)
(***************************************************************************)
LEMMA ApartSuffices ==
  ASSUME NEW f \in Seq(FreeExtent),
         \A m, n \in DOMAIN f : m < n => End(f[m]) < f[n].off
  PROVE  Ordered(f) /\ Gapped(f)
<1>1. ASSUME NEW m \in DOMAIN f, NEW n \in DOMAIN f, m < n PROVE End(f[m]) <= f[n].off
  BY <1>1, ExtentType
<1>2. ASSUME NEW n \in 1 .. Len(f) - 1 PROVE Gap(f, n)
  <2>1. n \in DOMAIN f /\ n + 1 \in DOMAIN f /\ n < n + 1
    OBVIOUS
  <2> QED
    BY <2>1 DEF Gap
<1> QED
  BY <1>1, <1>2 DEF Ordered, Gapped

(***************************************************************************)
(* Taking a whole extent leaves the others.                                *)
(***************************************************************************)
LEMMA TakeWhole ==
  ASSUME NEW f \in Seq(FreeExtent), Ordered(f), Gapped(f), NEW i \in DOMAIN f,
         NEW g, g = RemoveAt(f, i)
  PROVE  /\ g \in Seq(FreeExtent) /\ Ordered(g) /\ Gapped(g)
         /\ \A c \in Int : Has(g, c) <=> Has(f, c) /\ ~(f[i].off <= c /\ c < End(f[i]))
         /\ \A o, r \in Nat : Clear(f, o, r) => Clear(g, o, r)
         /\ Clear(g, f[i].off, f[i].len)
<1>0. i \in 1 .. Len(f) /\ Len(f) \in Nat /\ DOMAIN f = 1 .. Len(f)
  OBVIOUS
<1>1. /\ g \in Seq(FreeExtent) /\ Len(g) = Len(f) - 1
      /\ \A n \in 1 .. Len(f) - 1 : g[n] = IF n < i THEN f[n] ELSE f[n + 1]
  BY Zenon, <1>0, RemoveAtElements
<1>2. DOMAIN g = 1 .. Len(f) - 1
  BY <1>1
<1> DEFINE h == [n \in DOMAIN g |-> IF n < i THEN n ELSE n + 1]
<1>3. \A n \in DOMAIN g : h[n] \in DOMAIN f /\ h[n] # i /\ g[n] = f[h[n]]
  <2>1. ASSUME NEW n \in DOMAIN g, n < i PROVE h[n] \in DOMAIN f /\ h[n] # i /\ g[n] = f[h[n]]
    BY <1>0, <1>1, <1>2, <2>1
  <2>2. ASSUME NEW n \in DOMAIN g, ~(n < i)
        PROVE  h[n] \in DOMAIN f /\ h[n] # i /\ g[n] = f[h[n]]
    BY <1>0, <1>1, <1>2, <2>2
  <2> QED
    BY <2>1, <2>2
<1>4. \A m, n \in DOMAIN g : m < n => h[m] < h[n]
  BY <1>0, <1>2
<1>5. \A k \in DOMAIN f : k # i => \E n \in DOMAIN g : h[n] = k
  <2>1. ASSUME NEW k \in DOMAIN f, k # i, k < i PROVE k \in DOMAIN g /\ h[k] = k
    BY <1>0, <1>2, <2>1
  <2>2. ASSUME NEW k \in DOMAIN f, k # i, ~(k < i) PROVE k - 1 \in DOMAIN g /\ h[k - 1] = k
    BY <1>0, <1>2, <2>2
  <2> QED
    BY <2>1, <2>2, Zenon
<1> HIDE DEF h
<1>6. Ordered(g) /\ Gapped(g)
  <2>1. ASSUME NEW m \in DOMAIN g, NEW n \in DOMAIN g, m < n PROVE End(g[m]) < g[n].off
    <3>1. h[m] \in DOMAIN f /\ h[n] \in DOMAIN f /\ h[m] < h[n]
      BY <1>3, <1>4, <2>1
    <3>2. End(f[h[m]]) < f[h[n]].off
      BY <3>1, NeverTouch
    <3> QED
      BY <1>3, <3>2, Zenon
  <2> QED
    BY <1>1, <2>1, ApartSuffices
<1>7. ASSUME NEW k \in DOMAIN f, k # i
      PROVE  End(f[k]) <= f[i].off \/ End(f[i]) <= f[k].off
  <2>1. k < i \/ i < k
    BY <1>0, <1>7
  <2> QED
    BY <2>1 DEF Ordered
<1>8. ASSUME NEW c \in Int
      PROVE  Has(g, c) <=> Has(f, c) /\ ~(f[i].off <= c /\ c < End(f[i]))
  <2>1. ASSUME NEW k \in DOMAIN f, k # i, f[k].off <= c, c < End(f[k])
        PROVE  ~(f[i].off <= c /\ c < End(f[i]))
    <3>1. /\ f[k].off \in Nat /\ End(f[k]) \in Nat /\ f[i].off \in Nat /\ End(f[i]) \in Nat
      BY ExtentType
    <3> QED
      BY <1>7, <2>1, <3>1
  <2>2. Has(g, c) <=> \E k \in DOMAIN f : k # i /\ f[k].off <= c /\ c < End(f[k])
    <3>1. ASSUME NEW n \in DOMAIN g, g[n].off <= c, c < End(g[n])
          PROVE  \E k \in DOMAIN f : k # i /\ f[k].off <= c /\ c < End(f[k])
      BY <1>3, <3>1
    <3>2. ASSUME NEW k \in DOMAIN f, k # i, f[k].off <= c, c < End(f[k])
          PROVE  \E n \in DOMAIN g : g[n].off <= c /\ c < End(g[n])
      <4>1. PICK n \in DOMAIN g : h[n] = k
        BY <1>5, <3>2
      <4>2. g[n] = f[k]
        BY <1>3, <4>1
      <4> QED
        BY <3>2, <4>2
    <3> QED
      BY <3>1, <3>2, Zenon DEF Has
  <2> QED
    BY <2>1, <2>2, Zenon DEF Has
<1>9. ASSUME NEW o \in Nat, NEW r \in Nat, Clear(f, o, r) PROVE Clear(g, o, r)
  BY <1>3, <1>9, Zenon DEF Clear
<1>10. Clear(g, f[i].off, f[i].len)
  <2>1. \A n \in DOMAIN g : End(g[n]) <= f[i].off \/ End(f[i]) <= g[n].off
    BY <1>3, <1>7, Zenon
  <2> QED
    BY <2>1 DEF Clear, End
<1> QED
  BY <1>1, <1>6, <1>8, <1>9, <1>10

(***************************************************************************)
(* Taking the front of an extent leaves its rest and the others.           *)
(***************************************************************************)
LEMMA TakeFront ==
  ASSUME NEW f \in Seq(FreeExtent), Ordered(f), Gapped(f), NEW i \in DOMAIN f,
         NEW need \in Nat, need < f[i].len,
         NEW g, g = [f EXCEPT ![i] = Extent(f[i].off + need, f[i].len - need)]
  PROVE  /\ g \in Seq(FreeExtent) /\ Ordered(g) /\ Gapped(g)
         /\ \A c \in Int : Has(g, c) <=> Has(f, c) /\ ~(f[i].off <= c /\ c < f[i].off + need)
         /\ \A o, r \in Nat : Clear(f, o, r) => Clear(g, o, r)
         /\ Clear(g, f[i].off, need)
<1> DEFINE e == f[i]
           x == Extent(e.off + need, e.len - need)
<1>1. e.off \in Nat /\ e.len \in Nat /\ e.len > 0 /\ End(e) \in Nat /\ End(e) = e.off + e.len
  BY ExtentType DEF End
<1>2. x \in FreeExtent /\ x.off = e.off + need /\ End(x) = End(e)
  <2>1. e.len - need \in Nat \ {0} /\ e.off + need \in Nat
        /\ (e.off + need) + (e.len - need) = e.off + e.len
    BY SMTT(60), <1>1
  <2>2. x.off = e.off + need /\ x.len = e.len - need
    BY DEF Extent
  <2>3. x \in FreeExtent
    BY <2>1 DEF Extent, FreeExtent
  <2> QED
    BY <2>1, <2>2, <2>3 DEF End
<1> HIDE DEF x
<1>3. g = [f EXCEPT ![i] = x]
  BY DEF x
<1>4. g \in Seq(FreeExtent) /\ DOMAIN g = DOMAIN f /\ g[i] = x
      /\ \A n \in DOMAIN f : n # i => g[n] = f[n]
  <2> HIDE DEF e
  <2> QED
    BY <1>2, <1>3
<1>5. \A n \in DOMAIN f : f[n].off <= g[n].off /\ End(g[n]) = End(f[n])
                          /\ (n # i => g[n].off = f[n].off)
  <2>1. \A n \in DOMAIN f : f[n].off \in Nat
    BY ExtentType
  <2> QED
    BY SMTT(60), <1>1, <1>2, <1>4, <2>1
<1>6. Ordered(g) /\ Gapped(g)
  <2>1. ASSUME NEW m \in DOMAIN g, NEW n \in DOMAIN g, m < n PROVE End(g[m]) < g[n].off
    <3>1. End(f[m]) < f[n].off
      BY <1>4, <2>1, NeverTouch
    <3>2. End(f[m]) \in Nat /\ f[n].off \in Nat /\ g[n].off \in Nat
      BY Zenon, <1>4, ExtentType
    <3>3. End(g[m]) = End(f[m]) /\ f[n].off <= g[n].off
      BY <1>4, <1>5
    <3> QED
      BY <3>1, <3>2, <3>3
  <2> QED
    BY Zenon, <1>4, <2>1, ApartSuffices
<1>7. ASSUME NEW k \in DOMAIN f, k # i
      PROVE  End(f[k]) <= e.off \/ End(e) <= f[k].off
  <2>1. k < i \/ i < k
    BY <1>7
  <2> QED
    BY <2>1 DEF Ordered
<1>8. ASSUME NEW c \in Int
      PROVE  Has(g, c) <=> Has(f, c) /\ ~(e.off <= c /\ c < e.off + need)
  <2>1. ASSUME NEW k \in DOMAIN f, k # i, f[k].off <= c, c < End(f[k])
        PROVE  ~(e.off <= c /\ c < e.off + need)
    <3>1. f[k].off \in Nat /\ End(f[k]) \in Nat
      BY ExtentType
    <3>2. End(f[k]) <= e.off \/ End(e) <= f[k].off
      BY <1>7, <2>1
    <3>3. need < e.len
      OBVIOUS
    <3> HIDE DEF e
    <3> QED
      BY SMTT(60), <1>1, <2>1, <3>1, <3>2, <3>3
  <2>2. (x.off <= c /\ c < End(x)) <=>
          (e.off <= c /\ c < End(e)) /\ ~(e.off <= c /\ c < e.off + need)
    <3> HIDE DEF e
    <3> QED
      BY <1>1, <1>2
  <2>3. Has(g, c) => Has(f, c) /\ ~(e.off <= c /\ c < e.off + need)
    <3>1. ASSUME NEW k \in DOMAIN g, g[k].off <= c, c < End(g[k])
          PROVE  Has(f, c) /\ ~(e.off <= c /\ c < e.off + need)
      <4>1. CASE k = i
        BY <1>4, <2>2, <3>1, <4>1 DEF Has
      <4>2. CASE k # i
        BY <1>4, <2>1, <3>1, <4>2 DEF Has
      <4> QED
        BY <4>1, <4>2
    <3> QED
      BY <3>1, Zenon DEF Has
  <2>4. ASSUME NEW k \in DOMAIN f, f[k].off <= c, c < End(f[k]),
               ~(e.off <= c /\ c < e.off + need)
        PROVE  Has(g, c)
    <3>1. CASE k = i
      BY <1>4, <2>2, <2>4, <3>1 DEF Has
    <3>2. CASE k # i
      BY <1>4, <2>4, <3>2 DEF Has
    <3> QED
      BY <3>1, <3>2
  <2> QED
    BY <2>3, <2>4, Zenon DEF Has
<1>9. ASSUME NEW o \in Nat, NEW r \in Nat, Clear(f, o, r) PROVE Clear(g, o, r)
  <2>1. ASSUME NEW n \in DOMAIN f PROVE End(g[n]) <= o \/ o + r <= g[n].off
    <3>1. f[n].off \in Nat /\ g[n].off \in Nat /\ End(f[n]) \in Nat
      BY Zenon, <1>4, ExtentType
    <3>2. End(f[n]) <= o \/ o + r <= f[n].off
      BY <1>9 DEF Clear
    <3> QED
      BY <1>5, <3>1, <3>2
  <2> QED
    BY <1>4, <2>1 DEF Clear
<1>10. Clear(g, e.off, need)
  <2>1. ASSUME NEW n \in DOMAIN f PROVE End(g[n]) <= e.off \/ e.off + need <= g[n].off
    <3>1. f[n].off \in Nat /\ End(f[n]) \in Nat
      BY ExtentType
    <3>2. CASE n = i
      BY <1>1, <1>2, <1>4, <3>2
    <3>3. CASE n # i
      <4>1. End(f[n]) <= e.off \/ End(e) <= f[n].off
        BY <1>7, <3>3
      <4>2. g[n] = f[n]
        BY <1>4, <3>3
      <4>3. need < e.len
        OBVIOUS
      <4> HIDE DEF e
      <4> QED
        BY SMTT(60), <1>1, <3>1, <4>1, <4>2, <4>3
    <3> QED
      BY <3>2, <3>3
  <2> QED
    BY <1>4, <2>1 DEF Clear
<1> QED
  BY Zenon, <1>4, <1>6, <1>8, <1>9, <1>10

(***************************************************************************)
(* Merging an extent with the one it touches keeps what the list covers.   *)
(***************************************************************************)
LEMMA MergeKeeps ==
  ASSUME NEW f \in Seq(FreeExtent), Ordered(f), NEW i \in 1 .. Len(f) - 1, Touch(f, i),
         NEW g, g = Merge(f, i)
  PROVE  /\ g \in Seq(FreeExtent) /\ Len(g) = Len(f) - 1 /\ Ordered(g)
         /\ \A n \in 1 .. Len(g) - 1 : Gap(f, IF n < i THEN n ELSE n + 1) => Gap(g, n)
         /\ \A c \in Int : Has(g, c) <=> Has(f, c)
         /\ \A o \in Nat, r \in Nat \ {0} : Clear(f, o, r) => Clear(g, o, r)
<1>0. /\ Len(f) \in Nat /\ DOMAIN f = 1 .. Len(f)
      /\ i \in DOMAIN f /\ i + 1 \in DOMAIN f /\ i \in Nat
  OBVIOUS
<1> DEFINE x == [f[i] EXCEPT !.len = @ + f[i + 1].len]
           f1 == [f EXCEPT ![i] = x]
<1>1. /\ x \in FreeExtent /\ x.off = f[i].off /\ End(x) = End(f[i + 1])
      /\ End(f[i]) = f[i + 1].off
  <2>1. f[i] \in FreeExtent /\ f[i + 1] \in FreeExtent
    BY <1>0
  <2>2. /\ f[i].off \in Nat /\ f[i].len \in Nat \ {0}
        /\ f[i + 1].off \in Nat /\ f[i + 1].len \in Nat \ {0}
    BY SMTT(60), <2>1 DEF FreeExtent
  <2>3. f[i].len + f[i + 1].len \in Nat \ {0}
    BY SMTT(60), <2>2
  <2>4. x \in FreeExtent /\ x.off = f[i].off /\ x.len = f[i].len + f[i + 1].len
    BY Zenon, <2>1, <2>3 DEF FreeExtent
  <2>5. f[i].off + f[i].len = f[i + 1].off
    BY DEF Touch
  <2> HIDE DEF x
  <2> QED
    BY <2>2, <2>4, <2>5 DEF End
<1>2. g = RemoveAt(f1, i + 1)
  BY <1>0 DEF Merge
<1> HIDE DEF x
<1>3. /\ f1 \in Seq(FreeExtent) /\ Len(f1) = Len(f) /\ f1[i] = x
      /\ \A n \in DOMAIN f : n # i => f1[n] = f[n]
  BY <1>0, <1>1
<1> HIDE DEF f1
<1>4. /\ g \in Seq(FreeExtent) /\ Len(g) = Len(f) - 1
      /\ \A n \in 1 .. Len(f) - 1 : g[n] = IF n < i + 1 THEN f1[n] ELSE f1[n + 1]
  <2>1. i + 1 \in 1 .. Len(f1)
    BY <1>0, <1>3
  <2>2. /\ RemoveAt(f1, i + 1) \in Seq(FreeExtent)
        /\ Len(RemoveAt(f1, i + 1)) = Len(f1) - 1
        /\ \A n \in 1 .. Len(f1) - 1 :
             RemoveAt(f1, i + 1)[n] = IF n < i + 1 THEN f1[n] ELSE f1[n + 1]
    BY <1>3, <2>1, RemoveAtElements, Zenon
  <2> QED
    BY <1>2, <1>3, <2>2, Zenon
<1>5. DOMAIN g = 1 .. Len(f) - 1
  BY <1>0, <1>4
<1> DEFINE l == [n \in DOMAIN g |-> IF n < i + 1 THEN n ELSE n + 1]
           r == [n \in DOMAIN g |-> IF n < i THEN n ELSE n + 1]
<1>6. \A n \in DOMAIN g : l[n] \in DOMAIN f /\ r[n] \in DOMAIN f
  BY <1>0, <1>5
<1>7. ASSUME NEW n \in DOMAIN g PROVE g[n].off = f[l[n]].off /\ End(g[n]) = End(f[r[n]])
  <2>1. CASE n < i
    <3>1. n \in DOMAIN f /\ n # i /\ n < i + 1 /\ l[n] = n /\ r[n] = n
      BY <1>0, <1>5, <2>1
    <3> QED
      BY SMTT(60), <1>3, <1>4, <1>5, <3>1
  <2>2. CASE n = i
    <3>1. n < i + 1 /\ l[n] = i /\ r[n] = i + 1
      BY <1>0, <1>5, <2>2
    <3>2. g[n] = x
      BY <1>3, <1>4, <1>5, <2>2, <3>1
    <3> QED
      BY <1>1, <3>1, <3>2
  <2>3. CASE n > i
    <3>1. n + 1 \in DOMAIN f /\ n + 1 # i /\ ~(n < i + 1) /\ l[n] = n + 1 /\ r[n] = n + 1
      BY <1>0, <1>5, <2>3
    <3> QED
      BY SMTT(60), <1>3, <1>4, <1>5, <3>1
  <2>4. n < i \/ n = i \/ n > i
    BY <1>0, <1>5
  <2> QED
    BY <2>1, <2>2, <2>3, <2>4, Zenon
<1>8. \A m, n \in DOMAIN g : m < n => r[m] < l[n]
  BY <1>0, <1>5
<1>9. \A n \in DOMAIN g : (n # i => l[n] = r[n]) /\ (n = i => l[n] = i /\ r[n] = i + 1)
  BY <1>0, <1>5
<1>10. \A k \in DOMAIN f : \E n \in DOMAIN g : l[n] = k \/ r[n] = k
  <2>1. ASSUME NEW k \in DOMAIN f, k < i + 1 PROVE k \in DOMAIN g /\ l[k] = k
    BY <1>0, <1>5, <2>1
  <2>2. ASSUME NEW k \in DOMAIN f, ~(k < i + 1) PROVE k - 1 \in DOMAIN g /\ r[k - 1] = k
    BY <1>0, <1>5, <2>2
  <2> QED
    BY <2>1, <2>2, Zenon
<1>11. ASSUME NEW n \in 1 .. Len(g) - 1, Gap(f, IF n < i THEN n ELSE n + 1)
       PROVE  Gap(g, n)
  <2>1. n \in DOMAIN g /\ n + 1 \in DOMAIN g
    BY <1>0, <1>4, <1>5
  <2>2. r[n] = (IF n < i THEN n ELSE n + 1) /\ l[n + 1] = r[n] + 1
    BY <1>0, <1>5, <2>1
  <2> HIDE DEF l, r
  <2>3. End(f[r[n]]) < f[r[n] + 1].off
    BY <1>11, <2>2 DEF Gap
  <2> QED
    BY <1>7, <2>1, <2>2, <2>3 DEF Gap
<1> HIDE DEF l, r
<1>12. Ordered(g)
  <2>1. ASSUME NEW m \in DOMAIN g, NEW n \in DOMAIN g, m < n PROVE End(g[m]) <= g[n].off
    <3>1. End(f[r[m]]) <= f[l[n]].off
      BY <1>6, <1>8, <2>1 DEF Ordered
    <3> QED
      BY <1>7, <3>1
  <2> QED
    BY <2>1 DEF Ordered
<1>13. ASSUME NEW c \in Int PROVE Has(g, c) <=> Has(f, c)
  <2> DEFINE In(k) == f[k].off <= c /\ c < End(f[k])
             Ing(n) == g[n].off <= c /\ c < End(g[n])
  <2>1. ASSUME NEW n \in DOMAIN g PROVE Ing(n) <=> In(l[n]) \/ In(r[n])
    <3>1. CASE n # i
      BY <1>7, <1>9, <3>1
    <3>2. CASE n = i
      <4>1. /\ f[i].off \in Nat /\ End(f[i]) \in Nat /\ f[i].off < End(f[i])
            /\ f[i + 1].off \in Nat /\ End(f[i + 1]) \in Nat /\ f[i + 1].off < End(f[i + 1])
        BY <1>0, ExtentType
      <4>2. l[n] = i /\ r[n] = i + 1
        BY <1>9, <3>2
      <4>3. (f[i].off <= c /\ c < End(f[i + 1])) <=> In(i) \/ In(i + 1)
        BY SMTT(60), <1>1, <4>1
      <4>4. g[n].off = f[i].off /\ End(g[n]) = End(f[i + 1])
        BY <1>7, <4>2
      <4> HIDE DEF In
      <4> QED
        BY <4>2, <4>3, <4>4
    <3> QED
      BY <3>1, <3>2
  <2> HIDE DEF In, Ing
  <2>2. (\E n \in DOMAIN g : Ing(n)) <=> (\E k \in DOMAIN f : In(k))
    <3>1. ASSUME NEW n \in DOMAIN g, Ing(n) PROVE \E k \in DOMAIN f : In(k)
      BY <1>6, <2>1, <3>1
    <3>2. ASSUME NEW k \in DOMAIN f, In(k) PROVE \E n \in DOMAIN g : Ing(n)
      BY <1>10, <2>1, <3>2
    <3> QED
      BY <3>1, <3>2, Zenon
  <2> QED
    BY <2>2 DEF In, Ing, Has
<1>14. ASSUME NEW o \in Nat, NEW q \in Nat \ {0}, Clear(f, o, q) PROVE Clear(g, o, q)
  <2>1. ASSUME NEW n \in DOMAIN g PROVE End(g[n]) <= o \/ o + q <= g[n].off
    <3>1. CASE n # i
      <4>1. End(f[l[n]]) <= o \/ o + q <= f[l[n]].off
        BY <1>6, <1>14 DEF Clear
      <4>2. l[n] = r[n]
        BY <1>9, <3>1
      <4> QED
        BY <1>7, <4>1, <4>2
    <3>2. CASE n = i
      <4>1. /\ f[i].off \in Nat /\ End(f[i]) \in Nat
            /\ f[i + 1].off \in Nat /\ End(f[i + 1]) \in Nat
        BY <1>0, ExtentType
      <4>2. l[n] = i /\ r[n] = i + 1
        BY <1>9, <3>2
      <4>3. g[n].off = f[i].off /\ End(g[n]) = End(f[i + 1])
        BY <1>7, <4>2
      <4>4. /\ End(f[i]) <= o \/ o + q <= f[i].off
            /\ End(f[i + 1]) <= o \/ o + q <= f[i + 1].off
        BY <1>0, <1>14 DEF Clear
      <4>5. ~(End(f[i]) <= o /\ o + q <= f[i + 1].off)
        BY <1>1, <4>1
      <4> QED
        BY <4>3, <4>4, <4>5
    <3> QED
      BY <3>1, <3>2
  <2> QED
    BY <2>1 DEF Clear
<1> QED
  BY <1>4, <1>11, <1>12, <1>13, <1>14

(***************************************************************************)
(* Putting an extent in its place: the list stays in order, and it has     *)
(* gaps except, perhaps, on the two sides of the new extent.               *)
(***************************************************************************)
LEMMA InsertKeeps ==
  ASSUME NEW f \in Seq(FreeExtent), Ordered(f), Gapped(f),
         NEW off \in Nat, NEW len \in Nat \ {0}, Clear(f, off, len),
         NEW i \in 1 .. Len(f) + 1,
         \A n \in DOMAIN f : n < i <=> f[n].off < off,
         NEW g, g = InsertAt(f, i, Extent(off, len))
  PROVE  /\ g \in Seq(FreeExtent) /\ Len(g) = Len(f) + 1 /\ Ordered(g)
         /\ \A n \in 1 .. Len(g) - 1 : n # i - 1 /\ n # i => Gap(g, n)
         /\ \A c \in Int : Has(g, c) <=> Has(f, c) \/ (off <= c /\ c < off + len)
         /\ \A o, r \in Nat :
              Clear(f, o, r) /\ (off + len <= o \/ o + r <= off) => Clear(g, o, r)
<1> DEFINE x == Extent(off, len)
<1>0. Len(f) \in Nat /\ DOMAIN f = 1 .. Len(f) /\ i \in Nat
  OBVIOUS
<1>1. x \in FreeExtent /\ x.off = off /\ End(x) = off + len
  BY DEF Extent, FreeExtent, End
<1> HIDE DEF x
<1>2. /\ g \in Seq(FreeExtent) /\ Len(g) = Len(f) + 1
      /\ \A n \in 1 .. Len(f) + 1 :
           g[n] = IF n < i THEN f[n] ELSE IF n = i THEN x ELSE f[n - 1]
  <2>1. g = InsertAt(f, i, x)
    BY DEF x
  <2>2. /\ InsertAt(f, i, x) \in Seq(FreeExtent)
        /\ Len(InsertAt(f, i, x)) = Len(f) + 1
        /\ \A n \in 1 .. Len(f) + 1 :
             InsertAt(f, i, x)[n] = IF n < i THEN f[n] ELSE IF n = i THEN x ELSE f[n - 1]
    BY <1>1, InsertAtElements
  <2> QED
    BY <2>1, <2>2, Zenon
<1>3. DOMAIN g = 1 .. Len(f) + 1
  BY <1>0, <1>2
<1> DEFINE h == [n \in DOMAIN g |-> IF n < i THEN n ELSE n - 1]
<1>4. g[i] = x /\ i \in DOMAIN g
  BY <1>0, <1>2, <1>3
<1>5. ASSUME NEW n \in DOMAIN g, n # i PROVE h[n] \in DOMAIN f /\ g[n] = f[h[n]]
  <2>1. CASE n < i
    BY <1>0, <1>2, <1>3, <2>1
  <2>2. CASE ~(n < i)
    BY <1>0, <1>2, <1>3, <1>5, <2>2
  <2> QED
    BY <2>1, <2>2
<1>6. \A m, n \in DOMAIN g : m < n /\ m # i /\ n # i => h[m] < h[n]
  BY <1>0, <1>3
<1>7. \A k \in DOMAIN f : \E n \in DOMAIN g : n # i /\ h[n] = k
  <2>1. ASSUME NEW k \in DOMAIN f, k < i PROVE k \in DOMAIN g /\ k # i /\ h[k] = k
    BY <1>0, <1>3, <2>1
  <2>2. ASSUME NEW k \in DOMAIN f, ~(k < i)
        PROVE  k + 1 \in DOMAIN g /\ k + 1 # i /\ h[k + 1] = k
    BY <1>0, <1>3, <2>2
  <2> QED
    BY <2>1, <2>2, Zenon
<1>8. \A n \in DOMAIN g : (n < i => h[n] < i) /\ (n > i => ~(h[n] < i))
  BY <1>0, <1>3
<1>9. ASSUME NEW n \in 1 .. Len(g) - 1, n # i - 1, n # i PROVE Gap(g, n)
  <2>1. /\ n \in DOMAIN g /\ n + 1 \in DOMAIN g /\ n + 1 # i
        /\ h[n + 1] = h[n] + 1 /\ h[n] \in 1 .. Len(f) - 1
    BY <1>0, <1>2, <1>3, <1>9
  <2> HIDE DEF h
  <2>2. Gap(f, h[n])
    BY <2>1 DEF Gapped
  <2>3. g[n] = f[h[n]] /\ g[n + 1] = f[h[n] + 1]
    BY SMTT(60), <1>5, <1>9, <2>1
  <2> QED
    BY <2>2, <2>3 DEF Gap
<1> HIDE DEF h
<1>10. ASSUME NEW k \in DOMAIN f
       PROVE  (k < i => End(f[k]) <= off) /\ (~(k < i) => off + len <= f[k].off)
  <2>1. f[k].off \in Nat /\ End(f[k]) \in Nat /\ f[k].off < End(f[k])
    BY ExtentType
  <2>2. End(f[k]) <= off \/ off + len <= f[k].off
    BY DEF Clear
  <2>3. k < i <=> f[k].off < off
    OBVIOUS
  <2>4. ~(f[k].off < off /\ off + len <= f[k].off) /\ ~(~(f[k].off < off) /\ End(f[k]) <= off)
    BY <2>1
  <2> QED
    BY <2>2, <2>3, <2>4, Zenon
<1>11. Ordered(g)
  <2>1. ASSUME NEW m \in DOMAIN g, NEW n \in DOMAIN g, m < n PROVE End(g[m]) <= g[n].off
    <3>1. CASE m # i /\ n # i
      <4>1. End(f[h[m]]) <= f[h[n]].off
        BY <1>5, <1>6, <2>1, <3>1 DEF Ordered
      <4> QED
        BY <1>5, <3>1, <4>1
    <3>2. CASE m = i
      <4>1. n # i /\ n > i
        BY <1>0, <1>3, <2>1, <3>2
      <4>2. h[n] \in DOMAIN f /\ g[n] = f[h[n]] /\ ~(h[n] < i)
        BY <1>5, <1>8, <4>1
      <4> QED
        BY <1>1, <1>4, <1>10, <3>2, <4>2, Zenon
    <3>3. CASE n = i
      <4>1. m # i /\ m < i
        BY <1>0, <1>3, <2>1, <3>3
      <4>2. h[m] \in DOMAIN f /\ g[m] = f[h[m]] /\ h[m] < i
        BY <1>5, <1>8, <4>1
      <4> QED
        BY <1>1, <1>4, <1>10, <3>3, <4>2, Zenon
    <3> QED
      BY <3>1, <3>2, <3>3
  <2> QED
    BY <2>1 DEF Ordered
<1>12. ASSUME NEW c \in Int
       PROVE  Has(g, c) <=> Has(f, c) \/ (off <= c /\ c < off + len)
  <2>1. ASSUME NEW n \in DOMAIN g, g[n].off <= c, c < End(g[n])
        PROVE  Has(f, c) \/ (off <= c /\ c < off + len)
    <3>1. CASE n = i
      BY <1>1, <1>4, <2>1, <3>1
    <3>2. CASE n # i
      BY <1>5, <2>1, <3>2 DEF Has
    <3> QED
      BY <3>1, <3>2
  <2>2. ASSUME NEW k \in DOMAIN f, f[k].off <= c, c < End(f[k]) PROVE Has(g, c)
    <3>1. PICK n \in DOMAIN g : n # i /\ h[n] = k
      BY <1>7
    <3>2. g[n] = f[k]
      BY <1>5, <3>1
    <3> QED
      BY <2>2, <3>2 DEF Has
  <2>3. ASSUME off <= c, c < off + len PROVE Has(g, c)
    BY <1>1, <1>4, <2>3 DEF Has
  <2> QED
    BY <2>1, <2>2, <2>3, Zenon DEF Has
<1>13. ASSUME NEW o \in Nat, NEW r \in Nat, Clear(f, o, r), off + len <= o \/ o + r <= off
       PROVE  Clear(g, o, r)
  <2>1. ASSUME NEW n \in DOMAIN g PROVE End(g[n]) <= o \/ o + r <= g[n].off
    <3>1. CASE n = i
      BY <1>1, <1>4, <1>13, <3>1
    <3>2. CASE n # i
      BY <1>5, <1>13, <3>2 DEF Clear
    <3> QED
      BY <3>1, <3>2
  <2> QED
    BY <2>1 DEF Clear
<1> QED
  BY <1>2, <1>9, <1>11, <1>12, <1>13

(***************************************************************************)
(* partition_point: the extents that start below off are those before it.  *)
(***************************************************************************)
LEMMA InsertPoint ==
  ASSUME NEW off \in Nat, free \in Seq(FreeExtent), Ordered(free)
  PROVE  /\ PartitionPoint(off) \in 1 .. Len(free) + 1
         /\ \A n \in DOMAIN free : n < PartitionPoint(off) <=> free[n].off < off
<1> DEFINE S == {n \in 1 .. Len(free) + 1 : n = Len(free) + 1 \/ ~(free[n].off < off)}
<1>0. Len(free) \in Nat /\ DOMAIN free = 1 .. Len(free)
  OBVIOUS
<1>1. PICK i \in S : \A m \in S : i <= m
  <2>1. Len(free) + 1 \in S /\ S \subseteq Nat
    BY <1>0
  <2> HIDE DEF S
  <2> QED
    BY Zenon, <2>1, LeastElement
<1>2. i \in 1 .. Len(free) + 1 /\ (i = Len(free) + 1 \/ ~(free[i].off < off))
  OBVIOUS
<1>3. ASSUME NEW n \in DOMAIN free, n < i PROVE free[n].off < off
  <2>1. n \notin S
    <3>1. ~(i <= n)
      BY <1>0, <1>2, <1>3
    <3> HIDE DEF S
    <3> QED
      BY <1>1, <3>1
  <2>2. n \in 1 .. Len(free) + 1
    BY <1>0
  <2> QED
    BY <2>1, <2>2
<1>4. ASSUME NEW n \in DOMAIN free, ~(n < i) PROVE ~(free[n].off < off)
  <2>1. i \in DOMAIN free /\ ~(free[i].off < off) /\ (n = i \/ i < n)
    BY <1>0, <1>2, <1>4
  <2>2. /\ free[i].off \in Nat /\ End(free[i]) \in Nat /\ free[i].off < End(free[i])
        /\ free[n].off \in Nat
    BY <2>1, ExtentType
  <2>3. ASSUME i < n PROVE End(free[i]) <= free[n].off
    BY <2>1, <2>3 DEF Ordered
  <2> QED
    BY <2>1, <2>2, <2>3
<1> HIDE DEF S
<1>5. {n \in DOMAIN free : free[n].off < off} = 1 .. i - 1
  <2>1. ASSUME NEW n \in 1 .. i - 1 PROVE n \in DOMAIN free /\ n < i
    BY <1>0, <1>2
  <2>2. ASSUME NEW n \in DOMAIN free, free[n].off < off PROVE n \in 1 .. i - 1
    BY <1>0, <1>2, <1>4, <2>2
  <2> QED
    BY <1>3, <2>1, <2>2
<1>6. Cardinality(1 .. i - 1) = i - 1
  <2>1. 1 \in Int /\ i - 1 \in Int /\ ~(1 > i - 1 /\ i - 1 # 0)
    BY <1>0, <1>2
  <2>2. Cardinality(1 .. i - 1) = IF 1 > i - 1 THEN 0 ELSE (i - 1) - 1 + 1
    BY <2>1, FS_Interval
  <2> QED
    BY <2>1, <2>2
<1>7. PartitionPoint(off) = i
  <2>1. (i - 1) + 1 = i
    BY <1>0, <1>2
  <2> QED
    BY Zenon, <1>5, <1>6, <2>1 DEF PartitionPoint
<1> QED
  BY <1>2, <1>3, <1>4, <1>7

(***************************************************************************)
(* release: the list has gaps again, and covers the bytes given back.      *)
(***************************************************************************)
LEMMA ReleaseKeeps ==
  ASSUME NEW off \in Nat, NEW len \in Nat \ {0},
         free \in Seq(FreeExtent), Ordered(free), Gapped(free), Clear(free, off, len),
         NEW g, g = Released(off, len)
  PROVE  /\ g \in Seq(FreeExtent) /\ Ordered(g) /\ Gapped(g)
         /\ \A c \in Int : Has(g, c) <=> Has(free, c) \/ (off <= c /\ c < off + len)
         /\ \A o \in Nat, r \in Nat \ {0} :
              Clear(free, o, r) /\ (off + len <= o \/ o + r <= off) => Clear(g, o, r)
<1>1. PICK i : i = PartitionPoint(off)
  OBVIOUS
<1>2. i \in 1 .. Len(free) + 1 /\ \A n \in DOMAIN free : n < i <=> free[n].off < off
  BY <1>1, InsertPoint, Zenon
<1>3. PICK f1 : f1 = InsertAt(free, i, Extent(off, len))
  OBVIOUS
<1>4. PICK f2 : f2 = MergeBehind(f1, i)
  OBVIOUS
<1>5. g = MergeFront(f2, i)
  BY <1>1, <1>3, <1>4 DEF Released
<1>6. /\ f1 \in Seq(FreeExtent) /\ Len(f1) = Len(free) + 1 /\ Ordered(f1)
      /\ \A n \in 1 .. Len(f1) - 1 : n # i - 1 /\ n # i => Gap(f1, n)
      /\ \A c \in Int : Has(f1, c) <=> Has(free, c) \/ (off <= c /\ c < off + len)
      /\ \A o, r \in Nat :
           Clear(free, o, r) /\ (off + len <= o \/ o + r <= off) => Clear(f1, o, r)
  BY <1>2, <1>3, InsertKeeps
<1>7. /\ f2 \in Seq(FreeExtent) /\ Ordered(f2) /\ Len(f2) \in Nat /\ i <= Len(f2)
      /\ \A n \in 1 .. Len(f2) - 1 : n # i - 1 => Gap(f2, n)
      /\ \A c \in Int : Has(f2, c) <=> Has(f1, c)
      /\ \A o \in Nat, r \in Nat \ {0} : Clear(f1, o, r) => Clear(f2, o, r)
  <2>0. Len(f1) \in Nat /\ i \in Nat /\ i >= 1 /\ i <= Len(f1) /\ Len(free) \in Nat
    BY <1>2, <1>6
  <2>1. CASE i + 1 <= Len(f1) /\ Touch(f1, i)
    <3>1. f2 = Merge(f1, i) /\ i \in 1 .. Len(f1) - 1
      BY <1>4, <2>0, <2>1 DEF MergeBehind
    <3>2. /\ f2 \in Seq(FreeExtent) /\ Len(f2) = Len(f1) - 1 /\ Ordered(f2)
          /\ \A n \in 1 .. Len(f2) - 1 : Gap(f1, IF n < i THEN n ELSE n + 1) => Gap(f2, n)
          /\ \A c \in Int : Has(f2, c) <=> Has(f1, c)
          /\ \A o \in Nat, r \in Nat \ {0} : Clear(f1, o, r) => Clear(f2, o, r)
      BY SMTT(60), <1>6, <2>1, <3>1, MergeKeeps
    <3>3. ASSUME NEW n \in 1 .. Len(f2) - 1, n # i - 1 PROVE Gap(f2, n)
      <4>1. PICK k : k = IF n < i THEN n ELSE n + 1
        OBVIOUS
      <4>2. k \in 1 .. Len(f1) - 1 /\ k # i - 1 /\ k # i
        BY <2>0, <3>2, <3>3, <4>1
      <4> QED
        BY <1>6, <3>2, <4>1, <4>2, Zenon
    <3> QED
      BY <2>0, <2>1, <3>2, <3>3
  <2>2. CASE ~(i + 1 <= Len(f1) /\ Touch(f1, i))
    <3>1. f2 = f1
      BY <1>4, <2>2 DEF MergeBehind
    <3>2. ASSUME i \in 1 .. Len(f1) - 1 PROVE Gap(f1, i)
      <4>1. i \in DOMAIN f1 /\ i + 1 \in DOMAIN f1 /\ i < i + 1 /\ i + 1 <= Len(f1)
        BY <1>6, <2>0, <3>2
      <4>2. End(f1[i]) <= f1[i + 1].off /\ End(f1[i]) # f1[i + 1].off
        BY <1>6, <2>2, <4>1 DEF Ordered, Touch, End
      <4>3. End(f1[i]) \in Nat /\ f1[i + 1].off \in Nat
        BY <1>6, <4>1, ExtentType
      <4> QED
        BY <4>2, <4>3 DEF Gap
    <3> QED
      BY <1>6, <2>0, <3>1, <3>2
  <2> QED
    BY <2>1, <2>2
<1>8. /\ g \in Seq(FreeExtent) /\ Ordered(g)
      /\ \A n \in 1 .. Len(g) - 1 : Gap(g, n)
      /\ \A c \in Int : Has(g, c) <=> Has(f2, c)
      /\ \A o \in Nat, r \in Nat \ {0} : Clear(f2, o, r) => Clear(g, o, r)
  <2>0. i \in Nat /\ i >= 1
    BY <1>2
  <2>1. CASE i > 1 /\ Touch(f2, i - 1)
    <3>1. g = Merge(f2, i - 1) /\ i - 1 \in 1 .. Len(f2) - 1
      BY <1>5, <1>7, <2>0, <2>1 DEF MergeFront
    <3>2. /\ g \in Seq(FreeExtent) /\ Len(g) = Len(f2) - 1 /\ Ordered(g)
          /\ \A n \in 1 .. Len(g) - 1 : Gap(f2, IF n < i - 1 THEN n ELSE n + 1) => Gap(g, n)
          /\ \A c \in Int : Has(g, c) <=> Has(f2, c)
          /\ \A o \in Nat, r \in Nat \ {0} : Clear(f2, o, r) => Clear(g, o, r)
      BY SMTT(60), <1>7, <2>1, <3>1, MergeKeeps
    <3>3. ASSUME NEW n \in 1 .. Len(g) - 1 PROVE Gap(g, n)
      <4>1. PICK k : k = IF n < i - 1 THEN n ELSE n + 1
        OBVIOUS
      <4>2. k \in 1 .. Len(f2) - 1 /\ k # i - 1
        BY <1>7, <2>0, <3>2, <4>1
      <4> QED
        BY <1>7, <3>2, <4>1, <4>2, Zenon
    <3> QED
      BY <3>2, <3>3
  <2>2. CASE ~(i > 1 /\ Touch(f2, i - 1))
    <3>1. g = f2
      BY <1>5, <2>2 DEF MergeFront
    <3>2. ASSUME i - 1 \in 1 .. Len(f2) - 1 PROVE Gap(f2, i - 1)
      <4>1. /\ i - 1 \in DOMAIN f2 /\ i \in DOMAIN f2 /\ i - 1 < i /\ i > 1
            /\ (i - 1) + 1 = i
        BY <1>7, <2>0, <3>2
      <4>2. End(f2[i - 1]) <= f2[i].off /\ End(f2[i - 1]) # f2[i].off
        BY <1>7, <2>2, <4>1 DEF Ordered, Touch, End
      <4>3. End(f2[i - 1]) \in Nat /\ f2[i].off \in Nat
        BY <1>7, <4>1, ExtentType
      <4>4. End(f2[i - 1]) < f2[i].off
        BY <4>2, <4>3
      <4> QED
        BY <4>1, <4>4 DEF Gap
    <3> QED
      BY <1>7, <3>1, <3>2
  <2> QED
    BY <2>1, <2>2
<1>9. Gapped(g)
  BY <1>8 DEF Gapped
<1>10. \A c \in Int : Has(g, c) <=> Has(free, c) \/ (off <= c /\ c < off + len)
  BY <1>6, <1>7, <1>8, Zenon
<1>11. \A o \in Nat, r \in Nat \ {0} :
         Clear(free, o, r) /\ (off + len <= o \/ o + r <= off) => Clear(g, o, r)
  <2>1. \A r \in Nat \ {0} : r \in Nat
    OBVIOUS
  <2> QED
    BY <1>6, <1>7, <1>8, <2>1, Zenon
<1> QED
  BY <1>8, <1>9, <1>10, <1>11, Zenon

-----------------------------------------------------------------------------
(***************************************************************************)
(* Rounding up to a multiple of ALIGN.                                     *)
(***************************************************************************)
LEMMA RoundUpPositive ==
  ASSUME NEW n \in Nat \ {0}
  PROVE  RoundUp(n) \in Nat \ {0}
<1>1. Align \in Nat /\ Align > 0
  BY PinnedAssumption
<1>2. PICK x \in Nat : x = n + Align - 1 /\ x >= Align
  BY <1>1
<1>3. PICK q \in Int : q = x \div Align
  BY <1>1
<1>4. Align * q <= x /\ x < Align * q + Align
  BY <1>1, <1>3
<1>5. q >= 1
  <2>1. ASSUME q <= 0 PROVE Align * q <= 0
    BY <1>1, <2>1
  <2>2. Align * q \in Int
    BY <1>1
  <2> QED
    BY <1>1, <1>2, <1>4, <2>1, <2>2
<1>6. q * Align \in Nat \ {0}
  BY <1>1, <1>5
<1> QED
  BY <1>2, <1>3, <1>6 DEF RoundUp

(***************************************************************************)
(* Take: alloc cuts the reservation off the front of the extent it found.  *)
(***************************************************************************)
LEMMA TakeKeeps ==
  ASSUME NEW need \in Nat \ {0}, free \in Seq(FreeExtent), Ordered(free), Gapped(free),
         NEW i \in DOMAIN free, free[i].len >= need, NEW g, g = Take(i, need)
  PROVE  /\ g \in Seq(FreeExtent) /\ Ordered(g) /\ Gapped(g)
         /\ \A c \in Int : Has(g, c) <=> /\ Has(free, c)
                                         /\ ~(free[i].off <= c /\ c < free[i].off + need)
         /\ \A o, r \in Nat : Clear(free, o, r) => Clear(g, o, r)
         /\ Clear(g, free[i].off, need)
<1>1. CASE free[i].len = need
  <2>1. g = RemoveAt(free, i)
    BY <1>1 DEF Take
  <2>2. End(free[i]) = free[i].off + need
    BY <1>1 DEF End
  <2>3. /\ g \in Seq(FreeExtent) /\ Ordered(g) /\ Gapped(g)
        /\ \A c \in Int : Has(g, c) <=> Has(free, c) /\ ~(free[i].off <= c /\ c < End(free[i]))
        /\ \A o, r \in Nat : Clear(free, o, r) => Clear(g, o, r)
        /\ Clear(g, free[i].off, free[i].len)
    BY Zenon, <2>1, TakeWhole
  <2> QED
    BY <1>1, <2>2, <2>3, Zenon
<1>2. CASE free[i].len # need
  <2>1. need < free[i].len /\ need \in Nat
    <3>1. free[i].len \in Nat
      BY ExtentType
    <3> QED
      BY <1>2, <3>1
  <2>2. g = [free EXCEPT ![i] = Extent(free[i].off + need, free[i].len - need)]
    BY <1>2 DEF Take
  <2> QED
    BY Zenon, <2>1, <2>2, TakeFront
<1> QED
  BY <1>1, <1>2

(***************************************************************************)
(* Runs of free bytes are the runs within the extents.                     *)
(***************************************************************************)
LEMMA RunsInExtents ==
  ASSUME PoolInv, NEW need \in Nat, need > 0, NEW p \in Runs(Covered, need)
  PROVE  /\ p \in Nat
         /\ \E n \in DOMAIN free : free[n].off <= p /\ p + need <= End(free[n])
<1>0. free \in Seq(FreeExtent)
  BY DEF PoolInv
<1>1. p \in Covered /\ Cells(p, need) \subseteq Covered
  BY DEF Runs
<1>2. p \in Int /\ Has(free, p)
  BY <1>0, <1>1, CoveredBytes
<1>3. PICK k \in DOMAIN free : free[k].off <= p
  BY <1>2 DEF Has
<1>4. p \in Nat
  <2>1. free[k].off \in Nat
    BY <1>0, ExtentType
  <2> QED
    BY <1>2, <1>3, <2>1
<1>5. \A c \in Cells(p, need) : Has(free, c)
  BY <1>0, <1>1, CoveredBytes
<1> QED
  BY <1>4, <1>5, RunInOneExtent

(***************************************************************************)
(* A long enough extent starts with a run of free bytes.                   *)
(***************************************************************************)
LEMMA FrontFits ==
  ASSUME PoolInv, NEW need \in Nat, need > 0, NEW i \in DOMAIN free, free[i].len >= need
  PROVE  free[i].off \in Runs(Covered, need)
<1>0. free \in Seq(FreeExtent)
  BY DEF PoolInv
<1>1. PICK off \in Nat : off = free[i].off
  BY <1>0, ExtentType
<1>2. End(free[i]) \in Nat /\ off + need <= End(free[i])
  BY <1>0, <1>1, ExtentType DEF End
<1>3. ASSUME NEW c \in Int, off <= c, c < off + need PROVE c \in Covered
  <2>1. free[i].off <= c /\ c < End(free[i])
    BY <1>1, <1>2, <1>3
  <2> QED
    BY <1>0, <2>1, CoveredBytes DEF Has
<1>4. off \in Covered
  BY <1>3
<1>5. Cells(off, need) \subseteq Covered
  BY <1>3 DEF Cells
<1> QED
  BY <1>1, <1>4, <1>5 DEF Runs

(***************************************************************************)
(* alloc takes the lowest run of free bytes that is long enough, and keeps *)
(* the invariant.                                                          *)
(***************************************************************************)
LEMMA AllocStep ==
  ASSUME PoolInv, NEW b \in Bufs, NEW bytes \in Requests, bytes # 0, Alloc(b, bytes)
  PROVE  /\ PoolInv'
         /\ \E off \in FirstFit(Covered, RoundUp(bytes)) :
              /\ bufs' = [bufs EXCEPT ![b] = [off |-> off, reserved |-> RoundUp(bytes),
                                              len |-> bytes]]
              /\ Covered' = Covered \ Cells(off, RoundUp(bytes))
<1>0. /\ free \in Seq(FreeExtent) /\ Ordered(free) /\ Gapped(free)
      /\ bufs \in [Bufs -> [off : Nat, reserved : Nat, len : Int]]
  BY DEF PoolInv
<1>1. PICK need \in Nat \ {0} : need = RoundUp(bytes)
  BY RoundUpPositive, PinnedAssumption
<1>2. PICK i : i = SelectInSeq(free, LAMBDA e : e.len >= need)
  BY Zenon
<1>3. /\ i # 0 /\ free' = Take(i, need)
      /\ bufs' = [bufs EXCEPT ![b] = [off |-> free[i].off, reserved |-> need, len |-> bytes]]
  BY <1>1, <1>2 DEF Alloc
<1>4. /\ i \in DOMAIN free /\ free[i].len >= need
      /\ \A n \in DOMAIN free : free[n].len >= need => i <= n
  BY Zenon, <1>0, <1>2, <1>3, FirstThatFits
<1>5. PICK off \in Nat : off = free[i].off
  BY <1>0, <1>4, ExtentType
<1>6. PICK end \in Nat : end = End(free[i]) /\ off + need <= end
  BY SMTT(60), <1>0, <1>4, <1>5, ExtentType DEF End
<1>7. /\ free' \in Seq(FreeExtent) /\ Ordered(free') /\ Gapped(free')
      /\ \A c \in Int : Has(free', c) <=> Has(free, c) /\ ~(off <= c /\ c < off + need)
      /\ \A o, r \in Nat : Clear(free, o, r) => Clear(free', o, r)
      /\ Clear(free', off, need)
  BY SMTT(60), <1>0, <1>3, <1>4, <1>5, TakeKeeps
<1>8. Covered' = Covered \ Cells(off, need)
  <2>1. ASSUME NEW c PROVE c \in Covered' <=> c \in Covered /\ c \notin Cells(off, need)
    <3>1. c \in Int => (c \in Cells(off, need) <=> off <= c /\ c < off + need)
      BY DEF Cells
    <3>2. c \in Covered' <=> c \in Int /\ Has(free', c)
      BY <1>7, CoveredBytesNext, Zenon
    <3>3. c \in Covered <=> c \in Int /\ Has(free, c)
      BY <1>0, CoveredBytes, Zenon
    <3> QED
      BY <1>7, <3>1, <3>2, <3>3, Zenon
  <2> QED
    BY <2>1
<1>9. off \in FirstFit(Covered, need)
  <2>1. need \in Nat /\ need > 0
    OBVIOUS
  <2>2. off \in Runs(Covered, need)
    BY <1>4, <1>5, <2>1, FrontFits
  <2>3. ASSUME NEW p \in Runs(Covered, need) PROVE off <= p
    <3>4. p \in Nat /\ \E n \in DOMAIN free : free[n].off <= p /\ p + need <= End(free[n])
      BY <2>1, RunsInExtents
    <3>6. PICK n \in DOMAIN free : free[n].off <= p /\ p + need <= End(free[n])
      BY <3>4
    <3>7. free[n].off \in Nat /\ free[n].len \in Nat /\ End(free[n]) = free[n].off + free[n].len
      BY <1>0, ExtentType DEF End
    <3>8. free[n].len >= need
      BY <3>4, <3>6, <3>7
    <3>9. i <= n /\ n \in Int /\ i \in Int
      BY <1>0, <1>4, <3>8
    <3>10. CASE i = n
      BY <1>5, <3>6, <3>10
    <3>11. CASE i < n
      <4>1. End(free[i]) <= free[n].off
        BY <1>0, <1>4, <3>11 DEF Ordered
      <4> QED
        BY <1>6, <3>4, <3>6, <3>7, <4>1
    <3> QED
      BY <3>9, <3>10, <3>11
  <2> QED
    BY <2>2, <2>3 DEF FirstFit
<1>10. PoolInv'
  <2> DEFINE new == [off |-> off, reserved |-> need, len |-> bytes]
  <2>1. bufs' = [bufs EXCEPT ![b] = new]
    BY <1>3, <1>5
  <2>2. new \in [off : Nat, reserved : Nat, len : Int]
    BY PinnedAssumption
  <2>3. new.off = off /\ new.reserved = need
    OBVIOUS
  <2> HIDE DEF new
  <2>4. /\ bufs' \in [Bufs -> [off : Nat, reserved : Nat, len : Int]] /\ bufs'[b] = new
        /\ \A a \in Bufs : a # b => bufs'[a] = bufs[a]
    BY <1>0, <2>1, <2>2
  <2>5. ASSUME NEW a \in Bufs, a # b, bufs'[a] # Unused
        PROVE  /\ bufs'[a].off = bufs[a].off /\ bufs'[a].reserved = bufs[a].reserved
               /\ bufs[a].off \in Nat /\ bufs[a].reserved \in Nat /\ bufs[a].reserved > 0
               /\ Clear(free, bufs[a].off, bufs[a].reserved) /\ Live(a)
    <3>1. bufs'[a] = bufs[a]
      BY <2>4, <2>5
    <3>2. Live(a)
      BY <2>5, <3>1 DEF Live
    <3> QED
      BY <1>0, <3>1, <3>2 DEF PoolInv
  <2>6. ASSUME NEW a \in Bufs, a # b, bufs'[a] # Unused
        PROVE  \/ bufs'[a].off + bufs'[a].reserved <= off
               \/ off + need <= bufs'[a].off
    <3>1. End(free[i]) <= bufs[a].off \/ bufs[a].off + bufs[a].reserved <= free[i].off
      BY <1>4, <2>5, <2>6 DEF Clear
    <3> QED
      BY <1>5, <1>6, <2>5, <2>6, <3>1
  <2>7. ASSUME NEW a \in Bufs, bufs'[a] # Unused
        PROVE  bufs'[a].reserved > 0 /\ Clear(free', bufs'[a].off, bufs'[a].reserved)
    <3>1. CASE a = b
      BY <1>7, <2>3, <2>4, <3>1
    <3>2. CASE a # b
      BY <1>7, <2>5, <2>7, <3>2
    <3> QED
      BY <3>1, <3>2
  <2>8. ASSUME NEW a \in Bufs, NEW d \in Bufs, a # d, bufs'[a] # Unused, bufs'[d] # Unused
        PROVE  \/ bufs'[a].off + bufs'[a].reserved <= bufs'[d].off
               \/ bufs'[d].off + bufs'[d].reserved <= bufs'[a].off
    <3>1. CASE a = b
      BY <2>3, <2>4, <2>6, <2>8, <3>1
    <3>2. CASE d = b
      BY <2>3, <2>4, <2>6, <2>8, <3>2
    <3>3. CASE a # b /\ d # b
      <4>1. Live(a) /\ Live(d)
        BY <2>5, <2>8, <3>3
      <4>2. \/ bufs[a].off + bufs[a].reserved <= bufs[d].off
            \/ bufs[d].off + bufs[d].reserved <= bufs[a].off
        BY <2>8, <4>1 DEF PoolInv
      <4> QED
        BY <2>4, <3>3, <4>2
    <3> QED
      BY <3>1, <3>2, <3>3
  <2> QED
    BY SMTT(60), <1>7, <2>4, <2>7, <2>8 DEF PoolInv, Live
<1> QED
  BY Zenon, <1>1, <1>3, <1>5, <1>8, <1>9, <1>10

(***************************************************************************)
(* release gives the buffer's bytes back, and keeps the invariant.         *)
(***************************************************************************)
LEMMA DropStep ==
  ASSUME PoolInv, NEW b \in Bufs, Drop(b)
  PROVE  /\ PoolInv' /\ bufs[b].reserved > 0
         /\ bufs' = [bufs EXCEPT ![b] = Unused]
         /\ Covered' = Covered \cup Cells(bufs[b].off, bufs[b].reserved)
<1>0. /\ free \in Seq(FreeExtent) /\ Ordered(free) /\ Gapped(free)
      /\ bufs \in [Bufs -> [off : Nat, reserved : Nat, len : Int]]
      /\ Live(b)
  BY DEF PoolInv, Drop, Live
<1>1. PICK off \in Nat : off = bufs[b].off
  BY <1>0
<1>2. PICK len \in Nat \ {0} : len = bufs[b].reserved
  BY <1>0 DEF PoolInv
<1>3. Clear(free, off, len)
  BY <1>0, <1>1, <1>2 DEF PoolInv
<1>4. free' = Released(off, len) /\ bufs' = [bufs EXCEPT ![b] = Unused]
  BY <1>1, <1>2 DEF Drop
<1>5. /\ free' \in Seq(FreeExtent) /\ Ordered(free') /\ Gapped(free')
      /\ \A c \in Int : Has(free', c) <=> Has(free, c) \/ (off <= c /\ c < off + len)
      /\ \A o \in Nat, r \in Nat \ {0} :
           Clear(free, o, r) /\ (off + len <= o \/ o + r <= off) => Clear(free', o, r)
  BY <1>0, <1>3, <1>4, ReleaseKeeps
<1>6. Covered' = Covered \cup Cells(off, len)
  <2>1. ASSUME NEW c PROVE c \in Covered' <=> c \in Covered \/ c \in Cells(off, len)
    <3>1. c \in Cells(off, len) <=> c \in Int /\ off <= c /\ c < off + len
      BY DEF Cells
    <3>2. c \in Covered' <=> c \in Int /\ Has(free', c)
      BY <1>5, CoveredBytesNext, Zenon
    <3>3. c \in Covered <=> c \in Int /\ Has(free, c)
      BY <1>0, CoveredBytes, Zenon
    <3> QED
      BY <1>5, <3>1, <3>2, <3>3, Zenon
  <2> QED
    BY <2>1
<1>7. PoolInv'
  <2>1. Unused \in [off : Nat, reserved : Nat, len : Int]
    BY DEF Unused
  <2>2. /\ bufs' \in [Bufs -> [off : Nat, reserved : Nat, len : Int]]
        /\ bufs'[b] = Unused
        /\ \A a \in Bufs : a # b => bufs'[a] = bufs[a]
    BY <1>0, <1>4, <2>1
  <2>3. ASSUME NEW a \in Bufs, bufs'[a] # Unused
        PROVE  /\ a # b /\ bufs'[a] = bufs[a] /\ Live(a)
               /\ bufs[a].off \in Nat /\ bufs[a].reserved \in Nat \ {0}
               /\ Clear(free, bufs[a].off, bufs[a].reserved)
    <3>1. a # b /\ bufs'[a] = bufs[a]
      BY <2>2, <2>3
    <3>2. Live(a)
      BY <2>3, <3>1 DEF Live
    <3> QED
      BY <1>0, <3>1, <3>2 DEF PoolInv
  <2>4. ASSUME NEW a \in Bufs, bufs'[a] # Unused
        PROVE  bufs'[a].reserved > 0 /\ Clear(free', bufs'[a].off, bufs'[a].reserved)
    <3>1. off + len <= bufs[a].off \/ bufs[a].off + bufs[a].reserved <= off
      BY <1>0, <1>1, <1>2, <2>3, <2>4 DEF PoolInv
    <3> QED
      BY SMTT(60), <1>5, <2>3, <2>4, <3>1
  <2>5. ASSUME NEW a \in Bufs, NEW d \in Bufs, a # d, bufs'[a] # Unused, bufs'[d] # Unused
        PROVE  \/ bufs'[a].off + bufs'[a].reserved <= bufs'[d].off
               \/ bufs'[d].off + bufs'[d].reserved <= bufs'[a].off
    <3>1. Live(a) /\ Live(d) /\ bufs'[a] = bufs[a] /\ bufs'[d] = bufs[d]
      BY <2>3, <2>5
    <3> QED
      BY <2>5, <3>1 DEF PoolInv
  <2> QED
    BY <1>5, <2>2, <2>4, <2>5 DEF PoolInv, Live
<1> QED
  BY <1>1, <1>2, <1>4, <1>6, <1>7

(***************************************************************************)
(* A new pool has one extent.                                              *)
(***************************************************************************)
LEMMA PoolInit ==
  ASSUME Init
  PROVE  PoolInv /\ Covered = 0 .. Size - 1
<1>1. Size \in Nat \ {0}
  BY RoundUpPositive, PinnedAssumption DEF Size
<1>2. PICK e : e = Extent(0, Size)
  OBVIOUS
<1>3. e \in FreeExtent /\ e.off = 0 /\ End(e) = Size
  BY <1>1, <1>2 DEF Extent, FreeExtent, End
<1>4. free = <<e>>
  BY <1>2 DEF Init
<1>5. free \in Seq(FreeExtent) /\ Len(free) = 1 /\ DOMAIN free = {1} /\ free[1] = e
  BY <1>3, <1>4
<1>6. Ordered(free) /\ Gapped(free)
  BY <1>5 DEF Ordered, Gapped
<1>7. PoolInv
  <2>1. bufs = [b \in Bufs |-> Unused] /\ Unused \in [off : Nat, reserved : Nat, len : Int]
    BY DEF Init, Unused
  <2> QED
    BY <1>5, <1>6, <2>1 DEF PoolInv, Live
<1>8. ASSUME NEW c PROVE c \in Covered <=> c \in 0 .. Size - 1
  <2>1. c \in Covered <=> c \in Int /\ 0 <= c /\ c < Size
    BY <1>3, <1>5, CoveredBytes DEF Has
  <2> QED
    BY <1>1, <2>1
<1> QED
  BY Zenon, <1>7, <1>8

\* What ExtentPool sees of a buffer.
RangeOf(r) == [off |-> r.off, reserved |-> r.reserved]

(***************************************************************************)
(* The terms of ExtentPool under the refinement mapping.                   *)
(***************************************************************************)
LEMMA AbstractTerms ==
  /\ \A F, n : Abstract!FirstFit(F, n) = FirstFit(F, n)
  /\ \A o, n : Abstract!Cells(o, n) = Cells(o, n)
  /\ Abstract!NoBuf = RangeOf(Unused)
BY DEF Abstract!FirstFit, Abstract!Runs, Abstract!Cells, Abstract!NoBuf,
       FirstFit, Runs, Cells, RangeOf, Unused

(***************************************************************************)
(* Every step of the free list is a step of ExtentPool.                    *)
(***************************************************************************)
LEMMA AbstractStep ==
  ASSUME PoolInv, 0 \notin Requests, [Next]_vars
  PROVE  PoolInv' /\ [Abstract!Next]_(Abstract!pvars)
<1> DEFINE abs == [b \in Bufs |-> RangeOf(bufs[b])]
           absNext == [b \in Bufs |-> RangeOf(bufs'[b])]
<1>0. bufs \in [Bufs -> [off : Nat, reserved : Nat, len : Int]]
  BY DEF PoolInv
<1>1. ASSUME NEW b \in Bufs, NEW bytes \in Requests, Alloc(b, bytes)
      PROVE  PoolInv' /\ Abstract!Next
  <2>1. PICK need : need = RoundUp(bytes)
    OBVIOUS
  <2>2. /\ PoolInv'
        /\ \E off \in FirstFit(Covered, need) :
             /\ bufs' = [bufs EXCEPT ![b] = [off |-> off, reserved |-> need, len |-> bytes]]
             /\ Covered' = Covered \ Cells(off, need)
    BY <1>1, <2>1, AllocStep
  <2>3. PICK off \in FirstFit(Covered, need) :
             /\ bufs' = [bufs EXCEPT ![b] = [off |-> off, reserved |-> need, len |-> bytes]]
             /\ Covered' = Covered \ Cells(off, need)
    BY Zenon, <2>2
  <2>4. absNext = [abs EXCEPT ![b] = [off |-> off, reserved |-> need]]
    BY Zenon, <1>0, <2>3 DEF RangeOf
  <2>5. abs[b] = RangeOf(Unused)
    BY <1>1 DEF Alloc
  <2>6. Abstract!Alloc(b, need)
    BY Zenon, <2>3, <2>4, <2>5, AbstractTerms DEF Abstract!Alloc, RangeOf
  <2> QED
    BY <2>1, <2>2, <2>6 DEF Abstract!Next
<1>2. ASSUME NEW b \in Bufs, Drop(b)
      PROVE  PoolInv' /\ Abstract!Next
  <2>1. /\ PoolInv' /\ bufs[b].reserved > 0
        /\ bufs' = [bufs EXCEPT ![b] = Unused]
        /\ Covered' = Covered \cup Cells(bufs[b].off, bufs[b].reserved)
    BY <1>2, DropStep
  <2>2. absNext = [abs EXCEPT ![b] = RangeOf(Unused)]
    BY Zenon, <1>0, <2>1
  <2>3. abs[b] # RangeOf(Unused)
    <3>1. abs[b].reserved > 0 /\ RangeOf(Unused).reserved = 0
      BY <2>1 DEF RangeOf, Unused
    <3> HIDE DEF abs
    <3> QED
      BY <3>1
  <2>4. abs[b].off = bufs[b].off /\ abs[b].reserved = bufs[b].reserved
    BY DEF RangeOf
  <2>5. Abstract!Drop(b)
    BY <2>1, <2>2, <2>3, <2>4, AbstractTerms DEF Abstract!Drop, Abstract!Owned, RangeOf
  <2> QED
    BY <2>1, <2>5 DEF Abstract!Next
<1>3. CASE UNCHANGED vars
  BY <1>3 DEF vars, PoolInv, Ordered, Gapped, Gap, Clear, Live, Covered, Abstract!pvars
<1> QED
  BY <1>1, <1>2, <1>3 DEF Next

(***************************************************************************)
(* For every capacity, alignment, number of buffers and set of requests of *)
(* at least one byte, PinnedPool implements ExtentPool: alloc takes the    *)
(* lowest run of free bytes that is long enough, wherever the frees have   *)
(* left it, and a drop makes exactly the buffer's bytes free.              *)
(***************************************************************************)
THEOREM PinnedImplementsExtentPool ==
  ASSUME 0 \notin Requests
  PROVE  Spec => ImplementsExtentPool
<1>1. Init => PoolInv /\ Abstract!Init
  <2>1. ASSUME Init PROVE PoolInv /\ Abstract!Init
    <3>1. PoolInv /\ Covered = 0 .. Size - 1 /\ bufs = [b \in Bufs |-> Unused]
      BY <2>1, PoolInit DEF Init
    <3> QED
      BY <3>1, AbstractTerms DEF Abstract!Init, RangeOf
  <2> QED
    BY <2>1
<1>2. PoolInv /\ [Next]_vars => PoolInv' /\ [Abstract!Next]_(Abstract!pvars)
  BY AbstractStep
<1> QED
  BY <1>1, <1>2, PTL DEF Spec, ImplementsExtentPool, Abstract!Spec

-----------------------------------------------------------------------------
(***************************************************************************)
(* The bytes of a buffer, as ExtentPool sees them.                         *)
(***************************************************************************)
LEMMA OwnedBytes ==
  /\ \A b \in Bufs : Abstract!Owned(b) = Cells(bufs[b].off, bufs[b].reserved)
  /\ \A b \in Bufs : bufs[b] = Unused => Cells(bufs[b].off, bufs[b].reserved) = {}
  BY DEF Abstract!Owned, Abstract!Cells, Cells, Unused

\* The free bytes and those of the buffers are the bytes of the pool.
Accounted(F, B) == F \cup UNION {Cells(B[b].off, B[b].reserved) : b \in Bufs} = 0 .. Size - 1

(***************************************************************************)
(* alloc moves free bytes to one buffer, and a drop moves them back.       *)
(***************************************************************************)
LEMMA AccountedStep ==
  ASSUME PoolInv, 0 \notin Requests, Accounted(Covered, bufs), [Next]_vars
  PROVE  Accounted(Covered', bufs')
<1> DEFINE own(B, b) == Cells(B[b].off, B[b].reserved)
<1>0. /\ bufs \in [Bufs -> [off : Nat, reserved : Nat, len : Int]]
      /\ Covered \cup UNION {own(bufs, b) : b \in Bufs} = 0 .. Size - 1
  BY DEF PoolInv, Accounted
<1>1. Cells(Unused.off, Unused.reserved) = {}
  BY DEF Cells, Unused
<1>2. ASSUME NEW b \in Bufs, NEW bytes \in Requests, Alloc(b, bytes)
      PROVE  Accounted(Covered', bufs')
  <2>1. PICK need : need = RoundUp(bytes)
    OBVIOUS
  <2>2. \E off \in FirstFit(Covered, need) :
             /\ bufs' = [bufs EXCEPT ![b] = [off |-> off, reserved |-> need, len |-> bytes]]
             /\ Covered' = Covered \ Cells(off, need)
    BY <1>2, <2>1, AllocStep
  <2>3. PICK off \in FirstFit(Covered, need) :
             /\ bufs' = [bufs EXCEPT ![b] = [off |-> off, reserved |-> need, len |-> bytes]]
             /\ Covered' = Covered \ Cells(off, need)
    BY Zenon, <2>2
  <2>4. Cells(off, need) \subseteq Covered
    BY Zenon, <2>3 DEF FirstFit, Runs
  <2>5. bufs[b] = Unused
    BY <1>2 DEF Alloc
  <2>6. own(bufs, b) = {} /\ own(bufs', b) = Cells(off, need)
    BY <1>0, <1>1, <2>3, <2>5
  <2>7. \A a \in Bufs : a # b => own(bufs', a) = own(bufs, a)
    BY <1>0, <2>3
  <2> HIDE DEF own
  <2>8. Covered' \cup UNION {own(bufs', a) : a \in Bufs} = Covered \cup UNION {own(bufs, a) : a \in Bufs}
    BY Zenon, <2>3, <2>4, <2>6, <2>7
  <2> QED
    BY Zenon, <1>0, <2>8 DEF Accounted, own
<1>3. ASSUME NEW b \in Bufs, Drop(b)
      PROVE  Accounted(Covered', bufs')
  <2>1. bufs' = [bufs EXCEPT ![b] = Unused] /\ Covered' = Covered \cup own(bufs, b)
    BY <1>3, DropStep
  <2>2. own(bufs', b) = {}
    BY <1>0, <1>1, <2>1
  <2>3. \A a \in Bufs : a # b => own(bufs', a) = own(bufs, a)
    BY <1>0, <2>1
  <2> HIDE DEF own
  <2>4. Covered' \cup UNION {own(bufs', a) : a \in Bufs} = Covered \cup UNION {own(bufs, a) : a \in Bufs}
    BY Zenon, <2>1, <2>2, <2>3
  <2> QED
    BY Zenon, <1>0, <2>4 DEF Accounted, own
<1>4. CASE UNCHANGED vars
  BY <1>4 DEF vars, Accounted, Covered
<1> QED
  BY <1>2, <1>3, <1>4 DEF Next

(***************************************************************************)
(* For every capacity, alignment, number of buffers and set of requests of *)
(* at least one byte, a byte never belongs to two live buffers, nor to a   *)
(* buffer and the free list, whatever the order of allocations and drops.  *)
(***************************************************************************)
THEOREM BuffersNeverOverlap ==
  ASSUME 0 \notin Requests
  PROVE  Spec => []Abstract!NoOverlap
<1>1. Init => PoolInv
  BY PoolInit
<1>2. PoolInv /\ [Next]_vars => PoolInv'
  BY AbstractStep
<1>3. PoolInv => Abstract!NoOverlap
  <2> SUFFICES ASSUME PoolInv PROVE Abstract!NoOverlap
    OBVIOUS
  <2>0. /\ free \in Seq(FreeExtent)
        /\ bufs \in [Bufs -> [off : Nat, reserved : Nat, len : Int]]
    BY DEF PoolInv
  <2>1. ASSUME NEW a \in Bufs, NEW b \in Bufs, a # b, Live(a), Live(b)
        PROVE  Cells(bufs[a].off, bufs[a].reserved) \cap Cells(bufs[b].off, bufs[b].reserved) = {}
    <3>1. /\ bufs[a].off \in Nat /\ bufs[a].reserved \in Nat
          /\ bufs[b].off \in Nat /\ bufs[b].reserved \in Nat
      BY <2>0
    <3>2. \/ bufs[a].off + bufs[a].reserved <= bufs[b].off
          \/ bufs[b].off + bufs[b].reserved <= bufs[a].off
      BY <2>1 DEF PoolInv
    <3> QED
      BY <3>1, <3>2 DEF Cells
  <2>2. ASSUME NEW b \in Bufs, Live(b)
        PROVE  Cells(bufs[b].off, bufs[b].reserved) \cap Covered = {}
    <3>1. PICK o \in Nat, r \in Nat : o = bufs[b].off /\ r = bufs[b].reserved
      BY <2>0
    <3>2. Clear(free, o, r)
      BY <2>2, <3>1 DEF PoolInv
    <3>3. ASSUME NEW c \in Cells(o, r), c \in Covered PROVE FALSE
      <4>1. c \in Int /\ o <= c /\ c < o + r
        BY <3>1 DEF Cells
      <4>2. Has(free, c)
        BY Zenon, <2>0, <3>3, CoveredBytes
      <4>3. PICK n \in DOMAIN free : free[n].off <= c /\ c < End(free[n])
        BY <4>2 DEF Has
      <4>4. free[n].off \in Nat /\ End(free[n]) \in Nat
        BY <2>0, ExtentType DEF End
      <4> QED
        BY <3>1, <3>2, <4>1, <4>3, <4>4 DEF Clear
    <3> QED
      BY Zenon, <3>1, <3>3
  <2>3. \A b \in Bufs : ~Live(b) => Cells(bufs[b].off, bufs[b].reserved) = {}
    BY Zenon, OwnedBytes DEF Live
  <2>4. /\ \A a, b \in Bufs : a # b => Cells(bufs[a].off, bufs[a].reserved)
                                        \cap Cells(bufs[b].off, bufs[b].reserved) = {}
        /\ \A b \in Bufs : Cells(bufs[b].off, bufs[b].reserved) \cap Covered = {}
    BY Zenon, <2>1, <2>2, <2>3
  <2> QED
    BY Zenon, <2>4, OwnedBytes DEF Abstract!NoOverlap
<1> QED
  BY <1>1, <1>2, <1>3, PTL DEF Spec

(***************************************************************************)
(* Likewise, a byte that no live buffer owns is free to be allocated.      *)
(***************************************************************************)
THEOREM BytesNeverLeak ==
  ASSUME 0 \notin Requests
  PROVE  Spec => []Abstract!NoLeak
<1> DEFINE Inv == PoolInv /\ Accounted(Covered, bufs)
<1>1. Init => Inv
  <2> SUFFICES ASSUME Init PROVE Inv
    OBVIOUS
  <2>1. PoolInv /\ Covered = 0 .. Size - 1 /\ bufs = [b \in Bufs |-> Unused]
    BY PoolInit DEF Init
  <2>2. \A b \in Bufs : Cells(bufs[b].off, bufs[b].reserved) = {}
    BY Zenon, <2>1, OwnedBytes
  <2> QED
    BY <2>1, <2>2 DEF Accounted
<1>2. Inv /\ [Next]_vars => Inv'
  BY AbstractStep, AccountedStep DEF Accounted
<1>3. Inv => Abstract!NoLeak
  BY Zenon, OwnedBytes DEF Accounted, Abstract!NoLeak
<1> QED
  BY <1>1, <1>2, <1>3, PTL DEF Spec

-----------------------------------------------------------------------------
(***************************************************************************)
(* The largest of a bounded set of naturals.                               *)
(***************************************************************************)
LEMMA LargestElement ==
  ASSUME NEW S, S \subseteq Nat, S # {}, NEW bound \in Nat, \A n \in S : n <= bound
  PROVE  Max(S) \in S /\ \A n \in S : n <= Max(S)
<1> DEFINE above == {m \in Nat : \A n \in S : n <= m}
<1>1. bound \in above /\ above \subseteq Nat
  OBVIOUS
<1>2. PICK m \in above : \A k \in above : m <= k
  <2> HIDE DEF above
  <2> QED
    BY Zenon, <1>1, LeastElement
<1>3. m \in S
  <2>1. ASSUME m \notin S PROVE FALSE
    <3>1. PICK n \in S : TRUE
      BY Zenon
    <3>2. \A k \in S : k <= m - 1
      BY <2>1
    <3>3. m - 1 \in Nat
      BY <3>1, <3>2
    <3>4. m - 1 \in above
      BY <3>2, <3>3
    <3> QED
      BY <1>2, <3>3, <3>4
  <2> QED
    BY <2>1
<1>4. \A n \in S : m >= n
  OBVIOUS
<1>5. Max(S) \in S /\ \A n \in S : Max(S) >= n
  BY Zenon, <1>3, <1>4 DEF Max
<1> QED
  BY <1>5

(***************************************************************************)
(* largest_free is the length of some extent, and of no shorter one.       *)
(***************************************************************************)
LEMMA LargestExtent ==
  ASSUME PoolInv
  PROVE  /\ LargestFree \in Nat
         /\ LargestFree > 0 => \E n \in DOMAIN free : free[n].len = LargestFree
         /\ \A n \in DOMAIN free : free[n].len <= LargestFree
<1>0. /\ free \in Seq(FreeExtent) /\ Ordered(free)
      /\ Len(free) \in Nat /\ DOMAIN free = 1 .. Len(free)
  BY DEF PoolInv
<1> DEFINE S == {free[n].len : n \in DOMAIN free} \cup {0}
<1>1. LargestFree = Max(S)
  <2>1. {e.len : e \in ToSet(free)} = {free[n].len : n \in DOMAIN free}
    BY DEF ToSet
  <2> QED
    BY Zenon, <2>1 DEF LargestFree
<1>2. S \subseteq Nat /\ S # {}
  BY <1>0, ExtentType
<1>3. \E bound \in Nat : \A n \in S : n <= bound
  <2>1. CASE Len(free) = 0
    BY <1>0, <2>1
  <2>2. CASE Len(free) # 0
    <3>1. PICK last \in DOMAIN free : last = Len(free)
      BY <1>0, <2>2
    <3>2. End(free[last]) \in Nat
      BY <1>0, ExtentType
    <3>3. ASSUME NEW n \in DOMAIN free PROVE free[n].len <= End(free[last])
      <4>1. /\ free[n].off \in Nat /\ free[n].len \in Nat /\ End(free[n]) = free[n].off + free[n].len
            /\ free[last].off \in Nat /\ free[last].off < End(free[last])
        BY SMTT(60), <1>0, ExtentType DEF End
      <4>2. CASE n = last
        BY <4>1, <4>2
      <4>3. CASE n # last
        <5>1. n < last
          BY <1>0, <3>1, <4>3
        <5>2. End(free[n]) <= free[last].off
          BY <1>0, <5>1 DEF Ordered
        <5> QED
          BY <3>2, <4>1, <5>2
      <4> QED
        BY <4>2, <4>3
    <3>4. \A n \in S : n <= End(free[last])
      BY <3>2, <3>3
    <3> QED
      BY <3>2, <3>4
  <2> QED
    BY <2>1, <2>2
<1>4. Max(S) \in S /\ \A n \in S : n <= Max(S)
  <2> HIDE DEF S
  <2> QED
    BY Zenon, <1>2, <1>3, LargestElement
<1>5. LargestFree \in S /\ \A n \in S : n <= LargestFree
  BY SMTT(60), <1>1, <1>4
<1>6. LargestFree \in Nat
  <2> HIDE DEF S
  <2> QED
    BY <1>2, <1>5
<1>7. ASSUME LargestFree > 0 PROVE \E n \in DOMAIN free : free[n].len = LargestFree
  BY <1>5, <1>7
<1> QED
  BY <1>5, <1>6, <1>7

(***************************************************************************)
(* For every capacity, alignment, number of buffers and set of requests of *)
(* at least one byte, largest_free is what its comment says, the "Largest  *)
(* single allocation currently possible": there are n free bytes in a row  *)
(* exactly if n is at most largest_free.  So the merging in release misses *)
(* no pair of neighbours, in whatever order the buffers are dropped.       *)
(***************************************************************************)
THEOREM LargestFreeAlwaysExact ==
  ASSUME 0 \notin Requests
  PROVE  Spec => []LargestFreeExact
<1>1. Init => PoolInv
  BY PoolInit
<1>2. PoolInv /\ [Next]_vars => PoolInv'
  BY AbstractStep
<1>3. PoolInv => LargestFreeExact
  <2> SUFFICES ASSUME PoolInv, NEW n \in 1 .. Size
               PROVE  Runs(Covered, n) # {} <=> n <= LargestFree
    BY DEF LargestFreeExact
  <2>0. n \in Nat /\ n > 0
    BY RoundUpPositive, PinnedAssumption DEF Size
  <2>1. free \in Seq(FreeExtent) /\ LargestFree \in Nat
    BY LargestExtent DEF PoolInv
  <2>2. ASSUME NEW p \in Runs(Covered, n) PROVE n <= LargestFree
    <3>1. p \in Nat /\ \E k \in DOMAIN free : free[k].off <= p /\ p + n <= End(free[k])
      BY <2>0, RunsInExtents
    <3>2. PICK k \in DOMAIN free : free[k].off <= p /\ p + n <= End(free[k])
      BY <3>1
    <3>3. free[k].off \in Nat /\ free[k].len \in Nat /\ End(free[k]) = free[k].off + free[k].len
      BY <2>1, ExtentType DEF End
    <3>4. free[k].len <= LargestFree
      BY LargestExtent
    <3> QED
      BY SMTT(60), <2>0, <2>1, <3>1, <3>2, <3>3, <3>4
  <2>3. ASSUME n <= LargestFree PROVE Runs(Covered, n) # {}
    <3>1. LargestFree > 0
      BY <2>0, <2>1, <2>3
    <3>2. PICK k \in DOMAIN free : free[k].len = LargestFree
      BY <3>1, LargestExtent
    <3>3. free[k].len >= n
      BY <2>0, <2>1, <2>3, <3>2
    <3>4. free[k].off \in Runs(Covered, n)
      BY <2>0, <3>3, FrontFits
    <3> QED
      BY <3>4
  <2> QED
    BY <2>2, <2>3
<1> QED
  BY <1>1, <1>2, <1>3, PTL DEF Spec
=============================================================================
