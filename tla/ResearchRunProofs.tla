------------------------- MODULE ResearchRunProofs -------------------------
(***************************************************************************)
(* The research controller, proved for any planner and any provider: any   *)
(* batches of questions, any packs of cards, any limits.                   *)
(*                                                                         *)
(* The first part is about the selection of evidence, which is a function  *)
(* of the packs: what the recursive functions of ResearchEvidence compute  *)
(* is shown by induction over the cards and over the turns.  The second is *)
(* the invariant of the run, RunInv.                                       *)
(***************************************************************************)
EXTENDS ResearchRun, DataLemmas

-----------------------------------------------------------------------------
(* The selection of evidence.                                              *)

\* The cards of all packs are gathered, none is lost.
LEMMA InterleavedCards ==
  ASSUME NEW ps \in Seq(Pack)
  PROVE  /\ Interleaved(ps) \in Seq(Cards)
         /\ \A r \in DOMAIN ps : ToSet(ps[r].cards) \subseteq ToSet(Interleaved(ps))
<1> DEFINE D == DOMAIN ps
           size == [r \in D |-> Len(ps[r].cards)]
           L == {size[r] : r \in D} \cup {0}
           longest == Max(L)
           part(i, r) == IF i <= Len(ps[r].cards) THEN <<ps[r].cards[i]>> ELSE <<>>
           rowParts(i) == [r \in D |-> part(i, r)]
           row(i) == FlattenSeq(rowParts(i))
           rows == [i \in 1 .. longest |-> row(i)]
<1>1. Len(ps) \in Nat /\ D = 1 .. Len(ps) /\ \A r \in D : ps[r] \in Pack
  OBVIOUS
<1>2. \A r \in D : ps[r].cards \in Seq(Cards) /\ Len(ps[r].cards) \in Nat
  BY <1>1 DEF Pack
<1>3. IsFiniteSet(D)
  BY <1>1, FS_Interval
<1>4. L \subseteq Nat /\ IsFiniteSet(L) /\ L # {}
  <2>1. L \subseteq Nat /\ L # {}
    BY <1>2
  <2> HIDE DEF D, size
  <2>2. IsFiniteSet({size[r] : r \in D})
    BY <1>3, ImageFinite
  <2>3. QED BY <2>1, <2>2, FS_AddElement, FS_Union, FS_Singleton
<1>5. longest \in Nat /\ \A x \in L : x <= longest
  <2> HIDE DEF L
  <2>1. PICK m \in L : \A x \in L : x <= m
    BY <1>4, GreatestNumber
  <2>2. m >= m /\ \A x \in L : m >= x
    BY <1>4, <2>1
  <2>3. longest \in L /\ \A x \in L : longest >= x
    BY <2>2 DEF Max
  <2>4. QED BY <1>4, <2>3
<1>6. \A r \in D : Len(ps[r].cards) <= longest
  BY <1>5
<1>7. Interleaved(ps) = FlattenSeq(rows)
  BY DEF Interleaved
<1> HIDE DEF longest, L, size
<1>8. ASSUME NEW i \in 1 .. longest
      PROVE  /\ rowParts(i) \in Seq(Seq(Cards)) /\ Len(rowParts(i)) = Len(ps)
             /\ \A r \in D : rowParts(i)[r] = part(i, r)
  <2>1. \A r \in D : part(i, r) \in Seq(Cards)
    <3>1. ASSUME NEW r \in D, i <= Len(ps[r].cards) PROVE <<ps[r].cards[i]>> \in Seq(Cards)
      <4>1. ps[r].cards[i] \in Cards
        BY <1>2, <1>5, <3>1
      <4>2. QED BY <4>1
    <3>2. <<>> \in Seq(Cards)
      OBVIOUS
    <3>3. QED BY <3>1, <3>2
  <2> HIDE DEF part
  <2>2. QED BY <1>1, <2>1
<1> HIDE DEF rowParts
<1>9. \A i \in 1 .. longest : row(i) \in Seq(Cards)
  BY <1>8, FlattenTyped
<1>10. rows \in Seq(Seq(Cards)) /\ Len(rows) = longest /\ \A i \in 1 .. longest : rows[i] = row(i)
  <2> HIDE DEF row
  <2>1. QED BY <1>5, <1>9
<1> HIDE DEF rows
<1>11. FlattenSeq(rows) \in Seq(Cards)
  BY <1>10, FlattenTyped
<1>12. ASSUME NEW r \in D, NEW c \in ToSet(ps[r].cards) PROVE c \in ToSet(FlattenSeq(rows))
  <2>1. PICK i \in 1 .. Len(ps[r].cards) : c = ps[r].cards[i]
    BY <1>2, <1>12 DEF ToSet
  <2>2. i \in 1 .. longest /\ i <= Len(ps[r].cards)
    BY <1>2, <1>5, <1>6, <2>1
  <2>3. rowParts(i)[r] = <<c>>
    BY <1>8, <2>1, <2>2
  <2>4. c \in ToSet(<<c>>)
    BY DEF ToSet
  <2>5. r \in 1 .. Len(rowParts(i))
    BY <1>1, <1>8, <2>2
  <2>6. ToSet(rowParts(i)[r]) \subseteq ToSet(row(i))
    BY <1>8, <2>2, <2>5, FlattenCovers
  <2>7. ToSet(rows[i]) \subseteq ToSet(FlattenSeq(rows))
    BY <1>10, <2>2, FlattenCovers
  <2>8. QED BY <1>10, <2>2, <2>3, <2>4, <2>6, <2>7
<1>13. QED BY <1>7, <1>11, <1>12

\* Seen is the function its definition says it is.
LEMMA SeenIs ==
  ASSUME NEW all \in Seq(Cards)
  PROVE  /\ \A k \in 0 .. Len(all) : Seen(all)[k] \in Seq(Cards)
         /\ Seen(all)[0] = <<>>
         /\ \A k \in 1 .. Len(all) : Seen(all)[k] = WithContent(Seen(all)[k - 1], all[k])
<1> DEFINE n == Len(all)
           F == [x \in Seq(Cards) \X (1 .. n) |-> WithContent(x[1], all[x[2]])]
           Value(g, k) == IF k = 0 THEN <<>> ELSE WithContent(g[k - 1], all[k])
           IsSeen(g) == g = [k \in 0 .. n |-> Value(g, k)]
<1>1. n \in Nat /\ <<>> \in Seq(Cards) /\ \A k \in 1 .. n : all[k] \in Cards
  OBVIOUS
<1>2. \A v \in Seq(Cards), k \in 1 .. n : F[<<v, k>>] = WithContent(v, all[k])
  OBVIOUS
<1>3. ASSUME NEW v \in Seq(Cards), NEW k \in 1 .. n PROVE WithContent(v, all[k]) \in Seq(Cards)
  BY <1>1, AppendProperties DEF WithContent
<1>4. Seen(all) = CHOOSE h : IsSeen(h)
  BY DEF Seen
<1> HIDE DEF F, n
<1>16. \A v \in Seq(Cards) : \A k \in 1 .. n : F[<<v, k>>] \in Seq(Cards)
  BY <1>2, <1>3
<1>5. PICK g \in [0 .. n -> Seq(Cards)] : IsRunOf(g, <<>>, n, F)
  BY <1>1, <1>16, RecursionExists
<1>6. ASSUME NEW k \in 0 .. n PROVE g[k] = Value(g, k)
  <2>1. CASE k = 0
    BY <1>5, <2>1 DEF IsRunOf
  <2>2. CASE k # 0
    <3>1. k \in 1 .. n /\ k - 1 \in 0 .. n
      BY <1>1, <2>2
    <3>2. g[k] = F[<<g[k - 1], k>>] /\ g[k - 1] \in Seq(Cards)
      BY <1>5, <3>1 DEF IsRunOf
    <3>3. QED BY <1>2, <2>2, <3>1, <3>2
  <2>3. QED BY <2>1, <2>2
<1>7. IsSeen(g)
  <2>1. g = [k \in 0 .. n |-> g[k]]
    OBVIOUS
  <2> HIDE DEF Value
  <2>2. QED BY <1>6, <2>1, Zenon
<1> HIDE DEF IsSeen
<1>8. IsSeen(Seen(all))
  BY <1>4, <1>7
<1> DEFINE h == Seen(all)
<1>9. h = [k \in 0 .. n |-> Value(h, k)]
  BY <1>8 DEF IsSeen
<1> HIDE DEF h
<1>10. \A k \in 0 .. n : h[k] = Value(h, k)
  BY <1>9
<1>11. h[0] = <<>> /\ \A k \in 1 .. n : h[k] = WithContent(h[k - 1], all[k])
  BY <1>1, <1>10
<1> DEFINE S == {k \in 0 .. n : h[k] \in Seq(Cards)}
<1>12. 0 \in S
  <2>1. 0 \in 0 .. n /\ h[0] \in Seq(Cards)
    BY <1>1, <1>11
  <2>2. QED BY <2>1
<1>13. ASSUME NEW k \in 0 .. n - 1, k \in S PROVE k + 1 \in S
  <2>1. k + 1 \in 1 .. n /\ (k + 1) - 1 = k /\ k + 1 \in 0 .. n
    BY <1>1
  <2>2. h[k + 1] = WithContent(h[k], all[k + 1])
    BY <1>11, <2>1
  <2>3. QED BY <1>3, <1>13, <2>1, <2>2
<1>14. 0 .. n \subseteq S
  <2> HIDE DEF S
  <2>1. QED BY <1>1, <1>12, <1>13, SegmentInduction
<1>15. QED BY <1>11, <1>14 DEF n, h

\* Every content of the cards is among the contents.
LEMMA SeenCovers ==
  ASSUME NEW all \in Seq(Cards)
  PROVE  LET seen == Seen(all)[Len(all)]
         IN  seen \in Seq(Cards) /\ \A c \in ToSet(all) : \E d \in ToSet(seen) : ContentOf[d] = ContentOf[c]
<1> DEFINE n == Len(all)
           h == Seen(all)
           Has(s, c) == \E d \in ToSet(s) : ContentOf[d] = ContentOf[c]
           S == {k \in 0 .. n : \A i \in 1 .. k : Has(h[k], all[i])}
<1>1. n \in Nat /\ \A k \in 1 .. n : all[k] \in Cards
  OBVIOUS
<1>2. /\ \A k \in 0 .. n : h[k] \in Seq(Cards)
      /\ \A k \in 1 .. n : h[k] = WithContent(h[k - 1], all[k])
  BY SeenIs
<1> HIDE DEF h
<1>3. 0 \in S
  BY <1>1
<1>4. ASSUME NEW k \in 0 .. n - 1, k \in S PROVE k + 1 \in S
  <2> DEFINE c == all[k + 1]
             s == h[k]
             t == h[k + 1]
  <2>1. k + 1 \in 1 .. n /\ (k + 1) - 1 = k /\ k + 1 \in 0 .. n /\ k \in 0 .. n
    BY <1>1
  <2>2. t = WithContent(s, c) /\ s \in Seq(Cards) /\ c \in Cards
    BY <1>1, <1>2, <2>1
  <2>3. \A i \in 1 .. k : Has(s, all[i])
    BY <1>4
  <2>4. \A i \in 1 .. k + 1 : i \in 1 .. k \/ i = k + 1
    BY <1>1
  <2> HIDE DEF s, t
  <2>5. CASE Has(s, c)
    <3>1. t = s
      BY <2>2, <2>5 DEF WithContent
    <3>2. QED BY <2>1, <2>3, <2>4, <2>5, <3>1 DEF t
  <2>6. CASE ~ Has(s, c)
    <3>1. t = Append(s, c)
      BY <2>2, <2>6 DEF WithContent
    <3>2. ToSet(t) = ToSet(s) \cup {c}
      BY <2>2, <3>1, ToSetAppend
    <3>3. \A i \in 1 .. k : Has(t, all[i])
      BY <2>3, <3>2
    <3>4. Has(t, c)
      BY <3>2
    <3>5. QED BY <2>1, <2>4, <3>3, <3>4 DEF t
  <2>7. QED BY <2>5, <2>6
<1>5. 0 .. n \subseteq S
  <2> HIDE DEF S
  <2>1. QED BY <1>1, <1>3, <1>4, SegmentInduction
<1>6. n \in 0 .. n
  BY <1>1
<1>7. n \in S
  <2> HIDE DEF S
  <2>1. QED BY <1>5, <1>6
<1>8. \A c \in ToSet(all) : \E i \in 1 .. n : c = all[i]
  BY DEF ToSet
<1>9. QED BY <1>2, <1>6, <1>7, <1>8 DEF h

\* The card that stands for a card is a content's first, of the same content.
LEMMA AliasIs ==
  ASSUME NEW ps \in Seq(Pack), NEW r \in DOMAIN ps, NEW c \in ToSet(ps[r].cards)
  PROVE  Alias(ps, c) \in ToSet(Contents(ps)) /\ ContentOf[Alias(ps, c)] = ContentOf[c]
<1>1. Interleaved(ps) \in Seq(Cards) /\ c \in ToSet(Interleaved(ps))
  BY InterleavedCards
<1>2. \E d \in ToSet(Contents(ps)) : ContentOf[d] = ContentOf[c]
  BY <1>1, SeenCovers DEF Contents
<1>3. QED BY <1>2 DEF Alias

\* The contents are cards.
LEMMA ContentsTyped ==
  ASSUME NEW ps \in Seq(Pack)
  PROVE  Contents(ps) \in Seq(Cards)
  BY InterleavedCards, SeenCovers DEF Contents

\* What a card would add to the score is a number with a bound.
LEMMA ScoreTyped ==
  ASSUME NEW ps \in Seq(Pack), NEW questions, NEW s, NEW c
  PROVE  Score(questions, ps, s, c) \in 0 .. 10 * Len(ps) + 5
<1> DEFINE covered == UNION {Serves(questions, ps, d) : d \in ToSet(s)}
           new == Serves(questions, ps, c) \ covered
<1>1. Len(ps) \in Nat /\ DOMAIN ps = 1 .. Len(ps)
  OBVIOUS
<1>2. new \subseteq DOMAIN ps
  BY DEF Serves
<1>3. Score(questions, ps, s, c) = 10 * Cardinality(new) + IF c \in Caveats /\ ToSet(s) \cap Caveats = {} THEN 5 ELSE 0
  BY DEF Score
<1> HIDE DEF new
<1>4. IsFiniteSet(DOMAIN ps) /\ Cardinality(DOMAIN ps) = Len(ps)
  BY <1>1, FS_Interval
<1>5. Cardinality(new) \in Nat /\ Cardinality(new) <= Len(ps)
  BY <1>2, <1>4, FS_Subset, FS_CardinalityType
<1>6. QED BY <1>1, <1>3, <1>5

\* The card that is added is one there was room for; none is left out for
\* another reason.
LEMMA AddedIs ==
  ASSUME NEW ps \in Seq(Pack), NEW questions, NEW s
  PROVE  \/ /\ Added(questions, ps, s) = s
            /\ \A c \in ToSet(Contents(ps)) : ~ MayAdd(s, c)
         \/ \E c \in ToSet(Contents(ps)) : MayAdd(s, c) /\ Added(questions, ps, s) = Append(s, c)
<1> DEFINE all == Contents(ps)
           room == {i \in DOMAIN all : MayAdd(s, all[i])}
           score(i) == Score(questions, ps, s, all[i])
           Best(i) == \A j \in room : score(i) > score(j) \/ (score(i) = score(j) /\ i <= j)
           best == CHOOSE i \in room : Best(i)
<1>1. all \in Seq(Cards) /\ room \subseteq Nat /\ ToSet(all) = {all[i] : i \in DOMAIN all}
  BY ContentsTyped DEF ToSet
<1>2. Added(questions, ps, s) = IF room = {} THEN s ELSE Append(s, all[best])
  BY DEF Added
<1>3. CASE room = {}
  BY <1>1, <1>2, <1>3
<1>4. CASE room # {}
  <2> DEFINE b == 10 * Len(ps) + 5
             f == [i \in room |-> score(i)]
  <2>1. b \in Nat /\ \A i \in room : score(i) \in 0 .. b
    BY ScoreTyped
  <2> HIDE DEF score, room, all, b
  <2>2. f \in [room -> 0 .. b] /\ \A i \in room : f[i] = score(i)
    BY <2>1
  <2> HIDE DEF f
  <2>3. \E i \in room : \A j \in room : f[i] > f[j] \/ (f[i] = f[j] /\ i <= j)
    BY <1>1, <1>4, <2>1, <2>2, GreatestFirst
  <2>4. \E i \in room : Best(i)
    BY <2>2, <2>3
  <2> HIDE DEF Best
  <2>5. best \in room
    BY <2>4
  <2> HIDE DEF best
  <2>6. all[best] \in ToSet(all) /\ MayAdd(s, all[best])
    BY <1>1, <2>5 DEF room
  <2>7. QED BY <1>2, <1>4, <2>6 DEF all
<1>5. QED BY <1>3, <1>4

\* So cards stay cards.
LEMMA AddedTyped ==
  ASSUME NEW ps \in Seq(Pack), NEW questions, NEW s \in Seq(Cards)
  PROVE  Added(questions, ps, s) \in Seq(Cards)
<1>1. ToSet(Contents(ps)) \subseteq Cards
  BY ContentsTyped, ToSetFinite
<1>2. QED BY <1>1, AddedIs, AppendProperties

\* Selection is the function its definition says it is.
LEMMA SelectionIs ==
  ASSUME NEW ps \in Seq(Pack), NEW questions
  PROVE  LET after == Selection(questions, ps)
         IN  /\ \A k \in 0 .. MaxEvidence : after[k] \in Seq(Cards)
             /\ after[0] = <<>>
             /\ \A k \in 1 .. MaxEvidence : after[k] = Added(questions, ps, after[k - 1])
<1> DEFINE n == MaxEvidence
           F == [x \in Seq(Cards) \X (1 .. n) |-> Added(questions, ps, x[1])]
           Value(g, k) == IF k = 0 THEN <<>> ELSE Added(questions, ps, g[k - 1])
           IsSelection(g) == g = [k \in 0 .. n |-> Value(g, k)]
<1>1. n \in Nat /\ <<>> \in Seq(Cards)
  BY EvidenceLimits
<1>2. \A v \in Seq(Cards), k \in 1 .. n : F[<<v, k>>] = Added(questions, ps, v)
  OBVIOUS
<1>3. \A v \in Seq(Cards) : Added(questions, ps, v) \in Seq(Cards)
  BY AddedTyped
<1>4. Selection(questions, ps) = CHOOSE h : IsSelection(h)
  BY DEF Selection
<1> HIDE DEF F, n
<1>5. \A v \in Seq(Cards) : \A k \in 1 .. n : F[<<v, k>>] \in Seq(Cards)
  BY <1>2, <1>3
<1>6. PICK g \in [0 .. n -> Seq(Cards)] : IsRunOf(g, <<>>, n, F)
  BY <1>1, <1>5, RecursionExists
<1>7. ASSUME NEW k \in 0 .. n PROVE g[k] = Value(g, k)
  <2>1. CASE k = 0
    BY <1>6, <2>1 DEF IsRunOf
  <2>2. CASE k # 0
    <3>1. k \in 1 .. n /\ k - 1 \in 0 .. n
      BY <1>1, <2>2
    <3>2. g[k] = F[<<g[k - 1], k>>] /\ g[k - 1] \in Seq(Cards)
      BY <1>6, <3>1 DEF IsRunOf
    <3>3. QED BY <1>2, <2>2, <3>1, <3>2
  <2>3. QED BY <2>1, <2>2
<1>8. IsSelection(g)
  <2>1. g = [k \in 0 .. n |-> g[k]]
    OBVIOUS
  <2> HIDE DEF Value
  <2>2. QED BY <1>7, <2>1, Zenon
<1> HIDE DEF IsSelection
<1>9. IsSelection(Selection(questions, ps))
  BY <1>4, <1>8
<1> DEFINE h == Selection(questions, ps)
<1>10. h = [k \in 0 .. n |-> Value(h, k)]
  BY <1>9 DEF IsSelection
<1> HIDE DEF h
<1>11. \A k \in 0 .. n : h[k] = Value(h, k)
  BY <1>10
<1>12. h[0] = <<>> /\ \A k \in 1 .. n : h[k] = Added(questions, ps, h[k - 1])
  BY <1>1, <1>11
<1> DEFINE S == {k \in 0 .. n : h[k] \in Seq(Cards)}
<1>13. 0 \in S
  <2>1. 0 \in 0 .. n /\ h[0] \in Seq(Cards)
    BY <1>1, <1>12
  <2>2. QED BY <2>1
<1>14. ASSUME NEW k \in 0 .. n - 1, k \in S PROVE k + 1 \in S
  <2>1. k + 1 \in 1 .. n /\ (k + 1) - 1 = k /\ k + 1 \in 0 .. n
    BY <1>1
  <2>2. h[k + 1] = Added(questions, ps, h[k])
    BY <1>12, <2>1
  <2>3. QED BY <1>3, <1>14, <2>1, <2>2
<1>15. 0 .. n \subseteq S
  <2> HIDE DEF S
  <2>1. QED BY <1>1, <1>13, <1>14, SegmentInduction
<1>16. QED BY <1>12, <1>15 DEF n, h

\* Among the chosen cards, those of a source, and those of an author.
OfSource(chosen, c) == {d \in chosen : SourceOf[d] = SourceOf[c]}
OfAuthor(chosen, c) == {d \in chosen : AuthorOf[d] = AuthorOf[c]}

WithinLimits(chosen) ==
  \A c \in chosen : /\ Cardinality(OfSource(chosen, c)) <= MaxPerSource
                    /\ AuthorOf[c] # None => Cardinality(OfAuthor(chosen, c)) <= MaxPerAuthor

\* A card there is room for keeps the limits.
LEMMA LimitsKept ==
  ASSUME NEW s \in Seq(Cards), NEW c \in Cards, MayAdd(s, c), WithinLimits(ToSet(s))
  PROVE  WithinLimits(ToSet(s) \cup {c})
<1> DEFINE old == ToSet(s)
           new == old \cup {c}
<1>1. IsFiniteSet(old) /\ MaxPerSource \in Nat /\ MaxPerAuthor \in Nat
  BY ToSetFinite, EvidenceLimits
<1>2. /\ c \notin old /\ Cardinality(OfSource(old, c)) < MaxPerSource
      /\ AuthorOf[c] = None \/ Cardinality(OfAuthor(old, c)) < MaxPerAuthor
  BY DEF MayAdd, OfSource, OfAuthor
<1> HIDE DEF old
<1>3. ASSUME NEW d \in new
      PROVE  /\ IsFiniteSet(OfSource(old, d)) /\ IsFiniteSet(OfAuthor(old, d))
             /\ Cardinality(OfSource(old, d)) \in Nat /\ Cardinality(OfAuthor(old, d)) \in Nat
             /\ Cardinality(OfSource(old, d) \cup {c}) = Cardinality(OfSource(old, d)) + 1
             /\ Cardinality(OfAuthor(old, d) \cup {c}) = Cardinality(OfAuthor(old, d)) + 1
  <2>1. /\ OfSource(old, d) \subseteq old /\ OfAuthor(old, d) \subseteq old
        /\ c \notin OfSource(old, d) /\ c \notin OfAuthor(old, d)
    BY <1>2 DEF OfSource, OfAuthor
  <2>2. IsFiniteSet(OfSource(old, d)) /\ IsFiniteSet(OfAuthor(old, d))
    BY <1>1, <2>1, FS_Subset
  <2>3. QED BY <2>1, <2>2, FS_AddElement, FS_CardinalityType
<1>4. ASSUME NEW d \in new PROVE Cardinality(OfSource(new, d)) <= MaxPerSource
  <2>1. CASE SourceOf[d] = SourceOf[c]
    <3>1. OfSource(new, d) = OfSource(old, c) \cup {c} /\ OfSource(old, d) = OfSource(old, c)
      BY <2>1 DEF OfSource
    <3>2. c \in new
      OBVIOUS
    <3>3. /\ Cardinality(OfSource(old, c) \cup {c}) = Cardinality(OfSource(old, c)) + 1
          /\ Cardinality(OfSource(old, c)) \in Nat
      BY <1>3, <3>2
    <3>4. Cardinality(OfSource(new, d)) = Cardinality(OfSource(old, c)) + 1
      BY <3>1, <3>3
    <3> HIDE DEF new
    <3>5. QED BY <1>1, <1>2, <3>3, <3>4
  <2>2. CASE SourceOf[d] # SourceOf[c]
    <3>1. OfSource(new, d) = OfSource(old, d) /\ d \in old
      BY <2>2 DEF OfSource
    <3>2. QED BY <3>1 DEF WithinLimits, old
  <2>3. QED BY <2>1, <2>2
<1>5. ASSUME NEW d \in new, AuthorOf[d] # None PROVE Cardinality(OfAuthor(new, d)) <= MaxPerAuthor
  <2>1. CASE AuthorOf[d] = AuthorOf[c]
    <3>1. OfAuthor(new, d) = OfAuthor(old, c) \cup {c} /\ OfAuthor(old, d) = OfAuthor(old, c)
      BY <2>1 DEF OfAuthor
    <3>2. c \in new
      OBVIOUS
    <3>3. /\ Cardinality(OfAuthor(old, c) \cup {c}) = Cardinality(OfAuthor(old, c)) + 1
          /\ Cardinality(OfAuthor(old, c)) \in Nat
      BY <1>3, <3>2
    <3>4. Cardinality(OfAuthor(new, d)) = Cardinality(OfAuthor(old, c)) + 1
      BY <3>1, <3>3
    <3>5. Cardinality(OfAuthor(old, c)) < MaxPerAuthor
      BY <1>2, <1>5, <2>1
    <3> HIDE DEF new
    <3>6. QED BY <1>1, <3>3, <3>4, <3>5
  <2>2. CASE AuthorOf[d] # AuthorOf[c]
    <3>1. OfAuthor(new, d) = OfAuthor(old, d) /\ d \in old
      BY <2>2 DEF OfAuthor
    <3>2. QED BY <1>5, <3>1 DEF WithinLimits, old
  <2>3. QED BY <2>1, <2>2
<1>6. QED BY <1>4, <1>5 DEF WithinLimits, old

\* What holds of the cards selected in n turns.
Chosen(ps, s, n) ==
  /\ s \in Seq(Cards) /\ Len(s) <= n /\ Cardinality(ToSet(s)) = Len(s)
  /\ WithinLimits(ToSet(s))
  /\ Len(s) < n => \A c \in ToSet(Contents(ps)) : ~ MayAdd(s, c)

\* It holds before the first turn.
LEMMA NoneChosen ==
  ASSUME NEW ps
  PROVE  Chosen(ps, <<>>, 0)
<1>1. ToSet(<<>>) = {} /\ Len(<<>>) = 0 /\ <<>> \in Seq(Cards)
  BY DEF ToSet
<1>2. QED BY <1>1, FS_EmptySet DEF Chosen, WithinLimits

\* A turn keeps it.
LEMMA ChosenKept ==
  ASSUME NEW ps \in Seq(Pack), NEW questions, NEW s, NEW n \in Nat, Chosen(ps, s, n)
  PROVE  Chosen(ps, Added(questions, ps, s), n + 1)
<1> DEFINE t == Added(questions, ps, s)
<1>1. s \in Seq(Cards) /\ Len(s) \in Nat /\ Len(s) <= n
  BY DEF Chosen
<1>2. CASE t = s /\ \A c \in ToSet(Contents(ps)) : ~ MayAdd(s, c)
  BY <1>1, <1>2 DEF Chosen
<1>3. ASSUME NEW c \in ToSet(Contents(ps)), MayAdd(s, c), t = Append(s, c) PROVE Chosen(ps, t, n + 1)
  <2>1. c \in Cards /\ c \notin ToSet(s)
    BY <1>3, ContentsTyped, ToSetFinite DEF MayAdd
  <2>2. Len(s) = n
    BY <1>1, <1>3 DEF Chosen
  <2> HIDE DEF t
  <2>3. t \in Seq(Cards) /\ Len(t) = Len(s) + 1 /\ ToSet(t) = ToSet(s) \cup {c}
    BY <1>1, <1>3, <2>1, AppendProperties, ToSetAppend
  <2>4. IsFiniteSet(ToSet(s)) /\ Cardinality(ToSet(s)) = Len(s)
    BY <1>1, ToSetFinite DEF Chosen
  <2>5. Cardinality(ToSet(t)) = Len(s) + 1
    BY <2>1, <2>3, <2>4, FS_AddElement
  <2>6. WithinLimits(ToSet(t))
    BY <1>1, <1>3, <2>1, <2>3, LimitsKept DEF Chosen
  <2>7. QED BY <1>1, <2>2, <2>3, <2>5, <2>6 DEF Chosen
<1>4. QED BY <1>2, <1>3, AddedIs

\* And so after the last.
LEMMA SelectedIs ==
  ASSUME NEW ps \in Seq(Pack), NEW questions
  PROVE  Chosen(ps, Selected(questions, ps), MaxEvidence)
<1> DEFINE n == MaxEvidence
           h == Selection(questions, ps)
           S == {k \in 0 .. n : Chosen(ps, h[k], k)}
<1>1. n \in Nat
  BY EvidenceLimits
<1>2. h[0] = <<>> /\ \A k \in 1 .. n : h[k] = Added(questions, ps, h[k - 1])
  BY SelectionIs
<1> HIDE DEF h, n
<1>3. 0 \in S
  BY <1>1, <1>2, NoneChosen
<1>4. ASSUME NEW k \in 0 .. n - 1, k \in S PROVE k + 1 \in S
  <2>1. k + 1 \in 1 .. n /\ (k + 1) - 1 = k /\ k + 1 \in 0 .. n /\ k \in Nat
    BY <1>1
  <2>2. h[k + 1] = Added(questions, ps, h[k]) /\ Chosen(ps, h[k], k)
    BY <1>2, <1>4, <2>1
  <2>3. QED BY <2>1, <2>2, ChosenKept
<1>5. 0 .. n \subseteq S
  <2> HIDE DEF S
  <2>1. QED BY <1>1, <1>3, <1>4, SegmentInduction
<1>6. n \in 0 .. n
  BY <1>1
<1>7. QED BY <1>5, <1>6 DEF n, h, Selected

\* Cards are only left out for a limit; routes are supported: EvidenceIsSupported
\* of any packs.
Supported(questions, ps) ==
  LET chosen  == ToSet(Selected(questions, ps))
      full(c) == \/ Cardinality(OfSource(chosen, c)) >= MaxPerSource
                 \/ AuthorOf[c] # None /\ Cardinality(OfAuthor(chosen, c)) >= MaxPerAuthor
  IN  /\ Cardinality(chosen) <= MaxEvidence
      /\ WithinLimits(chosen)
      /\ Cardinality(chosen) < MaxEvidence =>
           \A r \in DOMAIN ps : \A c \in ToSet(ps[r].cards) :
             Alias(ps, c) \in chosen \/ full(Alias(ps, c))
      /\ \A r \in DOMAIN ps : \A route \in RoutesOf(questions, ps, r) :
           /\ route # {} /\ route \subseteq EvidenceOf(questions, ps, r)
           /\ \E cited \in ps[r].routes : {ContentOf[c] : c \in route} = {ContentOf[c] : c \in cited}

\* It holds of any packs, by what holds of the selection.
LEMMA AllSupported ==
  ASSUME NEW ps \in Seq(Pack), NEW questions
  PROVE  Supported(questions, ps)
<1> DEFINE s == Selected(questions, ps)
           chosen == ToSet(s)
           full(c) == \/ Cardinality(OfSource(chosen, c)) >= MaxPerSource
                      \/ AuthorOf[c] # None /\ Cardinality(OfAuthor(chosen, c)) >= MaxPerAuthor
<1>1. Chosen(ps, s, MaxEvidence) /\ {MaxEvidence, MaxPerSource, MaxPerAuthor} \subseteq Nat
  BY SelectedIs, EvidenceLimits
<1>2. s \in Seq(Cards) /\ IsFiniteSet(chosen) /\ Len(s) <= MaxEvidence /\ Cardinality(chosen) = Len(s)
  BY <1>1, ToSetFinite DEF Chosen
<1>3. ASSUME Cardinality(chosen) < MaxEvidence, NEW r \in DOMAIN ps, NEW c \in ToSet(ps[r].cards)
      PROVE  Alias(ps, c) \in chosen \/ full(Alias(ps, c))
  <2> DEFINE a == Alias(ps, c)
  <2>1. ~ MayAdd(s, a)
    BY <1>1, <1>2, <1>3, AliasIs DEF Chosen
  <2> HIDE DEF a, s
  <2>2. /\ Cardinality(OfSource(chosen, a)) \in Nat /\ Cardinality(OfAuthor(chosen, a)) \in Nat
        /\ MaxPerSource \in Nat /\ MaxPerAuthor \in Nat
    <3>1. OfSource(chosen, a) \subseteq chosen /\ OfAuthor(chosen, a) \subseteq chosen
      BY DEF OfSource, OfAuthor
    <3>2. QED BY <1>1, <1>2, <3>1, FS_Subset, FS_CardinalityType
  <2>3. \/ a \in chosen
        \/ ~ Cardinality(OfSource(chosen, a)) < MaxPerSource
        \/ AuthorOf[a] # None /\ ~ Cardinality(OfAuthor(chosen, a)) < MaxPerAuthor
    BY <2>1, Zenon DEF MayAdd, OfSource, OfAuthor
  <2>4. a \in chosen \/ full(a)
    BY <2>2, <2>3
  <2>5. QED BY <2>4 DEF a
<1>4. ASSUME NEW r \in DOMAIN ps, NEW route \in RoutesOf(questions, ps, r)
      PROVE  /\ route # {} /\ route \subseteq EvidenceOf(questions, ps, r)
             /\ \E cited \in ps[r].routes :
                  {ContentOf[c] : c \in route} = {ContentOf[c] : c \in cited}
  <2>1. PICK cited \in ps[r].routes :
                     /\ cited # {} /\ cited \subseteq ToSet(ps[r].cards)
                     /\ \A c \in cited : Alias(ps, c) \in chosen
                     /\ route = {Alias(ps, c) : c \in cited}
    BY <1>4 DEF RoutesOf
  <2>2. ASSUME NEW c \in cited PROVE Alias(ps, c) \in EvidenceOf(questions, ps, r)
    <3> DEFINE a == Alias(ps, c)
    <3>1. a \in chosen /\ c \in ToSet(ps[r].cards) /\ ContentOf[c] = ContentOf[a]
      BY <2>1, AliasIs
    <3> HIDE DEF a, s
    <3>2. r \in Serves(questions, ps, a)
      BY <3>1 DEF Serves
    <3>3. a \in EvidenceOf(questions, ps, r)
      BY <3>1, <3>2 DEF EvidenceOf, s
    <3>4. QED BY <3>3 DEF a
  <2>3. \A c \in cited : ContentOf[Alias(ps, c)] = ContentOf[c]
    BY <2>1, AliasIs
  <2>4. {ContentOf[c] : c \in route} = {ContentOf[c] : c \in cited}
    <3>1. \A d \in route : \E c \in cited : d = Alias(ps, c)
      BY <2>1
    <3>2. \A c \in cited : Alias(ps, c) \in route
      BY <2>1
    <3>3. QED BY <2>3, <3>1, <3>2
  <2>5. QED BY <2>1, <2>2, <2>4
<1>5. Cardinality(chosen) <= MaxEvidence /\ WithinLimits(chosen)
  BY <1>1, <1>2 DEF Chosen
<1>6. QED BY <1>3, <1>4, <1>5 DEF Supported

-----------------------------------------------------------------------------
(* What holds of the runs.                                                 *)

\* The run is at most two rounds; what was executed are the queries of the first
\* of the scheduled requests, one request further than the packs while one waits.
RunTyped ==
  /\ {allowInsufficient, aborted, partial} \subseteq BOOLEAN
  /\ scheduled \in Seq(Draft) /\ packs \in Seq(Packs) /\ executed \in Seq(Queries)
  /\ report \in [sufficient : BOOLEAN, covers : Seq(SUBSET Cards)]

Rounds ==
  /\ pc \in {"start", "plan", "research", "supplement", "done"} /\ rounds \in 0 .. 2
  /\ Len(packs) <= Len(scheduled)
  /\ pc \in {"start", "plan"} => rounds = 0 /\ scheduled = <<>> /\ packs = <<>> /\ executed = <<>>
  /\ pc = "research" => /\ rounds # 0 /\ Len(packs) < Len(scheduled)
                        /\ executed = QueriesOf(SubSeq(scheduled, 1, Len(packs) + 1))
  /\ pc = "supplement" => /\ rounds = 1 /\ Len(packs) = Len(scheduled)
                          /\ executed = QueriesOf(scheduled)
  /\ \E m \in 0 .. Len(scheduled) : executed = QueriesOf(SubSeq(scheduled, 1, m))

WithinBudget(all) ==
  /\ Len(all) <= Budget
  /\ \A i, j \in DOMAIN all : NormalOf[all[i]] = NormalOf[all[j]] => i = j

\* All that is scheduled is within the budget, what was executed is part of it.
ScheduleOK == WithinBudget(QueriesOf(scheduled))

ReportOK ==
  /\ result = "done" => pc = "done"
  /\ packs = <<>> => ~ report.sufficient
  /\ report.sufficient /\ partial => pc = "done"
  /\ ReportTellsTheTruth

RunInv == RunTyped /\ Rounds /\ ScheduleOK /\ ReportOK

-----------------------------------------------------------------------------
(* The queries of requests.                                                *)

\* The queries of each request, as a sequence of sequences.
LEMMA DraftIs ==
  ASSUME NEW b \in Seq(Draft)
  PROVE  LET parts == [r \in DOMAIN b |-> b[r].queries]
         IN  /\ parts \in Seq(Seq(Queries)) /\ Len(parts) = Len(b)
             /\ \A r \in 1 .. Len(b) : parts[r] = b[r].queries /\ parts[r] \in Seq(Queries)
<1>1. Len(b) \in Nat /\ DOMAIN b = 1 .. Len(b) /\ \A r \in 1 .. Len(b) : b[r] \in Draft
  OBVIOUS
<1>2. \A r \in 1 .. Len(b) : b[r].queries \in Seq(Queries)
  BY <1>1 DEF Draft
<1>3. QED BY <1>1, <1>2

\* No requests, no queries.
LEMMA QueriesNone == QueriesOf(<<>>) = <<>>
<1>1. [r \in DOMAIN <<>> |-> <<>>[r].queries] = <<>>
  OBVIOUS
<1>2. QED BY <1>1, FlattenNone DEF QueriesOf

\* They are queries.
LEMMA QueriesTyped ==
  ASSUME NEW b \in Seq(Draft)
  PROVE  QueriesOf(b) \in Seq(Queries)
  BY DraftIs, FlattenTyped DEF QueriesOf

\* Those of two sequences of requests.
LEMMA QueriesConcat ==
  ASSUME NEW a \in Seq(Draft), NEW b \in Seq(Draft)
  PROVE  QueriesOf(a \o b) = QueriesOf(a) \o QueriesOf(b)
<1> DEFINE parts(s) == [r \in DOMAIN s |-> s[r].queries]
           c == a \o b
<1>1. /\ c \in Seq(Draft) /\ Len(c) = Len(a) + Len(b) /\ Len(a) \in Nat /\ Len(b) \in Nat
      /\ \A i \in 1 .. Len(a) + Len(b) : c[i] = IF i <= Len(a) THEN a[i] ELSE b[i - Len(a)]
  BY ConcatProperties
<1> HIDE DEF c
<1>2. \A s \in Seq(Draft) : /\ parts(s) \in Seq(Seq(Queries)) /\ Len(parts(s)) = Len(s)
                            /\ \A r \in 1 .. Len(s) : parts(s)[r] = s[r].queries
                            /\ QueriesOf(s) = FlattenSeq(parts(s))
  BY DraftIs DEF QueriesOf
<1> HIDE DEF parts
<1>3. /\ parts(a) \o parts(b) \in Seq(Seq(Queries)) /\ Len(parts(a) \o parts(b)) = Len(a) + Len(b)
      /\ \A i \in 1 .. Len(a) + Len(b) :
           (parts(a) \o parts(b))[i] = IF i <= Len(a) THEN parts(a)[i] ELSE parts(b)[i - Len(a)]
  <2>1. parts(a) \in Seq(Seq(Queries)) /\ parts(b) \in Seq(Seq(Queries)) /\ Len(parts(a)) = Len(a) /\ Len(parts(b)) = Len(b)
    BY <1>2
  <2> DEFINE u == parts(a)
             v == parts(b)
  <2>2. u \in Seq(Seq(Queries)) /\ v \in Seq(Seq(Queries))
    BY <2>1
  <2> HIDE DEF u, v
  <2>3. /\ u \o v \in Seq(Seq(Queries)) /\ Len(u \o v) = Len(u) + Len(v)
        /\ \A i \in 1 .. Len(u) + Len(v) : (u \o v)[i] = IF i <= Len(u) THEN u[i] ELSE v[i - Len(u)]
    BY <2>2, ConcatProperties
  <2>4. Len(u) = Len(a) /\ Len(v) = Len(b) /\ u = parts(a) /\ v = parts(b)
    BY <2>1 DEF u, v
  <2>5. QED BY <2>3, <2>4
<1>4. ASSUME NEW i \in 1 .. Len(a) + Len(b) PROVE parts(c)[i] = (parts(a) \o parts(b))[i]
  <2>1. parts(c)[i] = c[i].queries
    BY <1>1, <1>2
  <2>2. CASE i <= Len(a)
    <3>1. i \in 1 .. Len(a)
      BY <1>1, <2>2
    <3>2. QED BY <1>1, <1>2, <1>3, <2>1, <2>2, <3>1
  <2>3. CASE ~ i <= Len(a)
    <3>1. i - Len(a) \in 1 .. Len(b)
      BY <1>1, <2>3
    <3>2. QED BY <1>1, <1>2, <1>3, <2>1, <2>3, <3>1
  <2>4. QED BY <2>2, <2>3
<1>5. parts(c) = parts(a) \o parts(b)
  <2> DEFINE u == parts(a) \o parts(b)
             v == parts(c)
  <2>1. /\ u \in Seq(Seq(Queries)) /\ v \in Seq(Seq(Queries)) /\ Len(u) = Len(v)
        /\ \A i \in 1 .. Len(v) : v[i] = u[i]
    BY <1>1, <1>2, <1>3, <1>4
  <2> HIDE DEF u, v
  <2>2. v = u
    BY <2>1, SeqEqual
  <2>3. QED BY <2>2 DEF u, v
<1>6. FlattenSeq(parts(a) \o parts(b)) = FlattenSeq(parts(a)) \o FlattenSeq(parts(b))
  BY <1>2, FlattenConcat
<1>7. QED BY <1>1, <1>2, <1>5, <1>6 DEF c

\* Those of one request more.
LEMMA QueriesAppend ==
  ASSUME NEW a \in Seq(Draft), NEW d \in Draft
  PROVE  QueriesOf(Append(a, d)) = QueriesOf(a) \o d.queries
<1> DEFINE b == <<d>>
<1>1. b \in Seq(Draft) /\ Append(a, d) = a \o b /\ Len(b) = 1 /\ b[1] = d
  BY AppendIsConcat
<1>2. [r \in DOMAIN b |-> b[r].queries] = <<d.queries>>
  OBVIOUS
<1>3. d.queries \in Seq(Queries)
  BY DEF Draft
<1>4. QueriesOf(b) = d.queries
  <2> DEFINE x == d.queries
  <2>1. Append(<<>>, x) = <<x>> /\ <<>> \in Seq(Seq(Queries))
    OBVIOUS
  <2>2. QueriesOf(b) = FlattenSeq(<<x>>)
    BY <1>2 DEF QueriesOf
  <2>3. x \in Seq(Queries)
    BY <1>3
  <2> HIDE DEF x, b
  <2>4. FlattenSeq(Append(<<>>, x)) = FlattenSeq(<<>>) \o x
    BY <2>1, <2>3, FlattenAppend
  <2>5. <<>> \o x = x
    BY <2>3, ConcatEmptySeq
  <2>6. x = d.queries
    BY DEF x
  <2>7. QED BY <2>1, <2>2, <2>4, <2>5, <2>6, FlattenNone
<1> HIDE DEF b
<1>5. QED BY <1>1, <1>4, QueriesConcat

\* Those of the first requests come first.
LEMMA QueriesOfFirst ==
  ASSUME NEW b \in Seq(Draft), NEW m \in 0 .. Len(b)
  PROVE  /\ SubSeq(b, 1, m) \in Seq(Draft)
         /\ \E rest \in Seq(Queries) : QueriesOf(b) = QueriesOf(SubSeq(b, 1, m)) \o rest
<1> DEFINE a == SubSeq(b, 1, m)
           c == SubSeq(b, m + 1, Len(b))
<1>1. Len(b) \in Nat /\ m \in Nat /\ 1 \in 1 .. Len(b) + 1 /\ m \in 0 .. Len(b) /\ Len(b) \in m .. Len(b)
      /\ m \in 1 - 1 .. Len(b)
  OBVIOUS
<1>2. a \o c = b
  BY <1>1, ConcatAdjacentSubSeq, SubSeqFull
<1>3. a \in Seq(Draft)
  BY FirstPlaces
<1>4. c \in Seq(Draft)
  <2>1. m + 1 \in Int /\ Len(b) \in Int /\ \A i \in m + 1 .. Len(b) : b[i] \in Draft
    BY <1>1
  <2>2. QED BY <2>1, SubSeqProperties
<1> HIDE DEF a, c
<1>5. QueriesOf(a \o c) = QueriesOf(a) \o QueriesOf(c)
  BY <1>3, <1>4, QueriesConcat
<1>6. QueriesOf(c) \in Seq(Queries)
  BY <1>4, QueriesTyped
<1>7. QED BY <1>2, <1>3, <1>5, <1>6 DEF a

\* The budget of all is the budget of the first of them.
LEMMA BudgetOfFirst ==
  ASSUME NEW a \in Seq(Queries), NEW b \in Seq(Queries), WithinBudget(a \o b)
  PROVE  WithinBudget(a)
<1> DEFINE c == a \o b
<1>1. /\ Len(c) = Len(a) + Len(b) /\ c \in Seq(Queries) /\ Len(a) \in Nat /\ Len(b) \in Nat
      /\ \A i \in 1 .. Len(a) + Len(b) : c[i] = IF i <= Len(a) THEN a[i] ELSE b[i - Len(a)]
  BY ConcatProperties
<1> HIDE DEF c
<1>2. Len(c) <= Budget /\ \A i, j \in 1 .. Len(c) : NormalOf[c[i]] = NormalOf[c[j]] => i = j
  <2>1. WithinBudget(c)
    BY DEF c
  <2>2. DOMAIN c = 1 .. Len(c)
    BY <1>1
  <2>3. QED BY <2>1, <2>2 DEF WithinBudget
<1>3. Len(a) <= Budget
  BY <1>1, <1>2, RunConstants
<1>4. \A i \in 1 .. Len(a) : i \in 1 .. Len(c) /\ c[i] = a[i]
  BY <1>1
<1>5. DOMAIN a = 1 .. Len(a)
  OBVIOUS
<1>6. QED BY <1>2, <1>3, <1>4, <1>5 DEF WithinBudget

\* A batch that does not repeat a query and that the budget has room for.
LEMMA BudgetOfNext ==
  ASSUME NEW a \in Seq(Queries), NEW b \in Seq(Queries), WithinBudget(a), Len(a) + Len(b) <= Budget,
         Distinct([i \in DOMAIN b |-> NormalOf[b[i]]]),
         ToSet([i \in DOMAIN b |-> NormalOf[b[i]]]) \cap {NormalOf[q] : q \in ToSet(a)} = {}
  PROVE  WithinBudget(a \o b)
<1> DEFINE c == a \o b
           normal == [i \in DOMAIN b |-> NormalOf[b[i]]]
           T == {NormalOf[b[i]] : i \in DOMAIN b}
<1>1. /\ Len(c) = Len(a) + Len(b) /\ c \in Seq(Queries) /\ Len(a) \in Nat /\ Len(b) \in Nat
      /\ \A i \in 1 .. Len(a) + Len(b) : c[i] = IF i <= Len(a) THEN a[i] ELSE b[i - Len(a)]
  BY ConcatProperties
<1>2. normal \in Seq(T) /\ Len(normal) = Len(b) /\ \A i \in 1 .. Len(b) : normal[i] = NormalOf[b[i]]
  OBVIOUS
<1>3. DOMAIN b = 1 .. Len(b) /\ DOMAIN a = 1 .. Len(a) /\ DOMAIN c = 1 .. Len(c)
  BY <1>1
<1> HIDE DEF T, c
<1>4. \A i, j \in 1 .. Len(b) : NormalOf[b[i]] = NormalOf[b[j]] => i = j
  <2>1. Cardinality(ToSet(normal)) = Len(normal)
    BY DEF Distinct
  <2> HIDE DEF normal
  <2>2. \A i, j \in 1 .. Len(normal) : normal[i] = normal[j] => i = j
    BY <1>2, <2>1, ToSetFinite
  <2>3. QED BY <1>2, <2>2
<1>5. \A i, j \in 1 .. Len(a) : NormalOf[a[i]] = NormalOf[a[j]] => i = j
  BY <1>3 DEF WithinBudget
<1>6. ASSUME NEW i \in 1 .. Len(a), NEW j \in 1 .. Len(b) PROVE NormalOf[a[i]] # NormalOf[b[j]]
  <2>1. a[i] \in ToSet(a) /\ normal[j] \in ToSet(normal)
    BY <1>2, <1>3 DEF ToSet
  <2>2. NormalOf[a[i]] \in {NormalOf[q] : q \in ToSet(a)}
    BY <2>1
  <2>3. QED BY <1>2, <2>1, <2>2
<1>7. ASSUME NEW i \in 1 .. Len(c), NEW j \in 1 .. Len(c), NormalOf[c[i]] = NormalOf[c[j]] PROVE i = j
  <2>1. \A k \in 1 .. Len(c) : \/ k <= Len(a) /\ k \in 1 .. Len(a) /\ c[k] = a[k]
                               \/ k > Len(a) /\ k - Len(a) \in 1 .. Len(b) /\ c[k] = b[k - Len(a)]
    BY <1>1
  <2>2. CASE i <= Len(a) /\ j <= Len(a)
    BY <1>1, <1>5, <1>7, <2>1, <2>2
  <2>3. CASE i <= Len(a) /\ j > Len(a)
    <3>1. c[i] = a[i] /\ i \in 1 .. Len(a) /\ c[j] = b[j - Len(a)] /\ j - Len(a) \in 1 .. Len(b)
      BY <1>1, <2>1, <2>3
    <3>2. QED BY <1>6, <1>7, <3>1
  <2>4. CASE i > Len(a) /\ j <= Len(a)
    <3>1. c[j] = a[j] /\ j \in 1 .. Len(a) /\ c[i] = b[i - Len(a)] /\ i - Len(a) \in 1 .. Len(b)
      BY <1>1, <2>1, <2>4
    <3>2. QED BY <1>6, <1>7, <3>1
  <2>5. CASE i > Len(a) /\ j > Len(a)
    <3>1. c[i] = b[i - Len(a)] /\ c[j] = b[j - Len(a)] /\ i - Len(a) \in 1 .. Len(b) /\ j - Len(a) \in 1 .. Len(b)
      BY <1>1, <2>1, <2>5
    <3>2. i - Len(a) = j - Len(a)
      BY <1>4, <1>7, <3>1
    <3>3. QED BY <1>1, <3>2
  <2>6. QED BY <1>1, <2>2, <2>3, <2>4, <2>5
<1>8. QED BY <1>1, <1>3, <1>7 DEF WithinBudget, c

-----------------------------------------------------------------------------
(* The report.                                                             *)

\* Packs are packs of cards.
LEMMA PacksArePacks ==
  ASSUME NEW ps \in Seq(Packs)
  PROVE  ps \in Seq(Pack)
  BY RunConstants, SeqMonotonic

\* The coverage lists every request; it is sufficient when every request was
\* answered and the evidence is.
LEMMA CoverageIs ==
  ASSUME NEW requests \in Seq(Draft), NEW ps \in Seq(Packs)
  PROVE  /\ Coverage(requests, ps) \in [sufficient : BOOLEAN, covers : Seq(SUBSET Cards)]
         /\ Len(Coverage(requests, ps).covers) = Len(requests)
         /\ Coverage(requests, ps).sufficient <=>
              Sufficient(Questions(requests), ps) /\ Len(ps) = Len(requests)
<1> DEFINE q == Questions(requests)
           c(r) == IF r \in DOMAIN ps THEN EvidenceOf(q, ps, r) ELSE {}
           covers == [r \in DOMAIN requests |-> c(r)]
           enough == Sufficient(q, ps) /\ Len(ps) = Len(requests)
<1>1. Coverage(requests, ps) = [sufficient |-> enough, covers |-> covers]
  BY DEF Coverage
<1>2. ToSet(Selected(q, ps)) \subseteq Cards
  <2>1. Chosen(ps, Selected(q, ps), MaxEvidence)
    BY PacksArePacks, SelectedIs
  <2>2. QED BY <2>1, ToSetFinite DEF Chosen
<1>3. \A r : c(r) \in SUBSET Cards
  BY <1>2 DEF EvidenceOf
<1> HIDE DEF c
<1>4. covers \in Seq(SUBSET Cards) /\ Len(covers) = Len(requests)
  <2>1. Len(requests) \in Nat /\ DOMAIN requests = 1 .. Len(requests)
    OBVIOUS
  <2>2. QED BY <1>3, <2>1
<1>5. enough \in BOOLEAN
  OBVIOUS
<1> HIDE DEF covers, enough
<1>6. /\ Coverage(requests, ps) \in [sufficient : BOOLEAN, covers : Seq(SUBSET Cards)]
      /\ Coverage(requests, ps).covers = covers /\ Coverage(requests, ps).sufficient = enough
  BY <1>1, <1>4, <1>5
<1>7. Coverage(requests, ps).sufficient <=> Sufficient(q, ps) /\ Len(ps) = Len(requests)
  BY <1>6, Zenon DEF enough
<1>8. QED BY <1>4, <1>6, <1>7

\* Without a pack nothing is sufficient.
LEMMA NothingIsNotSufficient ==
  ASSUME NEW q
  PROVE  ~ Sufficient(q, <<>>)
  BY DEF Sufficient

-----------------------------------------------------------------------------
(* The invariant.                                                          *)

\* It holds at first.
LEMMA RunInit == Init => RunInv
<1> SUFFICES ASSUME Init PROVE RunInv
  OBVIOUS
<1>1. RunTyped
  <2>1. scheduled \in Seq(Draft) /\ packs \in Seq(Packs) /\ executed \in Seq(Queries)
    BY DEF Init
  <2>2. report \in [sufficient : BOOLEAN, covers : Seq(SUBSET Cards)]
    BY DEF Init
  <2>3. allowInsufficient \in BOOLEAN /\ aborted \in BOOLEAN /\ partial \in BOOLEAN
    BY DEF Init
  <2>4. QED BY <2>1, <2>2, <2>3 DEF RunTyped
<1>2. SubSeq(<<>>, 1, 0) = <<>> /\ Len(<<>>) = 0
  BY SubSeqEmpty
<1>3. Rounds
  <2>1. executed = QueriesOf(SubSeq(scheduled, 1, 0)) /\ 0 \in 0 .. Len(scheduled)
    <3>1. executed = <<>> /\ scheduled = <<>>
      BY DEF Init
    <3>2. SubSeq(scheduled, 1, 0) = <<>> /\ Len(scheduled) = 0
      BY <1>2, <3>1, Zenon
    <3>3. executed = QueriesOf(SubSeq(scheduled, 1, 0))
      BY <3>1, <3>2, QueriesNone, Zenon
    <3>4. QED BY <3>2, <3>3
  <2>2. QED BY <1>2, <2>1 DEF Init, Rounds
<1>4. ScheduleOK
  BY QueriesNone, RunConstants DEF Init, ScheduleOK, WithinBudget
<1>5. result # "done"
  BY RunConstants DEF Init
<1>6. ReportOK
  BY <1>5 DEF Init, ReportOK, ReportTellsTheTruth
<1>7. QED BY <1>1, <1>3, <1>4, <1>6 DEF RunInv

\* Nothing that is scheduled, answered or charged changes, nor what is reported;
\* the run goes on, or ends otherwise than done.
LEMMA StandsStill ==
  ASSUME RunInv, UNCHANGED <<rounds, scheduled, packs, executed, partial, report>>,
         allowInsufficient' \in BOOLEAN, aborted' \in BOOLEAN,
         \/ pc' = pc /\ result' = result
         \/ pc = "start" /\ pc' = "plan" /\ result' = result
         \/ pc # "done" /\ pc' = "done" /\ result' # "done"
  PROVE  RunInv'
<1>1. RunTyped'
  BY DEF RunInv, RunTyped
<1>2. Rounds'
  BY DEF RunInv, Rounds
<1>3. ScheduleOK'
  BY DEF RunInv, ScheduleOK, WithinBudget
<1>4. ReportOK'
  BY DEF RunInv, ReportOK, ReportTellsTheTruth
<1>5. QED BY <1>1, <1>2, <1>3, <1>4 DEF RunInv

\* researchRound up to its first request, from a planner's or a supplement's batch.
LEMMA StartRoundKeeps ==
  ASSUME RunInv, NEW batch \in Batches, NEW policy, StartRound(batch, policy),
         pc \in {"plan", "supplement"}, UNCHANGED <<allowInsufficient, aborted, packs, partial>>
  PROVE  RunInv'
<1>1. CASE UNCHANGED <<rounds, scheduled, executed, report>> /\ pc' = "done" /\ result' # "done"
  BY <1>1, StandsStill DEF RunInv, RunTyped
<1>2. CASE /\ ValidDrafts(batch, policy) /\ ~ Repeats(batch)
           /\ Len(executed) + Len(QueriesOf(batch)) <= Budget
           /\ scheduled' = scheduled \o batch /\ rounds' = rounds + 1
           /\ executed' = executed \o batch[1].queries
           /\ report' = IF packs = <<>> THEN report ELSE Coverage(scheduled', packs)
           /\ pc' = "research" /\ UNCHANGED result
  <2> DEFINE n == Len(scheduled)
             first == Append(scheduled, batch[1])
  <2>1. /\ scheduled \in Seq(Draft) /\ batch \in Seq(Draft) /\ Len(batch) \in 1 .. 3 /\ batch[1] \in Draft
        /\ n \in Nat /\ Len(packs) \in Nat /\ packs \in Seq(Packs) /\ executed \in Seq(Queries)
    BY <1>2, RunConstants DEF RunInv, RunTyped, ValidDrafts
  <2>2. Len(packs) = n /\ executed = QueriesOf(scheduled) /\ rounds \in {0, 1}
    BY QueriesNone DEF RunInv, Rounds
  <2>3. scheduled' \in Seq(Draft) /\ Len(scheduled') = n + Len(batch) /\ n + 1 \in 0 .. Len(scheduled')
    BY <1>2, <2>1, ConcatProperties
  <2>4. SubSeq(scheduled', 1, n + 1) = first
    <3>1. /\ Len(first) = n + 1 /\ first \in Seq(Draft)
          /\ \A i \in 1 .. n : first[i] = scheduled[i]
          /\ first[n + 1] = batch[1]
      BY <2>1, AppendProperties
    <3>2. /\ SubSeq(scheduled', 1, n + 1) \in Seq(Draft) /\ Len(SubSeq(scheduled', 1, n + 1)) = n + 1
          /\ \A i \in 1 .. n + 1 : SubSeq(scheduled', 1, n + 1)[i] = scheduled'[i]
      BY <2>3, FirstPlaces
    <3>3. (\A i \in 1 .. n : scheduled'[i] = scheduled[i]) /\ scheduled'[n + 1] = batch[1]
      <4>1. \A i \in 1 .. n + Len(batch) :
              (scheduled \o batch)[i] = IF i <= n THEN scheduled[i] ELSE batch[i - n]
        BY <2>1, ConcatProperties
      <4>2. n + 1 \in 1 .. n + Len(batch) /\ ~ n + 1 <= n /\ (n + 1) - n = 1
            /\ \A i \in 1 .. n : i \in 1 .. n + Len(batch) /\ i <= n
        BY <2>1
      <4>3. QED BY <1>2, <4>1, <4>2
    <3> DEFINE u == SubSeq(scheduled', 1, n + 1)
    <3> HIDE DEF u, first
    <3>4. \A i \in 1 .. n + 1 : u[i] = first[i]
      <4>1. \A i \in 1 .. n + 1 : i \in 1 .. n \/ i = n + 1
        BY <2>1
      <4>2. QED BY <3>1, <3>2, <3>3, <4>1 DEF u
    <3>5. u = first
      BY <3>1, <3>2, <3>4, SeqEqual DEF u
    <3>6. QED BY <3>5 DEF u
  <2>5. executed' = QueriesOf(SubSeq(scheduled', 1, n + 1))
    BY <1>2, <2>1, <2>2, <2>4, QueriesAppend
  <2>6. RunTyped'
    <3>1. executed' \in Seq(Queries)
      BY <2>3, <2>5, QueriesTyped, FirstPlaces
    <3>2. report' \in [sufficient : BOOLEAN, covers : Seq(SUBSET Cards)]
      BY <1>2, <2>1, <2>3, CoverageIs DEF RunInv, RunTyped
    <3>3. QED BY <2>3, <3>1, <3>2 DEF RunInv, RunTyped
  <2>7. Rounds'
    <3>1. Len(packs') = n /\ n < Len(scheduled') /\ rounds' \in 1 .. 2 /\ pc' = "research"
      BY <1>2, <2>1, <2>2, <2>3
    <3>2. executed' = QueriesOf(SubSeq(scheduled', 1, Len(packs') + 1))
      BY <2>5, <3>1
    <3>3. \E m \in 0 .. Len(scheduled') : executed' = QueriesOf(SubSeq(scheduled', 1, m))
      BY <2>3, <2>5
    <3> HIDE DEF n
    <3>4. QED BY <2>1, <2>3, <3>1, <3>2, <3>3 DEF Rounds
  <2>8. ScheduleOK'
    <3>1. QueriesOf(scheduled') = executed \o QueriesOf(batch)
      BY <1>2, <2>1, <2>2, QueriesConcat
    <3>2. WithinBudget(executed)
      BY <2>2 DEF RunInv, ScheduleOK
    <3>3. QueriesOf(batch) \in Seq(Queries)
      BY <2>1, QueriesTyped
    <3>4. WithinBudget(executed \o QueriesOf(batch))
      <4> DEFINE next == QueriesOf(batch)
                 normal == [i \in DOMAIN next |-> NormalOf[next[i]]]
      <4>1. Distinct(normal) /\ ToSet(normal) \cap {NormalOf[q] : q \in ToSet(executed)} = {}
        BY <1>2 DEF Repeats
      <4>2. next \in Seq(Queries) /\ Len(executed) + Len(next) <= Budget
        BY <1>2, <3>3
      <4> HIDE DEF next
      <4>3. WithinBudget(executed \o next)
        BY <2>1, <3>2, <4>1, <4>2, BudgetOfNext
      <4>4. QED BY <4>3 DEF next
    <3>5. QED BY <3>1, <3>4 DEF ScheduleOK, WithinBudget
  <2>9. ReportOK'
    <3>1. result' # "done" /\ pc' = "research"
      BY <1>2 DEF RunInv, ReportOK
    <3>2. CASE packs = <<>>
      BY <1>2, <3>1, <3>2 DEF RunInv, ReportOK, ReportTellsTheTruth
    <3>3. CASE packs # <<>>
      <4>1. Len(report'.covers) = Len(scheduled') /\ ~ report'.sufficient
        <5>1. Len(packs) # Len(scheduled')
          BY <2>1, <2>2, <2>3
        <5>2. QED BY <1>2, <2>1, <2>3, <3>3, <5>1, CoverageIs
      <4>2. QED BY <1>2, <3>1, <4>1 DEF ReportOK, ReportTellsTheTruth
    <3>4. QED BY <3>2, <3>3
  <2>10. QED BY <2>6, <2>7, <2>8, <2>9 DEF RunInv
<1>3. QED
  <2>1. executed \in Seq(Queries) /\ batch \in Seq(Draft) /\ Budget \in Nat
    BY RunConstants DEF RunInv, RunTyped
  <2>2. Len(executed) \in Nat /\ Len(QueriesOf(batch)) \in Nat
    BY <2>1, QueriesTyped
  <2>3. ~ Len(executed) + Len(QueriesOf(batch)) > Budget => Len(executed) + Len(QueriesOf(batch)) <= Budget
    BY <2>1, <2>2
  <2>4. "invalid_queries" # "done" /\ "query_budget_exhausted" # "done"
    OBVIOUS
  <2>5. QED BY <1>1, <1>2, <2>3, <2>4, Zenon DEF StartRound, End

\* A planner's or a supplement's call returned.
LEMMA PlannedKeeps ==
  ASSUME RunInv, Planned \/ Supplemented
  PROVE  RunInv'
<1>1. pc \in {"plan", "supplement"} /\ UNCHANGED <<allowInsufficient, aborted, packs, partial>>
  BY DEF Planned, Supplemented
<1>2. ASSUME NEW code \in {"needs_clarification", "insufficient_coverage"},
             End(code), UNCHANGED <<rounds, scheduled, executed, report>>
      PROVE  RunInv'
  <2>1. pc # "done" /\ pc' = "done" /\ result' # "done"
    BY <1>1, <1>2 DEF End
  <2>2. QED BY <1>1, <1>2, <2>1, StandsStill DEF RunInv, RunTyped
<1>3. \/ \E code \in {"needs_clarification", "insufficient_coverage"} :
           End(code) /\ UNCHANGED <<rounds, scheduled, executed, report>>
      \/ \E batch \in Batches, policy \in {"initial", "supplemental"} : StartRound(batch, policy)
  BY DEF Planned, Supplemented
<1>4. QED BY <1>1, <1>2, <1>3, StartRoundKeeps

\* The run starts, a call fails, a result is refused, the deadline passes.
LEMMA OthersKeep ==
  ASSUME RunInv, Start \/ Deadline \/ CallFails \/ ResultRefused \/ UNCHANGED vars
  PROVE  RunInv'
<1>1. CASE Start
  BY <1>1, StandsStill DEF Start, RunInv, RunTyped
<1>2. CASE Deadline
  BY <1>2, StandsStill DEF Deadline, RunInv, RunTyped
<1>3. CASE CallFails
  BY <1>3, StandsStill DEF CallFails, Waiting, End, RunInv, RunTyped
<1>4. CASE ResultRefused
  BY <1>4, StandsStill DEF ResultRefused, End, RunInv, RunTyped
<1>5. CASE UNCHANGED vars
  BY <1>5, StandsStill DEF vars, RunInv, RunTyped
<1>6. QED BY <1>1, <1>2, <1>3, <1>4, <1>5

\* A request was answered.
LEMMA ResearchedKeeps ==
  ASSUME RunInv, Researched
  PROVE  RunInv'
<1> DEFINE n == Len(packs)
<1>1. PICK pack \in Packs, isPartial \in BOOLEAN :
        /\ packs' = Append(packs, pack)
        /\ partial' = (partial \/ isPartial)
        /\ IF isPartial /\ ~ allowInsufficient
           THEN End("partial_research") /\ report' = Coverage(scheduled, packs') /\ UNCHANGED executed
           ELSE IF Len(packs') = Len(scheduled)
           THEN AfterRound /\ UNCHANGED executed
           ELSE /\ report' = Coverage(scheduled, packs')
                /\ executed' = executed \o scheduled[Len(packs') + 1].queries
                /\ UNCHANGED <<pc, result>>
  BY DEF Researched
<1>2. pc = "research" /\ UNCHANGED <<allowInsufficient, aborted, rounds, scheduled>> /\ result # "done"
  BY DEF Researched, RunInv, ReportOK
<1>3. /\ scheduled \in Seq(Draft) /\ packs \in Seq(Packs) /\ executed \in Seq(Queries)
      /\ Len(scheduled) \in Nat /\ n \in Nat /\ rounds \in 1 .. 2
      /\ n < Len(scheduled) /\ executed = QueriesOf(SubSeq(scheduled, 1, n + 1))
  BY <1>2 DEF RunInv, RunTyped, Rounds
<1>4. packs' \in Seq(Packs) /\ Len(packs') = n + 1 /\ packs' # <<>>
  BY <1>1, <1>3, AppendProperties
<1>5. n + 1 \in 0 .. Len(scheduled)
  BY <1>3
<1>6. /\ Coverage(scheduled, packs') \in [sufficient : BOOLEAN, covers : Seq(SUBSET Cards)]
      /\ Len(Coverage(scheduled, packs').covers) = Len(scheduled)
      /\ Coverage(scheduled, packs').sufficient <=>
           Sufficient(Questions(scheduled), packs') /\ Len(packs') = Len(scheduled)
  BY <1>3, <1>4, CoverageIs
<1>7. ScheduleOK'
  BY <1>2 DEF RunInv, ScheduleOK, WithinBudget
<1>8. CASE /\ pc' = "done" /\ result' # "done" /\ report' = Coverage(scheduled, packs') /\ UNCHANGED executed
           /\ result' = "partial_research" \/ ~ Sufficient(Questions(scheduled), packs')
  <2>1. RunTyped'
    BY <1>1, <1>2, <1>3, <1>4, <1>6, <1>8 DEF RunInv, RunTyped
  <2>2. Rounds'
    BY <1>2, <1>3, <1>4, <1>5, <1>8 DEF RunInv, Rounds
  <2>3. ReportOK'
    BY <1>2, <1>4, <1>6, <1>8 DEF ReportOK, ReportTellsTheTruth
  <2>4. QED BY <1>7, <2>1, <2>2, <2>3 DEF RunInv
<1>9. CASE /\ Len(packs') = Len(scheduled) /\ UNCHANGED executed /\ pc' = "done" /\ result' = "done"
           /\ report' = [Coverage(scheduled, packs') EXCEPT !.sufficient = @ /\ ~ partial']
  <2> DEFINE c == Coverage(scheduled, packs')
  <2>1. /\ report' = [c EXCEPT !.sufficient = c.sufficient /\ ~ partial']
        /\ c \in [sufficient : BOOLEAN, covers : Seq(SUBSET Cards)]
    BY <1>6, <1>9
  <2> HIDE DEF c
  <2>2. partial' \in BOOLEAN
    BY <1>1 DEF RunInv, RunTyped
  <2>3. /\ report' \in [sufficient : BOOLEAN, covers : Seq(SUBSET Cards)]
        /\ report'.covers = c.covers /\ report'.sufficient = (c.sufficient /\ ~ partial')
    BY <2>1, <2>2
  <2>4. RunTyped'
    BY <1>1, <1>2, <1>3, <1>4, <1>9, <2>2, <2>3 DEF RunInv, RunTyped
  <2>5. Rounds'
    BY <1>2, <1>3, <1>4, <1>5, <1>9 DEF RunInv, Rounds
  <2>6. /\ Len(report'.covers) = Len(scheduled)
        /\ report'.sufficient <=> Sufficient(Questions(scheduled), packs') /\ ~ partial'
    BY <1>6, <1>9, <2>3 DEF c
  <2>7. ReportOK'
    BY <1>2, <1>4, <1>9, <2>6 DEF ReportOK, ReportTellsTheTruth
  <2>8. QED BY <1>7, <2>4, <2>5, <2>7 DEF RunInv
<1>10. CASE /\ Len(packs') = Len(scheduled) /\ UNCHANGED executed /\ rounds = 1 /\ pc' = "supplement"
            /\ report' = Coverage(scheduled, packs') /\ UNCHANGED result
            /\ ~ Sufficient(Questions(scheduled), packs')
  <2>1. RunTyped'
    BY <1>1, <1>2, <1>3, <1>4, <1>6, <1>10 DEF RunInv, RunTyped
  <2>2. executed = QueriesOf(scheduled)
    BY <1>3, <1>4, <1>10, SubSeqFull
  <2>3. Rounds'
    BY <1>2, <1>3, <1>4, <1>5, <1>10, <2>2 DEF RunInv, Rounds
  <2>4. ReportOK'
    BY <1>2, <1>4, <1>6, <1>10 DEF ReportOK, ReportTellsTheTruth
  <2>5. QED BY <1>7, <2>1, <2>3, <2>4 DEF RunInv
<1>11. CASE /\ Len(packs') # Len(scheduled) /\ report' = Coverage(scheduled, packs')
            /\ executed' = executed \o scheduled[Len(packs') + 1].queries /\ UNCHANGED <<pc, result>>
  <2>1. n + 1 \in 0 .. Len(scheduled) - 1 /\ n + 2 \in 0 .. Len(scheduled) /\ (n + 1) + 1 = n + 2
        /\ n + 2 \in 1 .. Len(scheduled)
    BY <1>3, <1>4, <1>11
  <2>2. SubSeq(scheduled, 1, n + 2) = Append(SubSeq(scheduled, 1, n + 1), scheduled[n + 2])
    BY <1>3, <2>1, FirstPlacesGrow
  <2>3. executed' = QueriesOf(SubSeq(scheduled, 1, n + 2))
    <3>1. SubSeq(scheduled, 1, n + 1) \in Seq(Draft) /\ scheduled[n + 2] \in Draft
      BY <1>3, <1>5, <2>1, FirstPlaces
    <3>2. QueriesOf(Append(SubSeq(scheduled, 1, n + 1), scheduled[n + 2])) =
            QueriesOf(SubSeq(scheduled, 1, n + 1)) \o scheduled[n + 2].queries
      BY <3>1, QueriesAppend
    <3>3. QED BY <1>3, <1>4, <1>11, <2>1, <2>2, <3>2
  <2>4. RunTyped'
    <3>1. executed' \in Seq(Queries)
      BY <1>3, <2>1, <2>3, FirstPlaces, QueriesTyped
    <3>2. QED BY <1>1, <1>2, <1>3, <1>4, <1>6, <1>11, <3>1 DEF RunInv, RunTyped
  <2>5. Rounds'
    <3>1. Len(packs') + 1 = n + 2 /\ Len(packs') < Len(scheduled)
      BY <1>3, <1>4, <2>1
    <3>2. /\ executed' = QueriesOf(SubSeq(scheduled', 1, Len(packs') + 1))
          /\ \E m \in 0 .. Len(scheduled') : executed' = QueriesOf(SubSeq(scheduled', 1, m))
      BY <1>2, <2>1, <2>3, <3>1
    <3>3. pc' = "research" /\ rounds' \in 1 .. 2 /\ Len(packs') <= Len(scheduled') /\ Len(packs') < Len(scheduled')
      BY <1>2, <1>3, <1>4, <1>11, <3>1
    <3>4. QED BY <3>2, <3>3 DEF Rounds
  <2>6. ReportOK'
    BY <1>2, <1>4, <1>6, <1>11 DEF ReportOK, ReportTellsTheTruth
  <2>7. QED BY <1>7, <2>4, <2>5, <2>6 DEF RunInv
<1>12. "partial_research" # "done" /\ "insufficient_coverage" # "done"
  OBVIOUS
<1>13. QED BY <1>1, <1>8, <1>9, <1>10, <1>11, <1>12, Zenon DEF AfterRound, End

\* Every step keeps the invariant.
LEMMA RunNext == RunInv /\ [Next]_vars => RunInv'
  BY PlannedKeeps, OthersKeep, ResearchedKeeps DEF Next

\* The research controller's runs are well-formed: rounds, requests, packs and
\* charges are in step.
THEOREM RunInvariant == Spec => []RunInv
  BY RunInit, RunNext, PTL DEF Spec

\* Whatever the planner and the provider return, states are of their types.
THEOREM RunTypeCorrect == Spec => []TypeOK
<1>1. RunInv => TypeOK
  BY DEF RunInv, RunTyped, Rounds, TypeOK
<1>2. QED BY <1>1, RunInvariant, PTL

\* Over both rounds the run stays within its query budget and executes no query
\* twice, in any spelling (researchRound, normalizeQuery).
THEOREM QueriesAreWithinBudget == Spec => []QueriesWithinBudget
<1>1. RunInv => QueriesWithinBudget
  <2> SUFFICES ASSUME RunInv PROVE QueriesWithinBudget
    OBVIOUS
  <2>1. scheduled \in Seq(Draft) /\ WithinBudget(QueriesOf(scheduled))
    BY DEF RunInv, RunTyped, ScheduleOK
  <2>2. PICK m \in 0 .. Len(scheduled) : executed = QueriesOf(SubSeq(scheduled, 1, m))
    BY DEF RunInv, Rounds
  <2>3. PICK rest \in Seq(Queries) : QueriesOf(scheduled) = executed \o rest
    BY <2>1, <2>2, QueriesOfFirst
  <2>4. executed \in Seq(Queries)
    BY DEF RunInv, RunTyped
  <2>5. WithinBudget(executed)
    BY <2>1, <2>3, <2>4, BudgetOfFirst
  <2>6. QED BY <2>5 DEF WithinBudget, QueriesWithinBudget
<1>2. QED BY <1>1, RunInvariant, PTL

\* What is saved of a run, however it ends: each request is listed, coverage is
\* called sufficient only when all were answered and their evidence suffices, and
\* with a partial answer only of a strict run that stopped at it (updateCoverage).
THEOREM ReportsTellTheTruth == Spec => []ReportTellsTheTruth
<1>1. RunInv => ReportTellsTheTruth
  BY DEF RunInv, ReportOK
<1>2. QED BY <1>1, RunInvariant, PTL

\* Of any packs that may come back, the cards selected respect the budgets, no
\* content is left out there was room for, and each route that is kept is
\* supported by the cards of its own request (aggregateResearchEvidence).
THEOREM EvidenceIsAlwaysSupported == Spec => []EvidenceIsSupported
<1>1. RunInv => EvidenceIsSupported
  <2> SUFFICES ASSUME RunInv PROVE EvidenceIsSupported
    OBVIOUS
  <2>1. packs \in Seq(Pack)
    BY PacksArePacks DEF RunInv, RunTyped
  <2>2. Supported(Questions(SubSeq(scheduled, 1, Len(packs))), packs)
    BY <2>1, AllSupported
  <2>3. QED BY <2>2 DEF Supported, EvidenceIsSupported, WithinLimits, OfSource, OfAuthor
<1>2. QED BY <1>1, RunInvariant, PTL

=============================================================================
