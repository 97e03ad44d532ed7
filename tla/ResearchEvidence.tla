-------------------------- MODULE ResearchEvidence --------------------------
(***************************************************************************)
(* aggregateResearchEvidence: from the evidence packs of several research  *)
(* requests, the few cards a roadmap may use, which request each of them   *)
(* serves, the routes they support, and whether that is enough.            *)
(*                                                                         *)
(* A card is an id with its attributes; the fingerprint of its content is  *)
(* the model value ContentOf gives it.  A request is known by its place in *)
(* the sequence of requests.                                               *)
(***************************************************************************)
EXTENDS Naturals, Sequences, FiniteSets, SequencesExt, FiniteSetsExt

CONSTANTS
  Cards,                  \* ids of evidence cards
  ContentOf,              \* a card's content: cards with the same are one
  SourceOf, AuthorOf,     \* of a card; the content tells the source, an author may be None
  Caveats, Applicable,    \* contents with a caveat, with conditions of use
  MaxEvidence,            \* cards selected in all
  TargetMin,              \* cards that are enough
  MaxPerSource, MaxPerAuthor,
  None

ASSUME EvidenceLimits == {MaxEvidence, TargetMin, MaxPerSource, MaxPerAuthor} \subseteq Nat

\* A pack's routes are the sets of cards they cite; "gap" is one a model stated.
Pack == [cards : Seq(Cards), routes : SUBSET SUBSET Cards, gap : BOOLEAN]

\* The cards of all packs, first ones first: the questions take turns.
Interleaved(packs) ==
  LET longest == Max({Len(packs[r].cards) : r \in DOMAIN packs} \cup {0})
      row(i)  == FlattenSeq([r \in DOMAIN packs |->
                               IF i <= Len(packs[r].cards) THEN <<packs[r].cards[i]>> ELSE <<>>])
  IN  FlattenSeq([i \in 1 .. longest |-> row(i)])

WithContent(seen, c) ==
  IF \E d \in ToSet(seen) : ContentOf[d] = ContentOf[c] THEN seen ELSE Append(seen, c)

\* The contents in the order they are first seen, each known by its first card.
Seen(all) ==
  LET seen[k \in 0 .. Len(all)] == IF k = 0 THEN <<>> ELSE WithContent(seen[k - 1], all[k])
  IN  seen

Contents(packs) == LET all == Interleaved(packs) IN Seen(all)[Len(all)]

\* aliases: the card that stands for a card.
Alias(packs, c) == CHOOSE d \in ToSet(Contents(packs)) : ContentOf[d] = ContentOf[c]

\* The requests a content serves: those whose pack has it, and those that ask
\* the same question.
Serves(questions, packs, c) ==
  LET own == {r \in DOMAIN packs : \E d \in ToSet(packs[r].cards) : ContentOf[d] = ContentOf[c]}
  IN  {r \in DOMAIN packs : \E q \in own : questions[q] = questions[r]}

\* The budgets of sources and authors leave room for the card.
MayAdd(selected, c) ==
  /\ c \notin ToSet(selected)
  /\ Cardinality({d \in ToSet(selected) : SourceOf[d] = SourceOf[c]}) < MaxPerSource
  /\ \/ AuthorOf[c] = None
     \/ Cardinality({d \in ToSet(selected) : AuthorOf[d] = AuthorOf[c]}) < MaxPerAuthor

\* A card counts for the questions nobody serves yet, and for the first caveat.
Score(questions, packs, selected, c) ==
  LET covered == UNION {Serves(questions, packs, d) : d \in ToSet(selected)}
  IN  10 * Cardinality(Serves(questions, packs, c) \ covered)
      + IF c \in Caveats /\ ToSet(selected) \cap Caveats = {} THEN 5 ELSE 0

\* Of the cards there is room for, the one with the highest score is added; of
\* equal scores the first.
Added(questions, packs, selected) ==
  LET all      == Contents(packs)
      room     == {i \in DOMAIN all : MayAdd(selected, all[i])}
      score(i) == Score(questions, packs, selected, all[i])
  IN  IF room = {} THEN selected
      ELSE Append(selected, all[CHOOSE i \in room : \A j \in room :
                                  score(i) > score(j) \/ (score(i) = score(j) /\ i <= j)])

\* The greedy selection, for each number of turns.
Selection(questions, packs) ==
  LET after[n \in 0 .. MaxEvidence] ==
        IF n = 0 THEN <<>> ELSE Added(questions, packs, after[n - 1])
  IN  after

Selected(questions, packs) == Selection(questions, packs)[MaxEvidence]

\* The selected cards that serve a request.
EvidenceOf(questions, packs, r) ==
  {c \in ToSet(Selected(questions, packs)) : r \in Serves(questions, packs, c)}

\* Faulty variant: a route keeps what is left of its citations.
RoutesOfTrimmed(questions, packs, r) ==
  LET chosen == ToSet(Selected(questions, packs))
      left(route) == {Alias(packs, c) : c \in route \cap ToSet(packs[r].cards)} \cap chosen
  IN  {left(route) : route \in packs[r].routes} \ {{}}

\* A route is kept only with all its citations.
RoutesOf(questions, packs, r) ==
  LET chosen == ToSet(Selected(questions, packs))
      kept   == {route \in packs[r].routes :
                   /\ route # {} /\ route \subseteq ToSet(packs[r].cards)
                   /\ \A c \in route : Alias(packs, c) \in chosen}
  IN  {{Alias(packs, c) : c \in route} : route \in kept}

\* assess of all packs: the cards are enough, one has a caveat, there is a
\* route, and no gap is left, stated or of a question without cards or without
\* conditions of use.
Sufficient(questions, packs) ==
  LET chosen == ToSet(Selected(questions, packs))
  IN  /\ Cardinality(chosen) >= TargetMin
      /\ chosen \cap Caveats # {}
      /\ \A r \in DOMAIN packs : ~ packs[r].gap /\ EvidenceOf(questions, packs, r) \cap Applicable # {}
      /\ \E r \in DOMAIN packs : RoutesOf(questions, packs, r) # {}
=============================================================================
