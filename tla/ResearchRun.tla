----------------------------- MODULE ResearchRun -----------------------------
(***************************************************************************)
(* runResearchController: a planner's questions, the requests they become, *)
(* at most one supplementary round, all under one query budget and one     *)
(* deadline, and the report that is saved whether the run succeeds or not. *)
(*                                                                         *)
(* The provider may be any that implements the interface: what it returns  *)
(* is checked here.  Its calls settle (ProviderCall); each action is what  *)
(* the controller does when one has.                                       *)
(***************************************************************************)
EXTENDS ResearchEvidence

CONSTANTS
  Queries, NormalOf,   \* queries, and what normalizeQuery makes of them
  Batches,             \* what planners may ask: sequences of questions with their queries
  Packs,               \* what requests may return
  Budget               \* queryBudget

\* ResearchQuestionDraft: a question and the queries it is looked up with.
Draft == [question : STRING, queries : Seq(Queries)]

ASSUME RunConstants ==
  /\ Batches \subseteq Seq(Draft) /\ Packs \subseteq Pack /\ Budget \in Nat
  /\ None # "done"

VARIABLES
  allowInsufficient,   \* the evidence policy
  pc,                  \* the call waited for: "plan", "research", "supplement"; "start", "done"
  aborted,             \* the deadline has passed
  rounds,
  scheduled,           \* requests of all rounds; they are executed in this order
  packs,               \* of the requests that were completed
  executed,            \* queries, charged when their request starts
  partial,             \* a stage ended "partial"
  report,              \* coverage and questionCoverage
  result               \* None, "done", or the code of the error

vars == <<allowInsufficient, pc, aborted, rounds, scheduled, packs, executed, partial, report, result>>

Questions(requests) == [r \in DOMAIN requests |-> requests[r].question]
QueriesOf(batch)    == FlattenSeq([r \in DOMAIN batch |-> batch[r].queries])
Distinct(s)         == Cardinality(ToSet(s)) = Len(s)

Init ==
  /\ allowInsufficient \in BOOLEAN
  /\ pc = "start" /\ aborted = FALSE /\ rounds = 0 /\ result = None
  /\ scheduled = <<>> /\ packs = <<>> /\ executed = <<>> /\ partial = FALSE
  /\ report = [sufficient |-> FALSE, covers |-> <<>>]

\* Faulty variant: requests that were not executed are not mentioned.
CoverageOfCompleted(requests, ps) ==
  [sufficient |-> Sufficient(Questions(requests), ps),
   covers     |-> [r \in DOMAIN ps |-> EvidenceOf(Questions(requests), ps, r)]]

\* updateCoverage: the cards of each scheduled request; an unfinished one has
\* none and makes the coverage insufficient.
Coverage(requests, ps) ==
  [sufficient |-> Sufficient(Questions(requests), ps) /\ Len(ps) = Len(requests),
   covers     |-> [r \in DOMAIN requests |->
                     IF r \in DOMAIN ps THEN EvidenceOf(Questions(requests), ps, r) ELSE {}]]

End(code) == pc' = "done" /\ result' = code

\* validateResearchQuestionDrafts.
ValidDrafts(batch, policy) ==
  LET all == QueriesOf(batch)
  IN  /\ Len(batch) \in 1 .. 3
      /\ Len(all) \in (IF policy = "initial" THEN 2 ELSE 1) .. 3
      /\ \A r \in DOMAIN batch : Len(batch[r].queries) \in 1 .. 2
      /\ Distinct(all) /\ Distinct(Questions(batch))

\* Faulty variant: queries are compared as they are written.
RepeatsSpelling(batch) == ~ Distinct(executed \o QueriesOf(batch))

\* A query of the batch was executed before, or is twice in it.
Repeats(batch) ==
  LET next   == QueriesOf(batch)
      normal == [i \in DOMAIN next |-> NormalOf[next[i]]]
  IN  ~ Distinct(normal) \/ ToSet(normal) \cap {NormalOf[q] : q \in ToSet(executed)} # {}

\* researchRound up to its first request.  Nothing of the batch is executed
\* before all of it was checked.
StartRound(batch, policy) ==
  IF ~ ValidDrafts(batch, policy) \/ Repeats(batch)
  THEN End("invalid_queries") /\ UNCHANGED <<rounds, scheduled, executed, report>>
  ELSE IF Len(executed) + Len(QueriesOf(batch)) > Budget
  THEN End("query_budget_exhausted") /\ UNCHANGED <<rounds, scheduled, executed, report>>
  ELSE /\ scheduled' = scheduled \o batch
       /\ rounds' = rounds + 1
       /\ executed' = executed \o batch[1].queries
       /\ report' = IF packs = <<>> THEN report ELSE Coverage(scheduled', packs)
       /\ pc' = "research" /\ UNCHANGED result

Start ==
  /\ pc = "start" /\ pc' = "plan"
  /\ UNCHANGED <<allowInsufficient, aborted, rounds, scheduled, packs, executed, partial, report, result>>

\* The deadline; the timer is cleared when the run ends.
Deadline ==
  /\ pc # "done" /\ ~ aborted /\ aborted' = TRUE
  /\ UNCHANGED <<allowInsufficient, pc, rounds, scheduled, packs, executed, partial, report, result>>

Waiting == pc \in {"plan", "research", "supplement"}

\* The call failed, or came back after the deadline.
CallFails ==
  /\ Waiting
  /\ End(IF aborted THEN "timeout" ELSE "provider_failed")
  /\ UNCHANGED <<allowInsufficient, aborted, rounds, scheduled, packs, executed, partial, report>>

Planned ==
  /\ pc = "plan" /\ ~ aborted
  /\ \/ End("needs_clarification") /\ UNCHANGED <<rounds, scheduled, executed, report>>
     \/ \E batch \in Batches : StartRound(batch, "initial")
  /\ UNCHANGED <<allowInsufficient, aborted, packs, partial>>

Supplemented ==
  /\ pc = "supplement" /\ ~ aborted
  /\ \/ End("insufficient_coverage") /\ UNCHANGED <<rounds, scheduled, executed, report>>
     \/ \E batch \in Batches : StartRound(batch, "supplemental")
  /\ UNCHANGED <<allowInsufficient, aborted, packs, partial>>

\* A result that breaks the search budget or contradicts other evidence.
ResultRefused ==
  /\ pc = "research" /\ ~ aborted
  /\ \E code \in {"invalid_response", "invalid_evidence"} : End(code)
  /\ UNCHANGED <<allowInsufficient, aborted, rounds, scheduled, packs, executed, partial, report>>

\* The last request of a round is done: the end, or a supplement.
AfterRound ==
  IF Sufficient(Questions(scheduled), packs') \/ allowInsufficient
  THEN /\ End("done")
       /\ report' = [Coverage(scheduled, packs') EXCEPT !.sufficient = @ /\ ~ partial']
  ELSE /\ report' = Coverage(scheduled, packs')
       /\ \/ rounds = 1 /\ pc' = "supplement" /\ UNCHANGED result
          \/ End("insufficient_coverage")   \* also of a provider that plans no supplement

\* A request was answered: its result counts whatever comes after it.
Researched ==
  /\ pc = "research" /\ ~ aborted
  /\ \E pack \in Packs, isPartial \in BOOLEAN :
       /\ packs' = Append(packs, pack)
       /\ partial' = (partial \/ isPartial)
       /\ IF isPartial /\ ~ allowInsufficient
          THEN End("partial_research") /\ report' = Coverage(scheduled, packs') /\ UNCHANGED executed
          ELSE IF Len(packs') = Len(scheduled)
          THEN AfterRound /\ UNCHANGED executed
          ELSE /\ report' = Coverage(scheduled, packs')
               /\ executed' = executed \o scheduled[Len(packs') + 1].queries
               /\ UNCHANGED <<pc, result>>
  /\ UNCHANGED <<allowInsufficient, aborted, rounds, scheduled>>

Next ==
  \/ Start \/ Deadline \/ CallFails
  \/ Planned \/ Supplemented \/ ResultRefused \/ Researched

Spec == Init /\ [][Next]_vars

-----------------------------------------------------------------------------

TypeOK ==
  /\ {allowInsufficient, aborted, partial, report.sufficient} \subseteq BOOLEAN
  /\ pc \in {"start", "plan", "research", "supplement", "done"} /\ rounds \in 0 .. 2
  /\ executed \in Seq(Queries) /\ packs \in Seq(Packs)
  /\ Len(packs) <= Len(scheduled) /\ report.covers \in Seq(SUBSET Cards)

\* Over both rounds the run stays within its query budget and executes no query
\* twice, in any spelling (researchRound, normalizeQuery).
QueriesWithinBudget ==
  /\ Len(executed) <= Budget
  /\ \A i, j \in DOMAIN executed : NormalOf[executed[i]] = NormalOf[executed[j]] => i = j

\* What is saved of a run, however it ends: once a request was answered each
\* scheduled request is listed; the coverage is called sufficient only when all
\* of them were answered and their evidence suffices; and if one was answered in
\* part only, then only of a strict run that stopped at it.  (There the code does
\* say so: it measures the coverage before it fails.)  A run that is done is
\* called sufficient exactly when its evidence is and no answer was partial.
ReportTellsTheTruth ==
  /\ packs # <<>> => Len(report.covers) = Len(scheduled)
  /\ report.sufficient => Len(packs) = Len(scheduled) /\ Sufficient(Questions(scheduled), packs)
  /\ report.sufficient /\ partial => result = "partial_research"
  /\ result = "done" => (report.sufficient <=> Sufficient(Questions(scheduled), packs) /\ ~ partial)

\* The cards that are selected respect the budgets, leave no content out that
\* there was room for; and each route that is kept cites cards selected for its own
\* request, one for each content that a route of its pack cited, none missing
\* (aggregateResearchEvidence).
EvidenceIsSupported ==
  LET questions == Questions(SubSeq(scheduled, 1, Len(packs)))
      chosen    == ToSet(Selected(questions, packs))
      full(c)   == \/ Cardinality({d \in chosen : SourceOf[d] = SourceOf[c]}) >= MaxPerSource
                   \/ /\ AuthorOf[c] # None
                      /\ Cardinality({d \in chosen : AuthorOf[d] = AuthorOf[c]}) >= MaxPerAuthor
  IN  /\ Cardinality(chosen) <= MaxEvidence
      /\ \A c \in chosen :
           /\ Cardinality({d \in chosen : SourceOf[d] = SourceOf[c]}) <= MaxPerSource
           /\ AuthorOf[c] # None =>
                Cardinality({d \in chosen : AuthorOf[d] = AuthorOf[c]}) <= MaxPerAuthor
      /\ Cardinality(chosen) < MaxEvidence =>
           \A r \in DOMAIN packs : \A c \in ToSet(packs[r].cards) :
             Alias(packs, c) \in chosen \/ full(Alias(packs, c))
      /\ \A r \in DOMAIN packs : \A route \in RoutesOf(questions, packs, r) :
           /\ route # {} /\ route \subseteq EvidenceOf(questions, packs, r)
           /\ \E cited \in packs[r].routes :
                {ContentOf[c] : c \in route} = {ContentOf[c] : c \in cited}
=============================================================================
