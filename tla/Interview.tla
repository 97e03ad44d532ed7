------------------------------ MODULE Interview ------------------------------
(***************************************************************************)
(* The interview that precedes a project: one session file, the handlers   *)
(* that ask, answer and finish it, and the one that turns it into a        *)
(* project.  The session's id in live.busy is its lock.                    *)
(*                                                                         *)
(* A step is the code between two awaits of one request, a write is the    *)
(* atomic rename of writeJsonAtomic.  An answer is known by the request    *)
(* that submitted it, a question by its number, a project by the request   *)
(* that created it.                                                        *)
(***************************************************************************)
EXTENDS Naturals, FiniteSets, Sequences, SequencesExt

CONSTANTS
  Requests,       \* the requests clients send about this interview
  None,           \* absence of a record
  MaxQuestions,   \* INTERVIEW_MAX_QUESTIONS
  MaxBatch,       \* questions in one round
  MaxTexts,       \* free text questions in all
  Attempts        \* INTERVIEW_GENERATION_ATTEMPTS

ASSUME BudgetAssumption ==
  /\ MaxQuestions \in Nat \ {0} /\ MaxBatch \in Nat \ {0}
  /\ MaxTexts \in Nat /\ Attempts \in Nat \ {0}

VARIABLES
  session,    \* interviews/<id>.json, or None
  projects,   \* projects whose plan.json was created from this interview
  baselines,  \* those of them that have their first commit
  busy,       \* live.busy has this session
  pc,         \* where each request is
  kind,       \* what each request is
  seen,       \* the session a request works on
  made,       \* the session the model's answer makes of it
  attempt,    \* which call of the model a request is making
  holders,    \* history: requests between busy.add and the end of finally
  faulted     \* history: the process died or a file write failed

files == <<session, projects, baselines>>
locals == <<kind, seen, made, attempt>>
vars == <<session, projects, baselines, busy, pc, kind, seen, made, attempt,
          holders, faulted>>

-----------------------------------------------------------------------------
Kinds == {"create", "view", "draft", "answers", "next", "finish", "project"}

Sessions ==
  [asked : 0 .. MaxQuestions, texts : 0 .. MaxTexts, answers : Seq(Requests),
   drafts : SUBSET (1 .. MaxQuestions), status : {"asking", "complete"},
   finishing : BOOLEAN, failed : BOOLEAN, project : Requests \cup {None}]

ASSUME NoneAssumption == None \notin Kinds /\ None \notin Sessions

Fresh == [asked |-> 0, texts |-> 0, answers |-> <<>>, drafts |-> {},
          status |-> "asking", finishing |-> FALSE, failed |-> FALSE, project |-> None]

\* The questions that have no answer yet.
Pending(s) == Len(s.answers) + 1 .. s.asked

Least(a, b) == IF a < b THEN a ELSE b

\* Faulty variants: the budget is that of one round; a request to finish is
\* forgotten; free text questions are counted by the round.
BatchLimitUncapped(s) == IF s.finishing THEN 0 ELSE MaxBatch
BatchLimitUnfinished(s) == Least(MaxBatch, MaxQuestions - s.asked)
TextLimitPerRound(s) == MaxTexts

\* What is left of the question budgets.
BatchLimit(s) == IF s.finishing THEN 0 ELSE Least(MaxBatch, MaxQuestions - s.asked)
TextLimit(s) == MaxTexts - s.texts

Goto(r, l) == pc' = [pc EXCEPT ![r] = l]
Lock(r) == busy' = TRUE /\ holders' = holders \cup {r}
Unlock(r) == busy' = FALSE /\ holders' = holders \ {r}
Release(r) == IF r \in holders THEN Unlock(r) ELSE UNCHANGED <<busy, holders>>

Close(r) ==
  /\ Goto(r, "done")
  /\ seen' = [seen EXCEPT ![r] = None]
  /\ made' = [made EXCEPT ![r] = None]
  /\ attempt' = [attempt EXCEPT ![r] = 0]
  /\ UNCHANGED kind

-----------------------------------------------------------------------------
(* Requests arrive.  A client knows a session once it has been created.    *)

Entry(k) ==
  CASE k = "create" -> "saveNew"
    [] k = "project" -> "peek"
    [] OTHER -> "acquire"

Arrive(r) ==
  /\ pc[r] = "idle"
  /\ \E k \in Kinds :
       /\ IF k = "create" THEN \A q \in Requests : kind[q] # "create" ELSE session # None
       /\ kind' = [kind EXCEPT ![r] = k]
       /\ Goto(r, Entry(k))
  /\ UNCHANGED <<files, seen, made, attempt, busy, holders, faulted>>

-----------------------------------------------------------------------------
(* Opening and reading the session.                                        *)

\* The session is on disk before its lock is taken, but nobody can learn its id
\* in between: a list that finds the file is answered some awaits later.
SaveNew(r) ==
  /\ pc[r] = "saveNew"
  /\ session' = Fresh
  /\ seen' = [seen EXCEPT ![r] = Fresh]
  /\ attempt' = [attempt EXCEPT ![r] = 1]
  /\ Lock(r)
  /\ Goto(r, "generate")
  /\ UNCHANGED <<projects, baselines, kind, made, faulted>>

\* Faulty variant: the lock is taken without looking whether it is free.
AcquireUnchecked(r) ==
  /\ pc[r] = "acquire"
  /\ Lock(r)
  /\ Goto(r, "read")
  /\ UNCHANGED <<files, locals, faulted>>

\* Every handler of the session, the one that only shows it too, takes the lock.
Acquire(r) ==
  /\ pc[r] = "acquire"
  /\ ~busy
  /\ Lock(r)
  /\ Goto(r, "read")
  /\ UNCHANGED <<files, locals, faulted>>

ReadView(r) ==
  /\ kind[r] = "view"
  /\ seen' = [seen EXCEPT ![r] = session]
  /\ Goto(r, "finish")
  /\ UNCHANGED attempt

\* saveInterviewDraft: drafts replace the drafts before, and are of pending questions.
ReadForDraft(r) ==
  /\ kind[r] = "draft"
  /\ session.status = "asking"
  /\ \E qs \in SUBSET Pending(session) :
       seen' = [seen EXCEPT ![r] = [session EXCEPT !.drafts = qs]]
  /\ Goto(r, "saveDraft")
  /\ UNCHANGED attempt

\* Faulty variant: a submission leaves the drafts of what it answers.
AnsweredDraftsLeft(s, r) ==
  [s EXCEPT !.answers = @ \o [i \in 1 .. s.asked - Len(s.answers) |-> r]]

\* acceptInterviewAnswers: one answer for each pending question.
Answered(s, r) ==
  [s EXCEPT !.answers = @ \o [i \in 1 .. s.asked - Len(s.answers) |-> r], !.drafts = {}]

ReadForAnswers(r) ==
  /\ kind[r] \in {"answers", "finish"}
  /\ session.status = "asking"
  /\ kind[r] = "answers" => Pending(session) # {}
  /\ seen' = [seen EXCEPT ![r] =
                [Answered(session, r) EXCEPT !.finishing = @ \/ kind[r] = "finish"]]
  /\ Goto(r, "saveAnswers")
  /\ UNCHANGED attempt

\* Faulty variant: a complete interview can be continued.
ReadForNextAlways(r) ==
  /\ kind[r] = "next"
  /\ Pending(session) = {}
  /\ seen' = [seen EXCEPT ![r] = session]
  /\ attempt' = [attempt EXCEPT ![r] = 1]
  /\ Goto(r, "generate")

ReadForNext(r) ==
  /\ kind[r] = "next"
  /\ session.status = "asking" /\ Pending(session) = {}
  /\ seen' = [seen EXCEPT ![r] = session]
  /\ attempt' = [attempt EXCEPT ![r] = 1]
  /\ Goto(r, "generate")

Read(r) ==
  /\ pc[r] = "read"
  /\ ReadView(r) \/ ReadForDraft(r) \/ ReadForAnswers(r) \/ ReadForNext(r)
  /\ UNCHANGED <<files, kind, made, busy, holders, faulted>>

SaveDraft(r) ==
  /\ pc[r] = "saveDraft"
  /\ session' = seen[r]
  /\ Goto(r, "finish")
  /\ UNCHANGED <<projects, baselines, locals, busy, holders, faulted>>

\* Faulty variant: the answers are only saved with what the model makes of them.
SaveAnswersLater(r) ==
  /\ pc[r] = "saveAnswers"
  /\ attempt' = [attempt EXCEPT ![r] = 1]
  /\ Goto(r, "generate")
  /\ UNCHANGED <<files, kind, seen, made, busy, holders, faulted>>

SaveAnswers(r) ==
  /\ pc[r] = "saveAnswers"
  /\ session' = seen[r]
  /\ attempt' = [attempt EXCEPT ![r] = 1]
  /\ Goto(r, "generate")
  /\ UNCHANGED <<projects, baselines, kind, seen, made, busy, holders, faulted>>

-----------------------------------------------------------------------------
(* The model asks more questions or sums up.                               *)

\* parseInterviewBatch: a round within the budgets ...
Batch(r) ==
  /\ \E n \in 1 .. BatchLimit(seen[r]) :
       \E t \in 0 .. Least(n, TextLimit(seen[r])) :
         made' = [made EXCEPT ![r] =
                    [seen[r] EXCEPT !.asked = @ + n, !.texts = @ + t, !.failed = FALSE]]
  /\ Goto(r, "saveMade")
  /\ UNCHANGED attempt

\* ... or a summary, of some answers unless the user asked to finish ...
Summary(r) ==
  /\ seen[r].finishing \/ seen[r].answers # <<>>
  /\ made' = [made EXCEPT ![r] = [seen[r] EXCEPT !.status = "complete", !.failed = FALSE]]
  /\ Goto(r, "saveMade")
  /\ UNCHANGED attempt

\* ... or anything else, which the model is told and may correct ...
Invalid(r) ==
  /\ attempt[r] < Attempts
  /\ attempt' = [attempt EXCEPT ![r] = @ + 1]
  /\ UNCHANGED <<pc, made>>

\* ... unless it was its last attempt, the model failed, or a diagnostic could
\* not be written.
GiveUp(r) ==
  /\ Goto(r, "saveFailure")
  /\ UNCHANGED <<made, attempt>>

Generate(r) ==
  /\ pc[r] = "generate"
  /\ Batch(r) \/ Summary(r) \/ Invalid(r) \/ GiveUp(r)
  /\ UNCHANGED <<files, kind, seen, busy, holders, faulted>>

SaveMade(r) ==
  /\ pc[r] = "saveMade"
  /\ session' = made[r]
  /\ Goto(r, "finish")
  /\ UNCHANGED <<projects, baselines, locals, busy, holders, faulted>>

\* The failure is saved with the session as it was before the model was called.
SaveFailure(r) ==
  /\ pc[r] = "saveFailure"
  /\ session' = [seen[r] EXCEPT !.failed = TRUE]
  /\ Goto(r, "finish")
  /\ UNCHANGED <<projects, baselines, locals, busy, holders, faulted>>

-----------------------------------------------------------------------------
(* A complete interview becomes a project.                                 *)

\* The session is read without its lock ...
PeekInterview(r) ==
  /\ pc[r] = "peek"
  /\ seen' = [seen EXCEPT ![r] = session]
  /\ Goto(r, "claim")
  /\ UNCHANGED <<files, kind, made, attempt, busy, holders, faulted>>

\* Faulty variant: a project may be made of an interview still going on.
ClaimUnfinished(r) ==
  /\ pc[r] = "claim"
  /\ seen[r].project = None
  /\ ~busy
  /\ Lock(r)
  /\ Goto(r, "savePlan")
  /\ UNCHANGED <<files, locals, faulted>>

\* ... and what was read is checked when the lock is taken.
Claim(r) ==
  /\ pc[r] = "claim"
  /\ seen[r].status = "complete"
  /\ seen[r].project = None
  /\ ~busy
  /\ Lock(r)
  /\ Goto(r, "savePlan")
  /\ UNCHANGED <<files, locals, faulted>>

SavePlan(r) ==
  /\ pc[r] = "savePlan"
  /\ projects' = projects \cup {r}
  /\ Goto(r, "saveCommit")
  /\ UNCHANGED <<session, baselines, locals, busy, holders, faulted>>

SaveCommit(r) ==
  /\ pc[r] = "saveCommit"
  /\ baselines' = baselines \cup {r}
  /\ Goto(r, "saveProject")
  /\ UNCHANGED <<session, projects, locals, busy, holders, faulted>>

SaveProject(r) ==
  /\ pc[r] = "saveProject"
  /\ session' = [seen[r] EXCEPT !.project = r]
  /\ Goto(r, "finish")
  /\ UNCHANGED <<projects, baselines, locals, busy, holders, faulted>>

-----------------------------------------------------------------------------
(* Ends and failures.                                                      *)

Finish(r) ==
  /\ pc[r] = "finish"
  /\ Close(r)
  /\ Release(r)
  /\ UNCHANGED <<files, faulted>>

\* Faulty variant: an early return leaves the lock behind.
RejectLocked(r) ==
  /\ pc[r] \in {"acquire", "read", "peek", "claim"}
  /\ Close(r)
  /\ UNCHANGED <<files, busy, holders, faulted>>

\* 400, 404 or 409 before anything is written.
Reject(r) ==
  /\ pc[r] \in {"acquire", "read", "peek", "claim"}
  /\ Close(r)
  /\ Release(r)
  /\ UNCHANGED <<files, faulted>>

\* A write throws.  That of the model's answer is inside advanceInterview's try.
WriteFails(r) ==
  /\ pc[r] \in {"saveNew", "saveDraft", "saveAnswers", "saveMade", "saveFailure",
                "savePlan", "saveCommit", "saveProject"}
  /\ IF pc[r] = "saveMade"
     THEN Goto(r, "saveFailure") /\ UNCHANGED <<locals, busy, holders>>
     ELSE Close(r) /\ Release(r)
  /\ faulted' = TRUE
  /\ UNCHANGED files

Crash ==
  /\ \E r \in Requests : pc[r] \notin {"idle", "done"}
  /\ pc' = [r \in Requests |-> IF pc[r] = "idle" THEN "idle" ELSE "done"]
  /\ seen' = [r \in Requests |-> None]
  /\ made' = [r \in Requests |-> None]
  /\ attempt' = [r \in Requests |-> 0]
  /\ busy' = FALSE
  /\ holders' = {}
  /\ faulted' = TRUE
  /\ UNCHANGED <<files, kind>>

-----------------------------------------------------------------------------
Init ==
  /\ session = None
  /\ projects = {} /\ baselines = {}
  /\ busy = FALSE
  /\ pc = [r \in Requests |-> "idle"]
  /\ kind = [r \in Requests |-> None]
  /\ seen = [r \in Requests |-> None]
  /\ made = [r \in Requests |-> None]
  /\ attempt = [r \in Requests |-> 0]
  /\ holders = {}
  /\ faulted = FALSE

Step(r) ==
  \/ SaveNew(r) \/ Acquire(r) \/ Read(r) \/ SaveDraft(r) \/ SaveAnswers(r)
  \/ Generate(r) \/ SaveMade(r) \/ SaveFailure(r)
  \/ PeekInterview(r) \/ Claim(r) \/ SavePlan(r) \/ SaveCommit(r) \/ SaveProject(r)
  \/ Finish(r) \/ Reject(r) \/ WriteFails(r)

Next == (\E r \in Requests : Arrive(r) \/ Step(r)) \/ Crash

Spec == Init /\ [][Next]_vars

\* The event loop runs what can run and every model call ends; clients owe nothing.
FairSpec == Spec /\ \A r \in Requests : WF_vars(Step(r))

-----------------------------------------------------------------------------
TypeOK ==
  /\ session \in Sessions \cup {None}
  /\ baselines \subseteq projects /\ projects \subseteq Requests
  /\ busy \in BOOLEAN /\ faulted \in BOOLEAN
  /\ DOMAIN pc = Requests
  /\ kind \in [Requests -> Kinds \cup {None}]
  /\ seen \in [Requests -> Sessions \cup {None}]
  /\ made \in [Requests -> Sessions \cup {None}]
  /\ attempt \in [Requests -> 0 .. Attempts]
  /\ holders \subseteq Requests

-----------------------------------------------------------------------------
(* Safety.                                                                 *)

\* No two requests work on the session at once, and a session nobody works on
\* is open to the next.
SessionLocked ==
  /\ \A r, s \in holders : r = s
  /\ busy = (holders # {})

\* An answer that was saved is never lost or changed: not by the model, its
\* failure, a draft, another tab, the project or a crash.
AnswersKept ==
  [][session # None => session' # None /\ IsPrefix(session.answers, session'.answers)]_vars

\* The model is only called on answers that are on disk.
AnswersSavedFirst ==
  \A r \in Requests : pc[r] = "generate" => session.answers = seen[r].answers

\* Over all rounds, retries and failures the user is asked at most MaxQuestions,
\* of which MaxTexts are free text, and answers a whole round at a time.
WithinBudget ==
  session # None =>
    /\ session.asked <= MaxQuestions
    /\ session.texts <= MaxTexts
    /\ Cardinality(Pending(session)) <= MaxBatch

\* Once the user asked to finish no question is asked any more, whatever fails.
FinishIsFinal ==
  [][session # None /\ session.finishing => session'.asked = session.asked]_vars

\* A complete interview changes no more, but for the project it became; the
\* handler that records the project writes the session it read without the lock.
CompleteIsFrozen ==
  [][session # None /\ session.status = "complete" =>
       session' = [session EXCEPT !.project = session'.project]]_vars

\* A draft is of a question that is still open.
DraftsArePending == session # None => session.drafts \subseteq Pending(session)

\* One interview becomes one project.
OneProject == ~faulted => Cardinality(projects) <= 1

\* The session is always free again in the end.
SessionReleased == busy ~> ~busy

=============================================================================
