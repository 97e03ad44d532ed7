-------------------------- MODULE InterviewProofs --------------------------
(***************************************************************************)
(* Theorems about the interview, for any requests and budgets.             *)
(*                                                                         *)
(* Control says who holds the session's lock, and that nobody but its      *)
(* creator knows a session that is not there yet.  WorkOK says what a      *)
(* request that holds the lock has in hand: the session on disk, changed   *)
(* by what its next write will change.  A request that will make a project *)
(* of the interview has read it without the lock; what it has in hand is   *)
(* the session on disk because a complete session changes no more.         *)
(***************************************************************************)
EXTENDS Interview, FiniteSetTheorems, TLAPS

-----------------------------------------------------------------------------
(* Control.                                                                *)

\* The steps that are taken inside the lock.
Held == {"read", "saveDraft", "saveAnswers", "generate", "saveMade", "saveFailure",
         "savePlan", "saveCommit", "saveProject", "finish"}

Steps == Held \cup {"idle", "saveNew", "acquire", "peek", "claim", "done"}

LockInv ==
  /\ pc \in [Requests -> Steps]
  /\ \A r \in Requests : r \in holders <=> pc[r] \in Held
  /\ SessionLocked

\* Until its creator has saved it the session is unknown.
BirthInv ==
  /\ session = None => \A r \in Requests : pc[r] \in {"idle", "saveNew", "done"}
  /\ session # None => \E r \in Requests : kind[r] = "create"
  /\ \A r \in Requests : pc[r] = "saveNew" => session = None /\ kind[r] = "create"
  /\ \A r \in Requests : pc[r] = "idle" => kind[r] # "create"
  /\ \A q, r \in Requests : kind[q] = "create" /\ kind[r] = "create" => q = r

-----------------------------------------------------------------------------
(* Sessions.                                                               *)

SessionOK(s) ==
  /\ Len(s.answers) <= s.asked /\ s.asked - Len(s.answers) <= MaxBatch
  /\ s.drafts \subseteq Pending(s)

\* s, with every question answered.
Closed(s) == s.status = "asking" /\ Len(s.answers) = s.asked /\ s.drafts = {}

\* What a round of the model may make of s.
MadeOf(s, t) ==
  \/ \E n \in 1 .. BatchLimit(s), k \in 0 .. TextLimit(s) :
       t = [s EXCEPT !.asked = @ + n, !.texts = @ + k, !.failed = FALSE]
  \/ t = [s EXCEPT !.status = "complete", !.failed = FALSE]

Making == {"claim", "savePlan", "saveCommit", "saveProject"}

WorkOK(r) ==
  /\ pc[r] = "saveDraft" =>
       /\ session.status = "asking"
       /\ \E qs \in SUBSET Pending(session) : seen[r] = [session EXCEPT !.drafts = qs]
  /\ pc[r] = "saveAnswers" =>
       /\ session.status = "asking"
       /\ \E f \in BOOLEAN : /\ session.finishing => f
                             /\ seen[r] = [Answered(session, r) EXCEPT !.finishing = f]
  /\ pc[r] \in {"generate", "saveMade", "saveFailure"} => seen[r] = session /\ Closed(session)
  /\ pc[r] = "saveMade" => MadeOf(session, made[r])
  /\ pc[r] \in Making =>
       /\ seen[r] \in Sessions
       /\ seen[r].status = "complete" =>
            session = [seen[r] EXCEPT !.project = session.project]
  /\ pc[r] \in Making \ {"claim"} => seen[r].status = "complete"
  /\ pc[r] = "saveCommit" => r \in projects

WorkInv == \A r \in Requests : WorkOK(r)

IInv == TypeOK /\ LockInv /\ BirthInv /\ (session # None => SessionOK(session)) /\ WorkInv

\* How a session on disk may change (the action properties of Interview).
Grows(s, t) ==
  /\ IsPrefix(s.answers, t.answers)
  /\ s.finishing => t.asked = s.asked
  /\ s.status = "complete" => t = [s EXCEPT !.project = t.project]

\* t may replace s on disk.
Follows(s, t) == t \in Sessions /\ SessionOK(t) /\ Grows(s, t)

LEMMA PrefixOfItself ==
  ASSUME NEW S, NEW a \in Seq(S)
  PROVE  IsPrefix(a, a)
BY DEF IsPrefix

LEMMA PrefixOfLonger ==
  ASSUME NEW S, NEW a \in Seq(S), NEW b \in Seq(S)
  PROVE  IsPrefix(a, a \o b)
<1>1. a \o b \in Seq(S) /\ Len(a \o b) = Len(a) + Len(b)
  OBVIOUS
<1>2. SubSeq(a, 1, Len(a)) = a /\ SubSeq(a \o b, 1, Len(a)) = a
  OBVIOUS
<1> QED
  BY <1>1, <1>2 DEF IsPrefix

LEMMA SameAnswersFollow ==
  ASSUME NEW s \in Sessions, SessionOK(s), NEW t \in Sessions, t.answers = s.answers,
         t.asked = s.asked, t.drafts \subseteq Pending(s),
         s.status = "complete" => t = [s EXCEPT !.project = t.project]
  PROVE  Follows(s, t)
<1>1. s.answers \in Seq(Requests)
  BY DEF Sessions
<1> QED
  BY <1>1, PrefixOfItself DEF Follows, Grows, SessionOK, Pending

LEMMA DraftFollows ==
  ASSUME NEW s \in Sessions, SessionOK(s), s.status = "asking", NEW qs \in SUBSET Pending(s)
  PROVE  Follows(s, [s EXCEPT !.drafts = qs])
<1>0. Len(s.answers) \in Nat /\ s.asked \in Nat /\ s.asked <= MaxQuestions
  BY BudgetAssumption DEF Sessions
<1>1. qs \subseteq 1 .. MaxQuestions
  BY <1>0, BudgetAssumption DEF Pending
<1>2. [s EXCEPT !.drafts = qs] \in Sessions
  BY <1>1 DEF Sessions
<1> QED
  BY <1>2, SameAnswersFollow DEF Sessions

LEMMA AnsweredFollows ==
  ASSUME NEW s \in Sessions, SessionOK(s), s.status = "asking", NEW r \in Requests,
         NEW f \in BOOLEAN, s.finishing => f,
         NEW t, t = [Answered(s, r) EXCEPT !.finishing = f]
  PROVE  Follows(s, t) /\ Closed(t)
<1> DEFINE n == s.asked - Len(s.answers)
           new == [i \in 1 .. n |-> r]
<1>1. s.answers \in Seq(Requests) /\ s.asked \in Nat /\ n \in Nat /\ Len(s.answers) \in Nat
  BY DEF Sessions, SessionOK
<1>2. new \in Seq(Requests) /\ Len(new) = n
  BY <1>1
<1>3. /\ t = [s EXCEPT !.answers = s.answers \o new, !.drafts = {}, !.finishing = f]
  BY DEF Answered, Sessions
<1>4. /\ s.answers \o new \in Seq(Requests) /\ Len(s.answers \o new) = s.asked
      /\ IsPrefix(s.answers, s.answers \o new)
  <2> HIDE DEF new
  <2>1. s.answers \o new \in Seq(Requests) /\ Len(s.answers \o new) = Len(s.answers) + Len(new)
    BY <1>1, <1>2
  <2>2. IsPrefix(s.answers, s.answers \o new)
    BY <1>1, <1>2, PrefixOfLonger
  <2> QED
    BY <1>1, <1>2, <2>1, <2>2
<1> HIDE DEF new, n
<1>5. /\ t \in Sessions /\ t.answers = s.answers \o new /\ t.asked = s.asked /\ t.drafts = {}
      /\ t.status = "asking"
  BY <1>3, <1>4 DEF Sessions
<1>6. s.asked - Len(t.answers) = 0 /\ 0 <= MaxBatch /\ Len(t.answers) = s.asked
  BY <1>1, <1>4, <1>5, BudgetAssumption
<1>7. SessionOK(t)
  BY <1>1, <1>5, <1>6 DEF SessionOK
<1>8. Grows(s, t)
  BY <1>4, <1>5 DEF Grows
<1> QED
  BY <1>5, <1>6, <1>7, <1>8 DEF Follows, Closed

LEMMA MadeFollows ==
  ASSUME NEW s \in Sessions, SessionOK(s), Closed(s), NEW t, MadeOf(s, t)
  PROVE  Follows(s, t)
<1>0. s.answers \in Seq(Requests) /\ s.asked \in Nat /\ s.texts \in Nat /\ IsPrefix(s.answers, s.answers)
  BY PrefixOfItself DEF Sessions
<1>1. CASE t = [s EXCEPT !.status = "complete", !.failed = FALSE]
  <2>1. t \in Sessions /\ t.answers = s.answers /\ t.asked = s.asked /\ t.drafts = s.drafts
    BY <1>1 DEF Sessions
  <2> QED
    BY <2>1, SameAnswersFollow DEF Closed, SessionOK
<1>2. ASSUME NEW n \in 1 .. BatchLimit(s), NEW k \in 0 .. TextLimit(s),
             t = [s EXCEPT !.asked = @ + n, !.texts = @ + k, !.failed = FALSE]
      PROVE  Follows(s, t)
  <2>1. ~ s.finishing /\ n \in Nat /\ n <= MaxBatch /\ s.asked + n <= MaxQuestions
    BY <1>0, <1>2, BudgetAssumption DEF BatchLimit, Least, Sessions
  <2>2. k \in Nat /\ s.texts + k <= MaxTexts
    BY <1>0, <1>2, BudgetAssumption DEF TextLimit
  <2>3. s.asked + n \in 0 .. MaxQuestions /\ s.texts + k \in 0 .. MaxTexts
    BY <1>0, <2>1, <2>2, BudgetAssumption
  <2>4. /\ t \in Sessions /\ t.answers = s.answers /\ t.asked = s.asked + n /\ t.drafts = s.drafts
        /\ t.status = s.status
    BY <1>2, <2>3 DEF Sessions
  <2>5. Len(t.answers) = s.asked /\ t.asked - s.asked = n /\ s.asked <= t.asked
    BY <1>0, <2>1, <2>4 DEF Closed
  <2>6. SessionOK(t)
    BY <2>1, <2>4, <2>5 DEF SessionOK, Closed
  <2>7. Grows(s, t)
    BY <1>0, <2>1, <2>4 DEF Grows, Closed
  <2> QED
    BY <2>4, <2>6, <2>7 DEF Follows
<1> QED
  BY <1>1, <1>2 DEF MadeOf

LEMMA FailedFollows ==
  ASSUME NEW s \in Sessions, SessionOK(s), Closed(s)
  PROVE  Follows(s, [s EXCEPT !.failed = TRUE])
<1>1. [s EXCEPT !.failed = TRUE] \in Sessions
  BY DEF Sessions
<1> QED
  BY <1>1, SameAnswersFollow DEF Sessions, Closed

LEMMA ProjectFollows ==
  ASSUME NEW s \in Sessions, SessionOK(s), NEW r \in Requests
  PROVE  Follows(s, [s EXCEPT !.project = r])
<1>1. [s EXCEPT !.project = r] \in Sessions
  BY DEF Sessions
<1> QED
  BY <1>1, SameAnswersFollow DEF Sessions, SessionOK

-----------------------------------------------------------------------------
(* One request moves.                                                      *)

\* A request that lets go of the lock leaves it free, and one that takes it
\* found it free.
LEMMA LockKeeps ==
  ASSUME IInv, NEW r \in Requests, NEW l \in Steps, Goto(r, l),
         \/ pc[r] \in Held /\ l \in Held /\ UNCHANGED <<busy, holders>>
         \/ pc[r] \notin Held /\ l \notin Held /\ UNCHANGED <<busy, holders>>
         \/ ~ busy /\ l \in Held /\ Lock(r)
         \/ l \notin Held /\ Release(r)
  PROVE  LockInv' /\ busy' \in BOOLEAN /\ holders' \subseteq Requests
<1> USE DEF IInv, TypeOK, LockInv, SessionLocked
<1>1. /\ pc' \in [Requests -> Steps] /\ pc'[r] = l
      /\ \A q \in Requests \ {r} : pc'[q] = pc[q]
  BY DEF Goto
<1>2. CASE UNCHANGED <<busy, holders>> /\ (pc[r] \in Held <=> l \in Held)
  BY <1>1, <1>2
<1>3. CASE ~ busy /\ l \in Held /\ Lock(r)
  BY <1>1, <1>3 DEF Lock
<1>4. CASE l \notin Held /\ Release(r)
  <2>1. CASE r \in holders
    BY <1>1, <1>4, <2>1 DEF Release, Unlock
  <2>2. CASE r \notin holders
    BY <1>1, <1>4, <2>2 DEF Release
  <2> QED
    BY <2>1, <2>2
<1> QED
  BY <1>2, <1>3, <1>4

\* What the others have in hand stays right: they do not hold the lock while r
\* writes, and what they have read of a complete session is still true.
LEMMA OthersKeep ==
  ASSUME IInv, session # None, NEW r \in Requests,
         session' = session \/ (pc[r] \in Held /\ Follows(session, session')),
         projects \subseteq projects',
         NEW q \in Requests \ {r}, pc'[q] = pc[q], seen'[q] = seen[q], made'[q] = made[q]
  PROVE  WorkOK(q)'
<1>1. WorkOK(q)
  BY DEF IInv, WorkInv
<1>2. CASE session' = session
  BY <1>1, <1>2 DEF WorkOK
<1>3. CASE pc[r] \in Held /\ Follows(session, session')
  <2>1. pc[q] \notin Held
    BY <1>3 DEF IInv, LockInv, SessionLocked
  <2>2. pc[q] \notin {"saveDraft", "saveAnswers", "generate", "saveMade", "saveFailure",
                     "savePlan", "saveCommit", "saveProject"}
    BY <2>1 DEF Held
  <2>3. ASSUME pc[q] = "claim", seen[q].status = "complete"
        PROVE  session' = [seen[q] EXCEPT !.project = session'.project]
    <3>1. session = [seen[q] EXCEPT !.project = session.project] /\ seen[q] \in Sessions
      BY <1>1, <2>3 DEF WorkOK, Making
    <3>2. session.status = "complete"
      BY <2>3, <3>1 DEF Sessions
    <3>3. session' = [session EXCEPT !.project = session'.project]
      BY <1>3, <3>2 DEF Follows, Grows
    <3> QED
      BY <3>1, <3>3 DEF Sessions
  <2> QED
    BY <1>1, <2>2, <2>3 DEF WorkOK, Making
<1> QED
  BY <1>2, <1>3

\* A step of a request that knows the session.
Moves(r, l) ==
  /\ Goto(r, l) /\ kind' = kind /\ session # None
  /\ session' = session \/ (pc[r] \in Held /\ Follows(session, session'))
  /\ \A q \in Requests \ {r} : seen'[q] = seen[q] /\ made'[q] = made[q]
  /\ \/ pc[r] \in Held /\ l \in Held /\ UNCHANGED <<busy, holders>>
     \/ pc[r] \notin Held /\ l \notin Held /\ UNCHANGED <<busy, holders>>
     \/ ~ busy /\ l \in Held /\ Lock(r)
     \/ l \notin Held /\ Release(r)

LEMMA MoveKeeps ==
  ASSUME IInv, NEW r \in Requests, NEW l \in Steps \ {"idle", "saveNew"}, Moves(r, l),
         projects \subseteq projects', projects' \subseteq Requests, baselines' \subseteq projects',
         faulted' \in BOOLEAN,
         seen' \in [Requests -> Sessions \cup {None}],
         made' \in [Requests -> Sessions \cup {None}],
         attempt' \in [Requests -> 0 .. Attempts],
         WorkOK(r)'
  PROVE  IInv' /\ (session' = session \/ Follows(session, session'))
<1>1. LockInv' /\ busy' \in BOOLEAN /\ holders' \subseteq Requests
  BY LockKeeps DEF Moves
<1>2. session' \in Sessions /\ session' # None /\ SessionOK(session')
  BY NoneAssumption DEF Moves, Follows, IInv, TypeOK
<1>3. pc' \in [Requests -> Steps] /\ pc'[r] = l /\ \A q \in Requests \ {r} : pc'[q] = pc[q]
  BY DEF Moves, Goto, IInv, LockInv
<1>4. TypeOK'
  BY <1>1, <1>2, <1>3 DEF Moves, IInv, TypeOK
<1>5. BirthInv'
  BY <1>2, <1>3 DEF Moves, IInv, BirthInv
<1>6. WorkInv'
  <2> SUFFICES ASSUME NEW q \in Requests \ {r} PROVE WorkOK(q)'
    BY DEF WorkInv
  <2> QED
    BY <1>3, OthersKeep DEF Moves
<1> QED
  BY <1>1, <1>2, <1>4, <1>5, <1>6 DEF IInv, Moves

\* The session has changed, if at all, as Grows allows.
SessionGrows == session # None => session' = session \/ Follows(session, session')

LEMMA Known ==
  ASSUME IInv, NEW r \in Requests, pc[r] \notin {"idle", "saveNew", "done"}
  PROVE  session # None /\ session \in Sessions /\ SessionOK(session)
BY DEF IInv, BirthInv, TypeOK

\* A request ends and has written nothing.
LEMMA CloseKeeps ==
  ASSUME IInv, NEW r \in Requests, pc[r] # "idle", Close(r), Release(r), UNCHANGED files,
         faulted' \in BOOLEAN
  PROVE  IInv' /\ SessionGrows
<1>1. /\ LockInv' /\ busy' \in BOOLEAN /\ holders' \subseteq Requests
  BY LockKeeps DEF Close, Held, Steps
<1>2. /\ pc' \in [Requests -> Steps] /\ pc'[r] = "done"
      /\ \A q \in Requests \ {r} : pc'[q] = pc[q]
  BY DEF Close, Goto, IInv, LockInv, Steps, Held
<1>3. TypeOK'
  <2>1. attempt' \in [Requests -> 0 .. Attempts]
    BY BudgetAssumption DEF Close, IInv, TypeOK
  <2> QED
    BY <1>1, <1>2, <2>1 DEF Close, files, IInv, TypeOK
<1>4. BirthInv'
  BY <1>2 DEF Close, files, IInv, BirthInv
<1>5. WorkInv'
  <2> SUFFICES ASSUME NEW q \in Requests PROVE WorkOK(q)'
    BY DEF WorkInv
  <2>1. CASE q = r
    BY <1>2, <2>1 DEF WorkOK, Making
  <2>2. CASE q # r
    BY <1>2, <2>2 DEF Close, files, IInv, TypeOK, WorkInv, WorkOK
  <2> QED
    BY <2>1, <2>2
<1> QED
  BY <1>1, <1>3, <1>4, <1>5 DEF files, IInv, SessionGrows

\* What a request finds in the session.
LEMMA ReadKeeps ==
  ASSUME IInv, NEW r \in Requests, Read(r)
  PROVE  IInv' /\ SessionGrows
<1> USE DEF IInv, TypeOK
<1>0. /\ pc[r] = "read" /\ session # None /\ session \in Sessions /\ SessionOK(session)
      /\ UNCHANGED <<session, projects, baselines, kind, made, busy, holders, faulted>>
  BY Known DEF Read, files
<1>1. ASSUME NEW l \in Held, Goto(r, l), NEW s \in Sessions, seen' = [seen EXCEPT ![r] = s],
             attempt' \in [Requests -> 0 .. Attempts], WorkOK(r)'
      PROVE  IInv' /\ SessionGrows
  <2>1. Moves(r, l) /\ seen' \in [Requests -> Sessions \cup {None}] /\ l \in Steps \ {"idle", "saveNew"}
    BY <1>0, <1>1 DEF Moves, Held, Steps
  <2> QED
    BY <1>0, <1>1, <2>1, MoveKeeps DEF SessionGrows
<1>2. ASSUME NEW l \in Held, Goto(r, l) PROVE pc'[r] = l
  BY <1>2 DEF Goto, LockInv
<1>3. CASE ReadView(r)
  BY <1>0, <1>1, <1>2, <1>3 DEF ReadView, WorkOK, Making, Held
<1>4. CASE ReadForDraft(r)
  <2>1. PICK qs \in SUBSET Pending(session) :
          seen' = [seen EXCEPT ![r] = [session EXCEPT !.drafts = qs]]
    BY <1>4 DEF ReadForDraft
  <2>2. [session EXCEPT !.drafts = qs] \in Sessions
    BY <1>0, <1>4, DraftFollows DEF ReadForDraft, Follows
  <2>3. WorkOK(r)'
    BY <1>0, <1>2, <1>4, <2>1 DEF ReadForDraft, WorkOK, Making, Held
  <2> QED
    BY <1>1, <1>4, <2>1, <2>2, <2>3 DEF ReadForDraft, Held
<1>5. CASE ReadForAnswers(r)
  <2>1. PICK f \in BOOLEAN : f = (session.finishing \/ kind[r] = "finish")
    BY <1>0 DEF Sessions
  <2>2. PICK t : t = [Answered(session, r) EXCEPT !.finishing = f]
    OBVIOUS
  <2>3. seen' = [seen EXCEPT ![r] = t] /\ session.status = "asking" /\ Goto(r, "saveAnswers")
    BY <1>0, <1>5, <2>1, <2>2 DEF ReadForAnswers, Answered, Sessions
  <2>4. session.finishing => f
    BY <2>1
  <2>5. t \in Sessions
    BY <1>0, <2>2, <2>3, <2>4, AnsweredFollows DEF Follows
  <2>6. WorkOK(r)'
    BY <1>0, <1>2, <2>2, <2>3, <2>4 DEF WorkOK, Making, Held, Answered
  <2> QED
    BY <1>1, <1>5, <2>3, <2>5, <2>6 DEF ReadForAnswers, Held
<1>6. CASE ReadForNext(r)
  <2>1. Closed(session)
    <3>1. Len(session.answers) \in Nat /\ session.asked \in Nat
      BY <1>0 DEF Sessions
    <3>2. Pending(session) = {} /\ session.drafts = {} /\ session.status = "asking"
      BY <1>0, <1>6 DEF ReadForNext, SessionOK
    <3>3. Len(session.answers) = session.asked
      <4> SUFFICES ASSUME Len(session.answers) # session.asked PROVE FALSE
        OBVIOUS
      <4>1. session.asked \in Pending(session)
        BY <1>0, <3>1 DEF SessionOK, Pending
      <4> QED
        BY <3>2, <4>1
    <3> QED
      BY <3>2, <3>3 DEF Closed
  <2>2. WorkOK(r)'
    BY <1>0, <1>2, <1>6, <2>1 DEF ReadForNext, WorkOK, Making, Held, Closed
  <2>3. attempt' \in [Requests -> 0 .. Attempts]
    BY <1>6, BudgetAssumption DEF ReadForNext
  <2> QED
    BY <1>0, <1>1, <1>6, <2>2, <2>3 DEF ReadForNext, Held
<1> QED
  BY <1>3, <1>4, <1>5, <1>6 DEF Read

\* A write of the session inside the lock.
LEMMA WriteKeeps ==
  ASSUME IInv, NEW r \in Requests,
         pc[r] \in {"saveDraft", "saveAnswers", "saveMade", "saveFailure", "saveProject"},
         NEW l \in {"finish", "generate"}, Goto(r, l), Follows(session, session'),
         UNCHANGED <<projects, baselines, kind, seen, made, busy, holders, faulted>>,
         attempt' \in [Requests -> 0 .. Attempts],
         l = "generate" => seen[r] = session' /\ Closed(session')
  PROVE  IInv' /\ SessionGrows
<1>1. session # None
  BY Known
<1>2. pc'[r] = l
  BY DEF Goto, IInv, LockInv
<1>3. WorkOK(r)'
  BY <1>2 DEF WorkOK, Making
<1>4. Moves(r, l) /\ l \in Steps \ {"idle", "saveNew"}
  BY <1>1 DEF Moves, Held, Steps
<1> QED
  BY <1>3, <1>4, MoveKeeps DEF IInv, TypeOK, SessionGrows

LEMMA SaveKeeps ==
  ASSUME IInv, NEW r \in Requests,
         \/ SaveDraft(r) \/ SaveAnswers(r) \/ SaveMade(r) \/ SaveFailure(r) \/ SaveProject(r)
  PROVE  IInv' /\ SessionGrows
<1>0. WorkOK(r) /\ attempt \in [Requests -> 0 .. Attempts]
  BY DEF IInv, WorkInv, TypeOK
<1>1. CASE SaveDraft(r)
  <2>0. /\ session \in Sessions /\ SessionOK(session) /\ session.status = "asking"
        /\ \E qs \in SUBSET Pending(session) : session' = [session EXCEPT !.drafts = qs]
    BY <1>0, <1>1, Known DEF SaveDraft, WorkOK
  <2>1. Follows(session, session')
    BY <2>0, DraftFollows
  <2> QED
    BY <1>0, <1>1, <2>1, WriteKeeps DEF SaveDraft, locals
<1>2. CASE SaveAnswers(r)
  <2>0. /\ session \in Sessions /\ SessionOK(session) /\ session.status = "asking"
        /\ session' = seen[r]
    BY <1>0, <1>2, Known DEF SaveAnswers, WorkOK
  <2>1. Follows(session, session') /\ Closed(session')
    <3>1. PICK f \in BOOLEAN : /\ session.finishing => f
                               /\ session' = [Answered(session, r) EXCEPT !.finishing = f]
      BY <1>0, <1>2, <2>0 DEF SaveAnswers, WorkOK
    <3> QED
      BY <2>0, <3>1, AnsweredFollows
  <2>2. attempt' \in [Requests -> 0 .. Attempts]
    BY <1>0, <1>2, BudgetAssumption DEF SaveAnswers
  <2> QED
    BY <1>2, <2>1, <2>2, WriteKeeps DEF SaveAnswers
<1>3. CASE SaveMade(r)
  <2>1. Follows(session, session')
    BY <1>0, <1>3, Known, MadeFollows DEF SaveMade, WorkOK
  <2> QED
    BY <1>0, <1>3, <2>1, WriteKeeps DEF SaveMade, locals
<1>4. CASE SaveFailure(r)
  <2>1. Follows(session, session')
    BY <1>0, <1>4, Known, FailedFollows DEF SaveFailure, WorkOK
  <2> QED
    BY <1>0, <1>4, <2>1, WriteKeeps DEF SaveFailure, locals
<1>5. CASE SaveProject(r)
  <2>1. /\ session = [seen[r] EXCEPT !.project = session.project] /\ seen[r] \in Sessions
        /\ session' = [seen[r] EXCEPT !.project = r]
    BY <1>0, <1>5 DEF SaveProject, WorkOK, Making
  <2>2. session' = [session EXCEPT !.project = r]
    BY <2>1 DEF Sessions
  <2>3. Follows(session, session')
    BY <1>5, <2>2, Known, ProjectFollows DEF SaveProject
  <2> QED
    BY <1>0, <1>5, <2>3, WriteKeeps DEF SaveProject, locals
<1> QED
  BY <1>1, <1>2, <1>3, <1>4, <1>5

\* A step that writes no session.
LEMMA WorkKeeps ==
  ASSUME IInv, NEW r \in Requests, NEW l \in Steps \ {"idle", "saveNew"}, Goto(r, l),
         session # None, UNCHANGED <<session, kind, faulted>>,
         \A q \in Requests \ {r} : seen'[q] = seen[q] /\ made'[q] = made[q],
         \/ pc[r] \in Held /\ l \in Held /\ UNCHANGED <<busy, holders>>
         \/ pc[r] \notin Held /\ l \notin Held /\ UNCHANGED <<busy, holders>>
         \/ ~ busy /\ l \in Held /\ Lock(r),
         projects \subseteq projects', projects' \subseteq Requests, baselines' \subseteq projects',
         seen' \in [Requests -> Sessions \cup {None}],
         made' \in [Requests -> Sessions \cup {None}],
         attempt' \in [Requests -> 0 .. Attempts],
         WorkOK(r)'
  PROVE  IInv' /\ SessionGrows
<1>1. Moves(r, l) /\ faulted' \in BOOLEAN
  BY DEF Moves, IInv, TypeOK
<1> QED
  BY <1>1, MoveKeeps DEF SessionGrows

LEMMA GenerateKeeps ==
  ASSUME IInv, NEW r \in Requests, Generate(r)
  PROVE  IInv' /\ SessionGrows
<1>0. /\ pc[r] = "generate" /\ session # None /\ session \in Sessions /\ SessionOK(session)
      /\ WorkOK(r) /\ seen[r] = session /\ Closed(session)
      /\ UNCHANGED <<session, projects, baselines, kind, seen, busy, holders, faulted>>
  BY Known DEF Generate, IInv, WorkInv, WorkOK, files
<1>1. ASSUME NEW l \in {"generate", "saveMade", "saveFailure"}, Goto(r, l),
             NEW m \in Sessions \cup {None}, made' = [made EXCEPT ![r] = m],
             l = "saveMade" => MadeOf(session, m),
             attempt' \in [Requests -> 0 .. Attempts]
      PROVE  IInv' /\ SessionGrows
  <2>1. pc'[r] = l /\ made'[r] = m /\ l \in Held /\ l \in Steps \ {"idle", "saveNew"}
    BY <1>1 DEF Goto, IInv, LockInv, TypeOK, Held, Steps
  <2>2. WorkOK(r)'
    BY <1>0, <1>1, <2>1 DEF WorkOK, Making
  <2>3. made' \in [Requests -> Sessions \cup {None}]
    BY <1>1 DEF IInv, TypeOK
  <2> QED
    BY <1>0, <1>1, <2>1, <2>2, <2>3, WorkKeeps DEF IInv, TypeOK, Held
<1>2. made = [made EXCEPT ![r] = made[r]] /\ made[r] \in Sessions \cup {None}
      /\ attempt \in [Requests -> 0 .. Attempts]
  BY DEF IInv, TypeOK
<1>3. CASE Batch(r)
  <2>0. PICK n \in 1 .. BatchLimit(session) :
          \E t \in 0 .. Least(n, TextLimit(session)) :
            made' = [made EXCEPT ![r] =
                      [session EXCEPT !.asked = @ + n, !.texts = @ + t, !.failed = FALSE]]
    BY <1>0, <1>3 DEF Batch
  <2>1. PICK t \in 0 .. Least(n, TextLimit(session)) :
          made' = [made EXCEPT ![r] =
                    [session EXCEPT !.asked = @ + n, !.texts = @ + t, !.failed = FALSE]]
    BY <2>0
  <2>2. t \in 0 .. TextLimit(session)
    <3>1. n \in Int /\ TextLimit(session) \in Int
      BY <1>0, BudgetAssumption DEF TextLimit, Sessions
    <3> QED
      BY <3>1 DEF Least
  <2>3. PICK m : m = [session EXCEPT !.asked = @ + n, !.texts = @ + t, !.failed = FALSE]
    OBVIOUS
  <2>4. MadeOf(session, m)
    BY <2>2, <2>3 DEF MadeOf
  <2>5. m \in Sessions
    BY <1>0, <2>4, MadeFollows DEF Follows
  <2> QED
    BY <1>1, <1>2, <1>3, <2>1, <2>3, <2>4, <2>5 DEF Batch
<1>4. CASE Summary(r)
  <2>1. PICK m : m = [session EXCEPT !.status = "complete", !.failed = FALSE]
    OBVIOUS
  <2>2. MadeOf(session, m)
    BY <2>1 DEF MadeOf
  <2>3. m \in Sessions
    BY <1>0, <2>2, MadeFollows DEF Follows
  <2> QED
    BY <1>0, <1>1, <1>2, <1>4, <2>1, <2>2, <2>3 DEF Summary
<1>5. CASE Invalid(r)
  <2>1. Goto(r, "generate")
    BY <1>0, <1>5 DEF Invalid, Goto, IInv, LockInv
  <2>2. attempt' \in [Requests -> 0 .. Attempts]
    BY <1>2, <1>5, BudgetAssumption DEF Invalid
  <2> QED
    BY <1>1, <1>2, <1>5, <2>1, <2>2 DEF Invalid
<1>6. CASE GiveUp(r)
  BY <1>1, <1>2, <1>6 DEF GiveUp
<1> QED
  BY <1>3, <1>4, <1>5, <1>6 DEF Generate

\* The steps that make a project, and those that only take the lock.
LEMMA ProjectKeeps ==
  ASSUME IInv, NEW r \in Requests,
         \/ Acquire(r) \/ PeekInterview(r) \/ Claim(r) \/ SavePlan(r) \/ SaveCommit(r)
  PROVE  IInv' /\ SessionGrows
<1> USE DEF IInv, TypeOK
<1>0. session # None /\ session \in Sessions /\ WorkOK(r)
  BY Known DEF Acquire, PeekInterview, Claim, SavePlan, SaveCommit, WorkInv
<1>1. ASSUME NEW l \in Steps, Goto(r, l) PROVE pc'[r] = l
  BY <1>1 DEF Goto, LockInv
<1>2. CASE Acquire(r)
  <2>1. WorkOK(r)'
    BY <1>1, <1>2 DEF Acquire, WorkOK, Making, Steps, Held
  <2> QED
    BY <1>0, <1>2, <2>1, WorkKeeps DEF Acquire, files, locals, Steps, Held
<1>3. CASE PeekInterview(r)
  <2>1. session = [session EXCEPT !.project = session.project]
    BY <1>0 DEF Sessions
  <2>2. WorkOK(r)'
    BY <1>0, <1>1, <1>3, <2>1 DEF PeekInterview, files, WorkOK, Making, Steps, Held
  <2>3. seen' \in [Requests -> Sessions \cup {None}]
    BY <1>0, <1>3 DEF PeekInterview
  <2> QED
    BY <1>0, <1>3, <2>2, <2>3, WorkKeeps DEF PeekInterview, files, Steps, Held
<1>4. CASE Claim(r)
  <2>1. WorkOK(r)'
    BY <1>0, <1>1, <1>4 DEF Claim, files, locals, WorkOK, Making, Steps, Held
  <2> QED
    BY <1>0, <1>4, <2>1, WorkKeeps DEF Claim, files, locals, Steps, Held
<1>5. CASE SavePlan(r)
  <2>1. WorkOK(r)'
    BY <1>0, <1>1, <1>5 DEF SavePlan, locals, WorkOK, Making, Steps, Held
  <2> QED
    BY <1>0, <1>5, <2>1, WorkKeeps DEF SavePlan, locals, Steps, Held
<1>6. CASE SaveCommit(r)
  <2>1. WorkOK(r)'
    BY <1>0, <1>1, <1>6 DEF SaveCommit, locals, WorkOK, Making, Steps, Held
  <2>2. r \in projects
    BY <1>0, <1>6 DEF SaveCommit, WorkOK
  <2> QED
    BY <1>0, <1>6, <2>1, <2>2, WorkKeeps DEF SaveCommit, locals, Steps, Held
<1> QED
  BY <1>2, <1>3, <1>4, <1>5, <1>6

LEMMA FailureKeeps ==
  ASSUME IInv, NEW r \in Requests, Finish(r) \/ Reject(r) \/ WriteFails(r)
  PROVE  IInv' /\ SessionGrows
<1>1. CASE Finish(r)
  BY <1>1, CloseKeeps DEF Finish, IInv, TypeOK
<1>2. CASE Reject(r)
  BY <1>2, CloseKeeps DEF Reject, IInv, TypeOK
<1>3. CASE WriteFails(r) /\ pc[r] # "saveMade"
  BY <1>3, CloseKeeps DEF WriteFails
<1>4. CASE WriteFails(r) /\ pc[r] = "saveMade"
  <2>1. /\ session # None /\ Goto(r, "saveFailure") /\ faulted' \in BOOLEAN
        /\ UNCHANGED <<files, locals, busy, holders>> /\ WorkOK(r)
    BY <1>4, Known DEF WriteFails, IInv, WorkInv
  <2>2. pc'[r] = "saveFailure"
    BY <2>1 DEF Goto, IInv, LockInv
  <2>3. WorkOK(r)'
    BY <1>4, <2>1, <2>2 DEF files, locals, WorkOK, Making
  <2>4. Moves(r, "saveFailure")
    BY <1>4, <2>1 DEF Moves, files, locals, Held
  <2> QED
    BY <2>1, <2>3, <2>4, MoveKeeps DEF files, locals, IInv, TypeOK, Steps, Held, SessionGrows
<1> QED
  BY <1>1, <1>2, <1>3, <1>4

-----------------------------------------------------------------------------
(* All moves.                                                              *)

LEMMA ArriveKeeps ==
  ASSUME IInv, NEW r \in Requests, Arrive(r)
  PROVE  IInv' /\ SessionGrows
<1>1. PICK k \in Kinds :
        /\ IF k = "create" THEN \A q \in Requests : kind[q] # "create" ELSE session # None
        /\ kind' = [kind EXCEPT ![r] = k] /\ Goto(r, Entry(k))
  BY DEF Arrive
<1>2. pc[r] = "idle" /\ UNCHANGED <<files, seen, made, attempt, busy, holders, faulted>>
  BY DEF Arrive
<1>3. /\ Entry(k) \in {"saveNew", "peek", "acquire"} /\ (Entry(k) = "saveNew" <=> k = "create")
  BY <1>1 DEF Entry, Kinds
<1>4. /\ pc' \in [Requests -> Steps] /\ pc'[r] = Entry(k) /\ kind'[r] = k
      /\ \A q \in Requests \ {r} : pc'[q] = pc[q] /\ kind'[q] = kind[q]
  BY <1>1, <1>3 DEF Goto, IInv, LockInv, TypeOK, Steps
<1>5. LockInv'
  BY <1>2, <1>3, <1>4 DEF IInv, LockInv, SessionLocked, Held
<1>6. TypeOK'
  BY <1>1, <1>2, <1>4 DEF IInv, TypeOK, files
<1>7. BirthInv'
  <2>1. CASE k = "create"
    BY <1>1, <1>2, <1>3, <1>4, <2>1 DEF IInv, BirthInv, files
  <2>2. CASE k # "create"
    BY <1>1, <1>2, <1>3, <1>4, <2>2 DEF IInv, BirthInv, files
  <2> QED
    BY <2>1, <2>2
<1>8. WorkInv'
  BY <1>2, <1>3, <1>4 DEF IInv, WorkInv, WorkOK, Making, files
<1> QED
  BY <1>2, <1>5, <1>6, <1>7, <1>8 DEF IInv, files, SessionGrows

\* The session is opened.
LEMMA SaveNewKeeps ==
  ASSUME IInv, NEW r \in Requests, SaveNew(r)
  PROVE  IInv' /\ SessionGrows
<1>1. /\ pc[r] = "saveNew" /\ session = None /\ kind[r] = "create"
      /\ \A q \in Requests \ {r} : pc[q] \in {"idle", "done"}
  BY DEF SaveNew, IInv, BirthInv
<1>2. Fresh \in Sessions /\ Fresh # None /\ SessionOK(Fresh) /\ Closed(Fresh)
  <2>1. <<>> \in Seq(Requests) /\ Len(<<>>) = 0
    OBVIOUS
  <2>2. Fresh \in Sessions
    BY <2>1, BudgetAssumption DEF Fresh, Sessions
  <2>3. /\ Len(Fresh.answers) = 0 /\ Fresh.asked = 0 /\ Fresh.drafts = {}
        /\ Fresh.status = "asking"
    BY <2>1 DEF Fresh
  <2> QED
    BY <2>2, <2>3, NoneAssumption, BudgetAssumption DEF SessionOK, Closed
<1>3. /\ session' = Fresh /\ seen' = [seen EXCEPT ![r] = Fresh]
      /\ attempt' = [attempt EXCEPT ![r] = 1] /\ Lock(r) /\ Goto(r, "generate")
      /\ UNCHANGED <<projects, baselines, kind, made, faulted>>
  BY DEF SaveNew
<1>4. /\ pc' \in [Requests -> Steps] /\ pc'[r] = "generate" /\ seen'[r] = Fresh
      /\ \A q \in Requests \ {r} : pc'[q] = pc[q]
  BY <1>3 DEF Goto, IInv, LockInv, TypeOK, Steps, Held
<1>5. LockInv'
  <2>1. holders = {}
    BY <1>1 DEF IInv, LockInv, TypeOK, Held
  <2>2. busy' = TRUE /\ holders' = {r}
    BY <1>3, <2>1 DEF Lock
  <2> QED
    BY <1>1, <1>4, <2>2 DEF LockInv, SessionLocked, Held
<1>6. TypeOK'
  <2>1. attempt' \in [Requests -> 0 .. Attempts]
    BY <1>3, BudgetAssumption DEF IInv, TypeOK
  <2> QED
    BY <1>2, <1>3, <1>4, <2>1 DEF Lock, IInv, TypeOK
<1>7. BirthInv'
  BY <1>1, <1>2, <1>3, <1>4 DEF IInv, BirthInv
<1>8. WorkInv'
  BY <1>1, <1>2, <1>3, <1>4 DEF WorkInv, WorkOK, Making
<1> QED
  BY <1>1, <1>2, <1>3, <1>5, <1>6, <1>7, <1>8 DEF IInv, SessionGrows

LEMMA CrashKeeps ==
  ASSUME IInv, Crash
  PROVE  IInv' /\ SessionGrows
<1>1. /\ \A r \in Requests : pc'[r] \in {"idle", "done"} /\ (pc'[r] = "idle" => pc[r] = "idle")
      /\ pc' \in [Requests -> Steps] /\ busy' = FALSE /\ holders' = {}
      /\ UNCHANGED <<files, kind>>
  BY DEF Crash, Steps
<1>2. TypeOK'
  <2>1. /\ seen' \in [Requests -> Sessions \cup {None}] /\ made' \in [Requests -> Sessions \cup {None}]
        /\ faulted' \in BOOLEAN
    BY DEF Crash
  <2>2. attempt' \in [Requests -> 0 .. Attempts]
    BY BudgetAssumption DEF Crash
  <2> QED
    BY <1>1, <2>1, <2>2 DEF files, IInv, TypeOK
<1>3. LockInv'
  BY <1>1 DEF LockInv, SessionLocked, Held
<1>4. BirthInv' /\ WorkInv'
  BY <1>1 DEF files, IInv, BirthInv, WorkInv, WorkOK, Making
<1> QED
  BY <1>1, <1>2, <1>3, <1>4 DEF files, IInv, SessionGrows

LEMMA InitIInv == Init => IInv
<1> SUFFICES ASSUME Init PROVE IInv
  OBVIOUS
<1>1. TypeOK
  <2>1. attempt \in [Requests -> 0 .. Attempts]
    BY BudgetAssumption DEF Init
  <2> QED
    BY <2>1 DEF Init, TypeOK
<1>2. LockInv /\ WorkInv
  BY DEF Init, LockInv, SessionLocked, Steps, Held, WorkInv, WorkOK, Making
<1>3. BirthInv
  BY NoneAssumption DEF Init, BirthInv, Kinds
<1> QED
  BY <1>1, <1>2, <1>3 DEF Init, IInv

LEMMA NextIInv == ASSUME IInv, [Next]_vars PROVE IInv' /\ SessionGrows
<1>1. ASSUME NEW r \in Requests, Step(r) PROVE IInv' /\ SessionGrows
  <2>1. CASE SaveNew(r)
    BY <2>1, SaveNewKeeps
  <2>2. CASE Read(r)
    BY <2>2, ReadKeeps
  <2>3. CASE SaveDraft(r) \/ SaveAnswers(r) \/ SaveMade(r) \/ SaveFailure(r) \/ SaveProject(r)
    BY <2>3, SaveKeeps
  <2>4. CASE Generate(r)
    BY <2>4, GenerateKeeps
  <2>5. CASE Acquire(r) \/ PeekInterview(r) \/ Claim(r) \/ SavePlan(r) \/ SaveCommit(r)
    BY <2>5, ProjectKeeps
  <2>6. CASE Finish(r) \/ Reject(r) \/ WriteFails(r)
    BY <2>6, FailureKeeps
  <2> QED
    BY <1>1, <2>1, <2>2, <2>3, <2>4, <2>5, <2>6 DEF Step
<1>2. CASE UNCHANGED vars
  <2>1. TypeOK' /\ LockInv' /\ BirthInv'
    BY <1>2 DEF vars, files, locals, IInv, TypeOK, LockInv, SessionLocked, BirthInv
  <2>2. WorkInv'
    <3> SUFFICES ASSUME NEW r \in Requests PROVE WorkOK(r)'
      BY DEF WorkInv
    <3>1. WorkOK(r)
      BY DEF IInv, WorkInv
    <3> QED
      BY <1>2, <3>1 DEF vars, files, locals, WorkOK
  <2> QED
    BY <1>2, <2>1, <2>2 DEF vars, files, locals, IInv, SessionGrows
<1> QED
  BY <1>1, <1>2, ArriveKeeps, CrashKeeps DEF Next

-----------------------------------------------------------------------------
(* Theorems.                                                               *)

\* IInv holds in every reachable state, whatever the requests and budgets, and
\* every step lets the session only grow.
THEOREM Invariant == Spec => []IInv /\ [][SessionGrows]_vars
<1>1. Init => IInv
  BY InitIInv
<1>2. IInv /\ [Next]_vars => IInv' /\ [SessionGrows]_vars
  BY NextIInv
<1> QED
  BY <1>1, <1>2, PTL DEF Spec

\* The session's file and every handler's variables keep their types.
THEOREM TypeCorrect == Spec => []TypeOK
<1>1. IInv => TypeOK
  BY DEF IInv
<1> QED
  BY <1>1, Invariant, PTL

\* No two requests are inside the session's lock, and it is taken exactly while
\* one is (withInterviewLock and every early return, failed write and crash).
THEOREM LockIsExclusive == Spec => []SessionLocked
<1>1. IInv => SessionLocked
  BY DEF IInv, LockInv
<1> QED
  BY <1>1, Invariant, PTL

\* The model is called only with answers that are already on disk.
THEOREM AnswersAreSavedFirst == Spec => []AnswersSavedFirst
<1>1. IInv => AnswersSavedFirst
  BY DEF IInv, WorkInv, WorkOK, AnswersSavedFirst
<1> QED
  BY <1>1, Invariant, PTL

\* Over all rounds and retries no more is asked than the budgets allow, and no
\* round is larger than one.
THEOREM BudgetIsKept == Spec => []WithinBudget
<1>1. IInv => WithinBudget
  <2> SUFFICES ASSUME IInv, session # None
               PROVE  /\ session.asked <= MaxQuestions /\ session.texts <= MaxTexts
                      /\ Cardinality(Pending(session)) <= MaxBatch
    BY DEF WithinBudget
  <2>1. session \in Sessions /\ SessionOK(session)
    BY DEF IInv, TypeOK
  <2>2. Len(session.answers) \in Nat /\ session.asked \in Nat /\ session.texts \in Nat
        /\ session.asked <= MaxQuestions /\ session.texts <= MaxTexts
    BY <2>1, BudgetAssumption DEF Sessions
  <2>3. Cardinality(Pending(session)) =
          IF Len(session.answers) + 1 > session.asked THEN 0
          ELSE session.asked - (Len(session.answers) + 1) + 1
    <3>1. Len(session.answers) + 1 \in Int /\ session.asked \in Int
      BY <2>2
    <3> QED
      BY <3>1, FS_Interval DEF Pending
  <2>4. session.asked - Len(session.answers) <= MaxBatch
    BY <2>1 DEF SessionOK
  <2> QED
    BY <2>2, <2>3, <2>4, BudgetAssumption
<1> QED
  BY <1>1, Invariant, PTL

\* A draft is of a question that is still open.
THEOREM DraftsAreOpen == Spec => []DraftsArePending
<1>1. IInv => DraftsArePending
  BY DEF IInv, SessionOK, DraftsArePending
<1> QED
  BY <1>1, Invariant, PTL

\* No step loses or changes an answer that was saved.
THEOREM AnswersAreKept == Spec => AnswersKept
<1>1. IInv /\ IInv' /\ [SessionGrows]_vars =>
        [session # None => session' # None /\ IsPrefix(session.answers, session'.answers)]_vars
  <2> SUFFICES ASSUME IInv, IInv', SessionGrows, session # None
               PROVE  session' # None /\ IsPrefix(session.answers, session'.answers)
    OBVIOUS
  <2>1. CASE session' = session
    BY <2>1, PrefixOfItself DEF IInv, TypeOK, Sessions
  <2>2. CASE Follows(session, session')
    BY <2>2, NoneAssumption DEF Follows, Grows
  <2> QED
    BY <2>1, <2>2 DEF SessionGrows
<1> QED
  BY <1>1, Invariant, PTL DEF AnswersKept

\* Once the user asked to finish no step asks another question.
THEOREM FinishingIsFinal == Spec => FinishIsFinal
<1>1. [SessionGrows]_vars =>
        [session # None /\ session.finishing => session'.asked = session.asked]_vars
  BY DEF SessionGrows, Follows, Grows
<1> QED
  BY <1>1, Invariant, PTL DEF FinishIsFinal

\* A complete session changes no more but for its project, although that is
\* written from what was read before the lock was taken.
THEOREM CompleteStays == Spec => CompleteIsFrozen
<1>1. IInv /\ [SessionGrows]_vars =>
        [session # None /\ session.status = "complete" =>
           session' = [session EXCEPT !.project = session'.project]]_vars
  BY DEF SessionGrows, Follows, Grows, IInv, TypeOK, Sessions
<1> QED
  BY <1>1, Invariant, PTL DEF CompleteIsFrozen
=============================================================================
