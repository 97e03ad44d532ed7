------------------------ MODULE ProjectServerProofs ------------------------
(***************************************************************************)
(* Theorems about ProjectServer, for any set of requests and kinds.        *)
(*                                                                         *)
(* The invariant is built in three layers.  Control says which kinds of    *)
(* request reach which step and what they have read by then; typing rests  *)
(* on it.  Locking says that holders are exactly the requests inside their *)
(* locked section.  Growth says that everything a request may still write  *)
(* is older than plan.json or made from it.                                *)
(*                                                                         *)
(* On it rest the theorems about the drafts a user is shown: between       *)
(* requests there is one baseline draft to confirm, and the conversation   *)
(* says what became of its proposals.  They need what the request that     *)
(* holds the lock has in hand of the files it will change.                 *)
(***************************************************************************)
EXTENDS ProjectServer, TLAPS, FiniteSetTheorems

-----------------------------------------------------------------------------
(* Control.                                                                *)

Confirming == {"applyDiff", "applyBaseline", "chatApply"}
Drafting   == {"replan", "live", "revise"}

\* The kinds of request at each step where it matters.
KindsInv ==
  \A r \in Requests :
    /\ pc[r] = "peek" => kind[r] \in PlanFirstKinds
    /\ pc[r] = "acquire" => kind[r] \in LockFirstKinds \cup Drafting \cup {"evidence"}
    /\ pc[r] \in {"check", "take", "readChat"} => kind[r] \in ChatKinds
    /\ pc[r] = "readPending" => kind[r] \in {"applyDiff", "replan"}
    /\ pc[r] = "readProposals" => kind[r] \in {"applyBaseline", "revise"}
    /\ pc[r] = "readPlan" => kind[r] \in LockFirstKinds \cup ChatKinds
    /\ pc[r] = "saveMessage" => kind[r] = "chatMessage"
    /\ pc[r] = "recheck" => kind[r] \in Drafting \cup {"chatMessage"}
    /\ pc[r] \in {"list", "load", "saveProposal", "clear"} =>
         kind[r] \in {"live", "revise", "mock"}
    /\ pc[r] \in {"savePlan", "saveCommit"} => kind[r] \in Confirming \cup {"edit"}
    /\ pc[r] = "savePending" => kind[r] \in {"event", "replan"}

\* The steps before which a request has read the plan ...
AfterPlan == {"recheck", "list", "load", "saveProposal", "clear", "savePending",
              "readChat", "saveMessage", "savePlan", "saveCommit"}

\* ... and what it has in hand.
LocalsInv ==
  \A r \in Requests :
    /\ pc[r] \in AfterPlan => seen[r] # None
    /\ pc[r] \in {"acquire", "readPending", "readProposals"} /\ kind[r] \in Drafting =>
         seen[r] # None
    /\ pc[r] = "readPlan" /\ kind[r] \in Confirming \ {"chatApply"} => hand[r] # None
    /\ pc[r] \in {"savePlan", "saveCommit"} /\ kind[r] \in Confirming => hand[r] # None
    /\ pc[r] = "savePlan" /\ kind[r] \in Confirming => hand[r].base = seen[r].version

Control == TypeOK /\ KindsInv /\ LocalsInv

-----------------------------------------------------------------------------
(* Locking.                                                                *)

\* r is inside its locked section.
Inside(r) ==
  \/ pc[r] \in {"readProposals", "readPlan", "readChat", "recheck", "savePlan",
                "saveCommit", "saveMessage", "saveChat", "removePending",
                "removeProposal", "finish"}
  \/ pc[r] = "readPending" /\ kind[r] = "applyDiff"
  \/ pc[r] = "savePending" /\ kind[r] = "replan"
  \/ pc[r] \in {"list", "load", "clear", "saveProposal"} /\ kind[r] # "mock"

HoldersInv == \A r \in Requests : r \in holders <=> Inside(r)

Locking == HoldersInv /\ MutualExclusion

-----------------------------------------------------------------------------
(* Growth.                                                                 *)

\* r will make no more change or draft: the one it names is on disk, or never will be.
Spent(r) ==
  \/ pc[r] \in {"removePending", "removeProposal", "finish", "done"}
  \/ pc[r] = "saveCommit" /\ kind[r] = "edit"
  \/ pc[r] = "clear" /\ kind[r] # "mock"

\* A draft is older than the plan, or the plan with the one change it lacks.
Grows(d) ==
  \/ d.base < plan.version
  \/ d.base = plan.version /\ d.id \notin plan.changes /\ d.preview = Extend(plan, d.id)

Drafted(d) == Grows(d) /\ Spent(d.id)

FilesInv ==
  /\ \A c \in plan.changes : Spent(c)
  /\ \A d \in pending \cup proposals : Drafted(d)
  /\ chat # None => Drafted(chat)

\* The steps at which hand may be a draft of the request's own.
AfterDraft == {"savePending", "list", "load", "saveProposal", "saveChat", "clear",
               "removePending", "removeProposal", "finish"}

SeenInv ==
  \A r \in Requests :
    /\ seen[r] # None => seen[r].version < plan.version \/ seen[r] = plan
    /\ pc[r] \in {"savePlan", "saveCommit", "readChat"} => seen[r] = plan

HandInv ==
  \A r \in Requests : hand[r] # None =>
    /\ Grows(hand[r])
    /\ Spent(hand[r].id) \/ (hand[r].id = r /\ pc[r] \in AfterDraft)

Growth == ~barged => FilesInv /\ SeenInv /\ HandInv

-----------------------------------------------------------------------------
USE DEF AllKinds, LockFirstKinds, PlanFirstKinds, ChatKinds, Confirming, Drafting

\* Which actions change which file.
LEMMA Frame ==
  ASSUME [Next]_vars
  PROVE  /\ (\E r \in Requests : SavePlan(r)) \/ plan' = plan
         /\ (\E r \in Requests : SaveCommit(r)) \/ commits' = commits
         /\ (\E r \in Requests : SavePending(r)) \/ pending' \subseteq pending
         /\ (\E r \in Requests : SaveProposal(r)) \/ proposals' \subseteq proposals
         /\ (\E r \in Requests : SaveMessage(r) \/ SaveChat(r)) \/ chat' = chat
         /\ (\E r \in Requests : TakeChat(r)) \/ barged' = barged
         /\ barged => barged'
<1> USE DEF Acquire, AfterAcquire, AfterCommit, AfterRecheck, Arrive, CheckChat,
      ClearProposal, Close, Crash, Finish, ListProposals, LoadProposals, Lock, Next,
      PeekPlan, ReadChat, ReadChatForApply, ReadChatForDiscard, ReadChatForMessage,
      ReadPending, ReadPlan, ReadProposals, Reads, Recheck, Reject, Release,
      RemovePending, RemoveProposal, SaveChat, SaveCommit, SaveMessage, SavePending,
      SavePlan, SaveProposal, Step, TakeChat, Unlock, WriteFails, Writes, files, ghosts,
      locals, vars
<1>1. (\E r \in Requests : SavePlan(r)) \/ plan' = plan
  OBVIOUS
<1>2. (\E r \in Requests : SaveCommit(r)) \/ commits' = commits
  OBVIOUS
<1>3. (\E r \in Requests : SavePending(r)) \/ pending' \subseteq pending
  OBVIOUS
<1>4. (\E r \in Requests : SaveProposal(r)) \/ proposals' \subseteq proposals
  OBVIOUS
<1>5. (\E r \in Requests : SaveMessage(r) \/ SaveChat(r)) \/ chat' = chat
  OBVIOUS
<1>6. (\E r \in Requests : TakeChat(r)) \/ barged' = barged
  OBVIOUS
<1>7. barged => barged'
  OBVIOUS
<1> QED
  BY ONLY <1>1, <1>2, <1>3, <1>4, <1>5, <1>6, <1>7

LEMMA InitControl == Init => Control
<1> SUFFICES ASSUME Init PROVE Control
  OBVIOUS
<1> USE DEF Init
<1>1. FirstPlan \in Snapshots
  BY DEF FirstPlan, Snapshots
<1>2. TypeOK
  BY <1>1 DEF TypeOK, Labels
<1>3. KindsInv
  BY DEF KindsInv
<1>4. LocalsInv
  BY DEF LocalsInv, AfterPlan
<1> QED
  BY <1>2, <1>3, <1>4 DEF Control

LEMMA ExtendType == \A s \in Snapshots, c \in Requests : Extend(s, c) \in Snapshots
BY DEF Snapshots, Extend

LEMMA NewDraftType ==
  \A r \in Requests, s \in Snapshots :
    NewDraft(r, s) \in Drafts /\ NewDraft(r, s).base = s.version
BY ExtendType DEF Snapshots, Drafts, NewDraft, Statuses

LEMMA VisibleType ==
  ASSUME TypeOK, NEW k, NEW t \in Visible(k)
  PROVE  t \in Requests \cup {None}
BY DEF TypeOK, Visible, Drafts

LEMMA NextPlanType ==
  ASSUME Control, NEW r \in Requests, pc[r] = "savePlan"
  PROVE  NextPlan(r) \in Snapshots
<1>1. seen[r] \in Snapshots
  BY DEF Control, TypeOK, LocalsInv, AfterPlan
<1>2. CASE kind[r] = "edit"
  BY <1>1, <1>2, ExtendType DEF NextPlan
<1>3. CASE kind[r] \in Confirming
  <2>1. hand[r] \in Drafts
    BY <1>3 DEF Control, TypeOK, LocalsInv
  <2>2. hand[r].id \in Requests /\ hand[r].preview \in Snapshots
    BY <2>1 DEF Drafts
  <2>3. [hand[r].preview EXCEPT !.version = seen[r].version + 1] \in Snapshots
    BY <1>1, <2>2 DEF Snapshots
  <2> QED
    BY <1>1, <1>3, <2>2, <2>3, ExtendType DEF NextPlan
<1> QED
  BY <1>2, <1>3 DEF Control, KindsInv

LEMMA NextControl == Control /\ [Next]_vars => Control'
<1> SUFFICES ASSUME Control, [Next]_vars PROVE Control'
  OBVIOUS
<1> USE KindsAssumption, NoneAssumption DEF Control, files, locals, ghosts, Goto
<1>1. ASSUME NEW r \in Requests, Arrive(r) PROVE Control'
  <2>1. TypeOK'
    <3>1. PICK k \in Kinds : \E t \in Visible(k) :
            /\ Goto(r, Entry(k))
            /\ kind' = [kind EXCEPT ![r] = k]
            /\ target' = [target EXCEPT ![r] = t]
      BY <1>1 DEF Arrive
    <3>2. PICK t \in Visible(k) :
            /\ Goto(r, Entry(k))
            /\ kind' = [kind EXCEPT ![r] = k]
            /\ target' = [target EXCEPT ![r] = t]
      BY <3>1
    <3>3. t \in Requests \cup {None}
      BY <3>2, VisibleType
    <3> QED
      BY <1>1, <3>2, <3>3 DEF Arrive, Entry, TypeOK, Labels
  <2>2. KindsInv'
    BY <1>1 DEF Arrive, Entry, Visible, TypeOK, KindsInv
  <2>3. LocalsInv'
    BY <1>1 DEF Arrive, Entry, Visible, TypeOK, LocalsInv, AfterPlan
  <2> QED
    BY <2>1, <2>2, <2>3
<1>2. ASSUME NEW r \in Requests, Acquire(r) PROVE Control'
  <2>1. TypeOK'
    BY <1>2 DEF Acquire, AfterAcquire, Lock, TypeOK, Labels, AfterPlan
  <2>2. KindsInv'
    BY <1>2 DEF Acquire, AfterAcquire, Lock, TypeOK, KindsInv
  <2>3. LocalsInv'
    BY <1>2 DEF Acquire, AfterAcquire, Lock, TypeOK, LocalsInv, AfterPlan
  <2> QED
    BY <2>1, <2>2, <2>3
<1>3. ASSUME NEW r \in Requests, CheckChat(r) PROVE Control'
  <2>1. TypeOK'
    BY <1>3 DEF CheckChat, TypeOK, Labels, AfterPlan
  <2>2. KindsInv'
    BY <1>3 DEF CheckChat, TypeOK, KindsInv
  <2>3. LocalsInv'
    BY <1>3 DEF CheckChat, TypeOK, LocalsInv, AfterPlan
  <2> QED
    BY <2>1, <2>2, <2>3
<1>4. ASSUME NEW r \in Requests, TakeChat(r) PROVE Control'
  <2>1. TypeOK'
    BY <1>4 DEF TakeChat, Lock, TypeOK, Labels, AfterPlan
  <2>2. KindsInv'
    BY <1>4 DEF TakeChat, Lock, TypeOK, KindsInv
  <2>3. LocalsInv'
    BY <1>4 DEF TakeChat, Lock, TypeOK, KindsInv, LocalsInv, AfterPlan
  <2> QED
    BY <2>1, <2>2, <2>3
<1>5. ASSUME NEW r \in Requests, PeekPlan(r) PROVE Control'
  <2>1. TypeOK'
    BY <1>5 DEF PeekPlan, TypeOK, Labels, AfterPlan
  <2>2. KindsInv'
    BY <1>5 DEF PeekPlan, TypeOK, KindsInv
  <2>3. LocalsInv'
    BY <1>5 DEF PeekPlan, TypeOK, LocalsInv, AfterPlan
  <2> QED
    BY <2>1, <2>2, <2>3
<1>6. ASSUME NEW r \in Requests, ReadPending(r) PROVE Control'
  <2>1. TypeOK'
    BY <1>6 DEF ReadPending, TypeOK, Labels, AfterPlan
  <2>2. KindsInv'
    BY <1>6 DEF ReadPending, TypeOK, KindsInv
  <2>3. LocalsInv'
    BY <1>6 DEF ReadPending, TypeOK, LocalsInv, AfterPlan
  <2> QED
    BY <2>1, <2>2, <2>3
<1>7. ASSUME NEW r \in Requests, ReadProposals(r) PROVE Control'
  <2>1. TypeOK'
    BY <1>7 DEF ReadProposals, TypeOK, Labels, AfterPlan
  <2>2. KindsInv'
    BY <1>7 DEF ReadProposals, TypeOK, KindsInv
  <2>3. LocalsInv'
    BY <1>7 DEF ReadProposals, TypeOK, LocalsInv, AfterPlan
  <2> QED
    BY <2>1, <2>2, <2>3
<1>8. ASSUME NEW r \in Requests, ReadPlan(r) PROVE Control'
  <2>1. TypeOK'
    BY <1>8 DEF ReadPlan, TypeOK, Labels, AfterPlan
  <2>2. KindsInv'
    BY <1>8 DEF ReadPlan, TypeOK, KindsInv
  <2>3. LocalsInv'
    BY <1>8 DEF ReadPlan, TypeOK, LocalsInv, AfterPlan
  <2> QED
    BY <2>1, <2>2, <2>3
<1>9. ASSUME NEW r \in Requests, ReadChat(r) PROVE Control'
  <2> USE DEF ReadChat, ReadChatForMessage, ReadChatForApply, ReadChatForDiscard
  <2>1. TypeOK'
    <3>1. chat # None => [chat EXCEPT !.status = "discarded"] \in Drafts
      BY DEF TypeOK, Drafts, Statuses
    <3>2. \E d \in Drafts \cup {None} : hand' = [hand EXCEPT ![r] = d]
      BY <1>9, <3>1 DEF TypeOK
    <3>3. pc' \in [Requests -> Labels]
      BY <1>9 DEF TypeOK, Labels
    <3> QED
      BY <1>9, <3>2, <3>3 DEF TypeOK
  <2>2. KindsInv'
    BY <1>9 DEF TypeOK, KindsInv
  <2>3. LocalsInv'
    BY <1>9 DEF TypeOK, LocalsInv, AfterPlan
  <2> QED
    BY <2>1, <2>2, <2>3
<1>10. ASSUME NEW r \in Requests, Recheck(r) PROVE Control'
  <2>1. TypeOK'
    BY <1>10, NewDraftType DEF Recheck, AfterRecheck, TypeOK, LocalsInv, Labels, AfterPlan
  <2>2. KindsInv'
    BY <1>10 DEF Recheck, AfterRecheck, TypeOK, KindsInv
  <2>3. LocalsInv'
    BY <1>10, NewDraftType DEF Recheck, AfterRecheck, TypeOK, LocalsInv, AfterPlan
  <2> QED
    BY <2>1, <2>2, <2>3
<1>11. ASSUME NEW r \in Requests, ListProposals(r) PROVE Control'
  <2>1. TypeOK'
    BY <1>11 DEF ListProposals, Drafts, TypeOK, Labels, AfterPlan
  <2>2. KindsInv'
    BY <1>11 DEF ListProposals, TypeOK, KindsInv
  <2>3. LocalsInv'
    BY <1>11 DEF ListProposals, TypeOK, LocalsInv, AfterPlan
  <2> QED
    BY <2>1, <2>2, <2>3
<1>12. ASSUME NEW r \in Requests, LoadProposals(r) PROVE Control'
  <2>1. TypeOK'
    BY <1>12 DEF LoadProposals, TypeOK, Labels, AfterPlan
  <2>2. KindsInv'
    BY <1>12 DEF LoadProposals, TypeOK, KindsInv
  <2>3. LocalsInv'
    BY <1>12 DEF LoadProposals, TypeOK, LocalsInv, AfterPlan
  <2> QED
    BY <2>1, <2>2, <2>3
<1>13. ASSUME NEW r \in Requests, SavePlan(r) PROVE Control'
  <2>1. TypeOK'
    BY <1>13, NextPlanType DEF SavePlan, TypeOK, Labels, AfterPlan
  <2>2. KindsInv'
    BY <1>13 DEF SavePlan, TypeOK, KindsInv
  <2>3. LocalsInv'
    BY <1>13, NextPlanType DEF SavePlan, TypeOK, LocalsInv, AfterPlan
  <2> QED
    BY <2>1, <2>2, <2>3
<1>14. ASSUME NEW r \in Requests, SaveCommit(r) PROVE Control'
  <2>1. TypeOK'
    <3>1. seen[r] \in Snapshots
      BY <1>14 DEF SaveCommit, TypeOK, LocalsInv, AfterPlan
    <3>2. hand' \in [Requests -> Drafts \cup {None}]
      BY <1>14 DEF SaveCommit, TypeOK, LocalsInv, Drafts, Statuses
    <3> QED
      BY <1>14, <3>1, <3>2 DEF SaveCommit, AfterCommit, TypeOK, Labels
  <2>2. KindsInv'
    BY <1>14 DEF SaveCommit, AfterCommit, TypeOK, KindsInv
  <2>3. LocalsInv'
    BY <1>14 DEF SaveCommit, AfterCommit, TypeOK, LocalsInv, AfterPlan
  <2> QED
    BY <2>1, <2>2, <2>3
<1>15. ASSUME NEW r \in Requests, SavePending(r) PROVE Control'
  <2>1. TypeOK'
    <3>1. NewDraft(r, seen[r]) \in Drafts
      BY <1>15, NewDraftType DEF SavePending, TypeOK, LocalsInv, AfterPlan
    <3> QED
      BY <1>15, <3>1 DEF SavePending, Close, TypeOK, Labels
  <2>2. KindsInv'
    BY <1>15 DEF SavePending, Close, TypeOK, KindsInv
  <2>3. LocalsInv'
    BY <1>15, NewDraftType DEF SavePending, Close, TypeOK, LocalsInv, AfterPlan
  <2> QED
    BY <2>1, <2>2, <2>3
<1>16. ASSUME NEW r \in Requests, RemovePending(r) PROVE Control'
  <2>1. TypeOK'
    BY <1>16 DEF RemovePending, TypeOK, Labels, AfterPlan
  <2>2. KindsInv'
    BY <1>16 DEF RemovePending, TypeOK, KindsInv
  <2>3. LocalsInv'
    BY <1>16 DEF RemovePending, TypeOK, LocalsInv, AfterPlan
  <2> QED
    BY <2>1, <2>2, <2>3
<1>17. ASSUME NEW r \in Requests, SaveProposal(r) PROVE Control'
  <2>1. TypeOK'
    <3>1. NewDraft(r, seen[r]) \in Drafts
      BY <1>17, NewDraftType DEF SaveProposal, TypeOK, LocalsInv, AfterPlan
    <3> QED
      BY <1>17, <3>1 DEF SaveProposal, Close, TypeOK, Labels
  <2>2. KindsInv'
    BY <1>17 DEF SaveProposal, Close, TypeOK, KindsInv
  <2>3. LocalsInv'
    BY <1>17, NewDraftType DEF SaveProposal, Close, TypeOK, LocalsInv, AfterPlan
  <2> QED
    BY <2>1, <2>2, <2>3
<1>18. ASSUME NEW r \in Requests, RemoveProposal(r) PROVE Control'
  <2>1. TypeOK'
    BY <1>18 DEF RemoveProposal, TypeOK, Labels, AfterPlan
  <2>2. KindsInv'
    BY <1>18 DEF RemoveProposal, TypeOK, KindsInv
  <2>3. LocalsInv'
    BY <1>18 DEF RemoveProposal, TypeOK, LocalsInv, AfterPlan
  <2> QED
    BY <2>1, <2>2, <2>3
<1>19. ASSUME NEW r \in Requests, ClearProposal(r) PROVE Control'
  <2>1. TypeOK'
    BY <1>19 DEF ClearProposal, TypeOK, Labels, AfterPlan
  <2>2. KindsInv'
    BY <1>19 DEF ClearProposal, TypeOK, KindsInv
  <2>3. LocalsInv'
    BY <1>19 DEF ClearProposal, TypeOK, LocalsInv, AfterPlan
  <2> QED
    BY <2>1, <2>2, <2>3
<1>20. ASSUME NEW r \in Requests, SaveMessage(r) PROVE Control'
  <2>1. TypeOK'
    BY <1>20 DEF SaveMessage, TypeOK, Labels, AfterPlan
  <2>2. KindsInv'
    BY <1>20 DEF SaveMessage, TypeOK, KindsInv
  <2>3. LocalsInv'
    BY <1>20 DEF SaveMessage, TypeOK, LocalsInv, AfterPlan
  <2> QED
    BY <2>1, <2>2, <2>3
<1>21. ASSUME NEW r \in Requests, SaveChat(r) PROVE Control'
  <2>1. TypeOK'
    BY <1>21 DEF SaveChat, TypeOK, Labels, AfterPlan
  <2>2. KindsInv'
    BY <1>21 DEF SaveChat, TypeOK, KindsInv
  <2>3. LocalsInv'
    BY <1>21 DEF SaveChat, TypeOK, LocalsInv, AfterPlan
  <2> QED
    BY <2>1, <2>2, <2>3
<1>22. ASSUME NEW r \in Requests, Finish(r) PROVE Control'
  <2>1. TypeOK'
    BY <1>22 DEF Finish, Close, Release, Unlock, TypeOK, Labels, AfterPlan
  <2>2. KindsInv'
    BY <1>22 DEF Finish, Close, Release, Unlock, TypeOK, KindsInv
  <2>3. LocalsInv'
    BY <1>22 DEF Finish, Close, Release, Unlock, TypeOK, LocalsInv, AfterPlan
  <2> QED
    BY <2>1, <2>2, <2>3
<1>23. ASSUME NEW r \in Requests, Reject(r) PROVE Control'
  <2>1. TypeOK'
    BY <1>23 DEF Reject, Close, Release, Unlock, TypeOK, Labels, AfterPlan
  <2>2. KindsInv'
    BY <1>23 DEF Reject, Close, Release, Unlock, TypeOK, KindsInv
  <2>3. LocalsInv'
    BY <1>23 DEF Reject, Close, Release, Unlock, TypeOK, LocalsInv, AfterPlan
  <2> QED
    BY <2>1, <2>2, <2>3
<1>24. ASSUME NEW r \in Requests, WriteFails(r) PROVE Control'
  <2>1. TypeOK'
    BY <1>24 DEF WriteFails, Close, Release, Unlock, TypeOK, Labels, AfterPlan
  <2>2. KindsInv'
    BY <1>24 DEF WriteFails, Close, Release, Unlock, TypeOK, KindsInv
  <2>3. LocalsInv'
    BY <1>24 DEF WriteFails, Close, Release, Unlock, TypeOK, LocalsInv, AfterPlan
  <2> QED
    BY <2>1, <2>2, <2>3
<1>25. CASE Crash
  BY <1>25 DEF Crash, Running, TypeOK, KindsInv, LocalsInv, Labels, AfterPlan
<1>26. CASE UNCHANGED vars
  BY <1>26 DEF vars, TypeOK, KindsInv, LocalsInv
<1>27. QED
  BY <1>1, <1>2, <1>3, <1>4, <1>5, <1>6, <1>7, <1>8, <1>9, <1>10, <1>11, <1>12, <1>13,
    <1>14, <1>15, <1>16, <1>17, <1>18, <1>19, <1>20, <1>21, <1>22, <1>23, <1>24, <1>25,
    <1>26
   DEF Next, Step, Reads, Writes

-----------------------------------------------------------------------------
(* The lock.                                                               *)

LEMMA InitLocking == Init => Locking
BY DEF Init, Locking, HoldersInv, Inside, MutualExclusion

\* A request that ends gives the lock back, and only if it had it.
LEMMA ReleaseLocking ==
  ASSUME TypeOK, Locking, NEW r \in Requests, Close(r), Release(r), barged' = barged
  PROVE  Locking'
<1> USE DEF TypeOK, Locking, HoldersInv, Inside, Close, Goto
<1>1. holders' = holders \ {r}
  BY DEF Release, Unlock
<1>2. HoldersInv'
  BY <1>1
<1>3. CASE r \in holders
  <2>1. busy' = FALSE
    BY <1>3 DEF Release, Unlock
  <2>2. ~barged => holders' = {}
    BY <1>1, <1>3 DEF MutualExclusion
  <2> QED
    BY <1>2, <2>1, <2>2 DEF MutualExclusion
<1>4. CASE r \notin holders
  <2>1. busy' = busy /\ holders' = holders
    BY <1>4 DEF Release
  <2> QED
    BY <1>2, <2>1 DEF MutualExclusion
<1> QED
  BY <1>3, <1>4

LEMMA NextLocking == Control /\ Locking /\ [Next]_vars => Locking'
<1> SUFFICES ASSUME Control, Locking, [Next]_vars PROVE Locking'
  OBVIOUS
<1> USE DEF Control, Locking, HoldersInv, MutualExclusion, Inside, files, locals, ghosts, Goto
<1>1. ASSUME NEW r \in Requests, Arrive(r) PROVE Locking'
  BY <1>1 DEF Arrive, Entry, TypeOK
<1>2. ASSUME NEW r \in Requests, Acquire(r) PROVE Locking'
  BY <1>2 DEF Acquire, AfterAcquire, Lock, TypeOK
<1>3. ASSUME NEW r \in Requests, CheckChat(r) PROVE Locking'
  BY <1>3 DEF CheckChat, TypeOK
<1>4. ASSUME NEW r \in Requests, TakeChat(r) PROVE Locking'
  BY <1>4 DEF TakeChat, Lock, TypeOK
<1>5. ASSUME NEW r \in Requests, PeekPlan(r) PROVE Locking'
  BY <1>5 DEF PeekPlan, TypeOK
<1>6. ASSUME NEW r \in Requests, ReadPending(r) PROVE Locking'
  BY <1>6 DEF ReadPending, TypeOK, KindsInv
<1>7. ASSUME NEW r \in Requests, ReadProposals(r) PROVE Locking'
  BY <1>7 DEF ReadProposals, TypeOK
<1>8. ASSUME NEW r \in Requests, ReadPlan(r) PROVE Locking'
  BY <1>8 DEF ReadPlan, TypeOK
<1>9. ASSUME NEW r \in Requests, ReadChat(r) PROVE Locking'
  BY <1>9 DEF ReadChat, ReadChatForMessage, ReadChatForApply, ReadChatForDiscard, TypeOK
<1>10. ASSUME NEW r \in Requests, Recheck(r) PROVE Locking'
  BY <1>10 DEF Recheck, AfterRecheck, TypeOK
<1>11. ASSUME NEW r \in Requests, ListProposals(r) PROVE Locking'
  BY <1>11 DEF ListProposals, TypeOK
<1>12. ASSUME NEW r \in Requests, LoadProposals(r) PROVE Locking'
  BY <1>12 DEF LoadProposals, TypeOK
<1>13. ASSUME NEW r \in Requests, SavePlan(r) PROVE Locking'
  BY <1>13 DEF SavePlan, TypeOK
<1>14. ASSUME NEW r \in Requests, SaveCommit(r) PROVE Locking'
  BY <1>14 DEF SaveCommit, AfterCommit, TypeOK
<1>15. ASSUME NEW r \in Requests, SavePending(r) PROVE Locking'
  BY <1>15 DEF SavePending, Close, TypeOK, KindsInv
<1>16. ASSUME NEW r \in Requests, RemovePending(r) PROVE Locking'
  BY <1>16 DEF RemovePending, TypeOK
<1>17. ASSUME NEW r \in Requests, SaveProposal(r) PROVE Locking'
  BY <1>17 DEF SaveProposal, Close, TypeOK
<1>18. ASSUME NEW r \in Requests, RemoveProposal(r) PROVE Locking'
  BY <1>18 DEF RemoveProposal, TypeOK
<1>19. ASSUME NEW r \in Requests, ClearProposal(r) PROVE Locking'
  BY <1>19 DEF ClearProposal, TypeOK
<1>20. ASSUME NEW r \in Requests, SaveMessage(r) PROVE Locking'
  BY <1>20 DEF SaveMessage, TypeOK
<1>21. ASSUME NEW r \in Requests, SaveChat(r) PROVE Locking'
  BY <1>21 DEF SaveChat, TypeOK
<1>22. ASSUME NEW r \in Requests, Finish(r) PROVE Locking'
  BY <1>22, ReleaseLocking DEF Finish
<1>23. ASSUME NEW r \in Requests, Reject(r) PROVE Locking'
  BY <1>23, ReleaseLocking DEF Reject
<1>24. ASSUME NEW r \in Requests, WriteFails(r) PROVE Locking'
  BY <1>24, ReleaseLocking DEF WriteFails
<1>25. CASE Crash
  BY <1>25 DEF Crash, Running, Labels, TypeOK
<1>26. CASE UNCHANGED vars
  BY <1>26 DEF vars
<1>27. QED
  BY <1>1, <1>2, <1>3, <1>4, <1>5, <1>6, <1>7, <1>8, <1>9, <1>10, <1>11, <1>12, <1>13,
    <1>14, <1>15, <1>16, <1>17, <1>18, <1>19, <1>20, <1>21, <1>22, <1>23, <1>24, <1>25,
    <1>26
   DEF Next, Step, Reads, Writes

-----------------------------------------------------------------------------
(* The plan grows.                                                         *)

LEMMA InitGrowth == Init => Growth
BY DEF Init, Growth, FilesInv, SeenInv, HandInv, FirstPlan

\* What is spent stays spent.
LEMMA SpentStable ==
  ASSUME Control, [Next]_vars, NEW q \in Requests, Spent(q)
  PROVE  Spent(q)'
<1> USE DEF Control, TypeOK, Spent, Goto, files, locals
<1>1. ASSUME NEW r \in Requests, Arrive(r) PROVE Spent(q)'
  BY <1>1 DEF Arrive
<1>2. ASSUME NEW r \in Requests, Acquire(r) PROVE Spent(q)'
  BY <1>2 DEF Acquire, AfterAcquire
<1>3. ASSUME NEW r \in Requests, CheckChat(r) PROVE Spent(q)'
  BY <1>3 DEF CheckChat
<1>4. ASSUME NEW r \in Requests, TakeChat(r) PROVE Spent(q)'
  BY <1>4 DEF TakeChat
<1>5. ASSUME NEW r \in Requests, PeekPlan(r) PROVE Spent(q)'
  BY <1>5 DEF PeekPlan
<1>6. ASSUME NEW r \in Requests, ReadPending(r) PROVE Spent(q)'
  BY <1>6 DEF ReadPending
<1>7. ASSUME NEW r \in Requests, ReadProposals(r) PROVE Spent(q)'
  BY <1>7 DEF ReadProposals
<1>8. ASSUME NEW r \in Requests, ReadPlan(r) PROVE Spent(q)'
  BY <1>8 DEF ReadPlan
<1>9. ASSUME NEW r \in Requests, ReadChat(r) PROVE Spent(q)'
  BY <1>9 DEF ReadChat, ReadChatForMessage, ReadChatForApply, ReadChatForDiscard
<1>10. ASSUME NEW r \in Requests, Recheck(r) PROVE Spent(q)'
  BY <1>10 DEF Recheck, AfterRecheck
<1>11. ASSUME NEW r \in Requests, ListProposals(r) PROVE Spent(q)'
  BY <1>11 DEF ListProposals
<1>12. ASSUME NEW r \in Requests, LoadProposals(r) PROVE Spent(q)'
  BY <1>12 DEF LoadProposals
<1>13. ASSUME NEW r \in Requests, SavePlan(r) PROVE Spent(q)'
  BY <1>13 DEF SavePlan
<1>14. ASSUME NEW r \in Requests, SaveCommit(r) PROVE Spent(q)'
  BY <1>14 DEF SaveCommit, AfterCommit
<1>15. ASSUME NEW r \in Requests, SavePending(r) PROVE Spent(q)'
  BY <1>15 DEF SavePending, Close
<1>16. ASSUME NEW r \in Requests, RemovePending(r) PROVE Spent(q)'
  BY <1>16 DEF RemovePending
<1>17. ASSUME NEW r \in Requests, SaveProposal(r) PROVE Spent(q)'
  BY <1>17 DEF SaveProposal, Close
<1>18. ASSUME NEW r \in Requests, RemoveProposal(r) PROVE Spent(q)'
  BY <1>18 DEF RemoveProposal
<1>19. ASSUME NEW r \in Requests, ClearProposal(r) PROVE Spent(q)'
  BY <1>19 DEF ClearProposal
<1>20. ASSUME NEW r \in Requests, SaveMessage(r) PROVE Spent(q)'
  BY <1>20 DEF SaveMessage
<1>21. ASSUME NEW r \in Requests, SaveChat(r) PROVE Spent(q)'
  BY <1>21 DEF SaveChat
<1>22. ASSUME NEW r \in Requests, Finish(r) PROVE Spent(q)'
  BY <1>22 DEF Finish, Close
<1>23. ASSUME NEW r \in Requests, Reject(r) PROVE Spent(q)'
  BY <1>23 DEF Reject, Close
<1>24. ASSUME NEW r \in Requests, WriteFails(r) PROVE Spent(q)'
  BY <1>24 DEF WriteFails, Close
<1>25. CASE Crash
  BY <1>25 DEF Crash, Running, Labels
<1>26. CASE UNCHANGED vars
  BY <1>26 DEF vars
<1>27. QED
  BY <1>1, <1>2, <1>3, <1>4, <1>5, <1>6, <1>7, <1>8, <1>9, <1>10, <1>11, <1>12, <1>13,
    <1>14, <1>15, <1>16, <1>17, <1>18, <1>19, <1>20, <1>21, <1>22, <1>23, <1>24, <1>25,
    <1>26
   DEF Next, Step, Reads, Writes

\* A confirmation writes the preview of the draft in hand, the plan on disk with
\* a change it lacks.
LEMMA ConfirmedPlan ==
  ASSUME Control, Growth, ~barged, NEW r \in Requests, pc[r] = "savePlan", kind[r] \in Confirming
  PROVE  /\ NextPlan(r) = hand[r].preview
         /\ \E d \in Drafts : /\ d = hand[r] /\ Spent(d.id)
                              /\ d.id \notin plan.changes /\ d.preview = Extend(plan, d.id)
<1>1. PICK d \in Drafts : d = hand[r]
  BY DEF Control, LocalsInv, TypeOK
<1>2. seen[r] = plan /\ d.base = plan.version
  BY <1>1 DEF Control, LocalsInv, Growth, SeenInv
<1>3. Grows(d) /\ Spent(d.id)
  BY <1>1, NoneAssumption DEF Growth, HandInv, AfterDraft
<1>4. d.base \in Nat
  BY DEF Drafts
<1>5. d.id \notin plan.changes /\ d.preview = Extend(plan, d.id)
  BY <1>2, <1>3, <1>4 DEF Grows
<1>6. [d.preview EXCEPT !.version = plan.version + 1] = d.preview
  BY <1>5 DEF Extend
<1>7. NextPlan(r) = d.preview
  BY <1>1, <1>2, <1>5, <1>6 DEF NextPlan
<1> QED
  BY <1>1, <1>3, <1>5, <1>7

\* The plan a request writes is the plan on disk with a change it lacks.
LEMMA NextPlanGrows ==
  ASSUME Control, Growth, ~barged, NEW r \in Requests, SavePlan(r)
  PROVE  \E c \in Requests \ plan.changes : NextPlan(r) = Extend(plan, c) /\ Spent(c)'
<1>1. pc[r] = "savePlan" /\ seen[r] = plan
  BY DEF SavePlan, Growth, SeenInv
<1>2. CASE kind[r] = "edit"
  <2>1. r \notin plan.changes
    BY <1>1 DEF Growth, FilesInv, Spent
  <2>2. NextPlan(r) = Extend(plan, r)
    BY <1>1, <1>2 DEF NextPlan
  <2>3. Spent(r)'
    BY <1>2 DEF Control, SavePlan, Spent, Goto, TypeOK
  <2> QED
    BY <2>1, <2>2, <2>3
<1>3. CASE kind[r] \in Confirming
  <2>1. PICK d \in Drafts : /\ d = hand[r] /\ Spent(d.id)
                            /\ d.id \notin plan.changes /\ d.preview = Extend(plan, d.id)
    BY <1>1, <1>3, ConfirmedPlan
  <2>2. NextPlan(r) = Extend(plan, d.id)
    BY <1>1, <1>3, <2>1, ConfirmedPlan
  <2>3. d.id \in Requests
    BY DEF Drafts
  <2>4. [Next]_vars
    BY DEF Next, Step, Writes
  <2>5. Spent(d.id)'
    BY <2>1, <2>3, <2>4, SpentStable
  <2> QED
    BY <2>1, <2>2, <2>3, <2>5
<1> QED
  BY <1>1, <1>2, <1>3 DEF Control, KindsInv

\* A step leaves the plan alone or adds to it a change it lacks.
LEMMA PlanGrows ==
  ASSUME Control, Growth, ~barged, [Next]_vars
  PROVE  \/ plan' = plan
         \/ \E c \in Requests \ plan.changes : plan' = Extend(plan, c) /\ Spent(c)'
<1>1. ASSUME NEW r \in Requests, SavePlan(r)
      PROVE  \E c \in Requests \ plan.changes : plan' = Extend(plan, c) /\ Spent(c)'
  BY <1>1, NextPlanGrows DEF SavePlan
<1>2. CASE UNCHANGED plan
  BY <1>2
<1>3. ASSUME ~ \E r \in Requests : SavePlan(r) PROVE UNCHANGED plan
  BY <1>3, Frame
<1> QED
  BY <1>1, <1>3

\* A draft that grew from the plan still does, whatever the plan has become.
LEMMA GrowsStable ==
  ASSUME Control, Growth, ~barged, [Next]_vars, NEW d \in Drafts, Grows(d)
  PROVE  Grows(d)'
<1>1. plan.version \in Nat /\ d.base \in Nat /\ plan.changes \subseteq Requests
  BY DEF Control, TypeOK, Snapshots, Drafts
<1>2. CASE plan' = plan
  BY <1>2 DEF Grows
<1>3. ASSUME NEW c \in Requests, plan' = Extend(plan, c) PROVE Grows(d)'
  BY <1>1, <1>3 DEF Grows, Extend
<1> QED
  BY <1>2, <1>3, PlanGrows

\* The draft a request compiles from the plan it read.
LEMMA NewDraftGrows ==
  ASSUME Control, Growth, ~barged, NEW r \in Requests, ~Spent(r), seen[r] # None
  PROVE  NewDraft(r, seen[r]) \in Drafts /\ Grows(NewDraft(r, seen[r]))
<1>1. r \notin plan.changes
  BY DEF Growth, FilesInv
<1>2. seen[r] \in Snapshots
  BY DEF Control, TypeOK
<1>3. seen[r].version < plan.version \/ seen[r] = plan
  BY DEF Growth, SeenInv
<1> QED
  BY <1>1, <1>2, <1>3, NewDraftType DEF NewDraft, Grows


\* What a step writes to a file grew from the plan too.
LEMMA FilesGrow ==
  ASSUME Control, Growth, ~barged, [Next]_vars
  PROVE  FilesInv'
<1>1. ASSUME NEW d \in Drafts, Drafted(d) PROVE Drafted(d)'
  <2>1. d.id \in Requests
    BY DEF Drafts
  <2> QED
    BY <1>1, <2>1, SpentStable, GrowsStable DEF Drafted
<1>2. ASSUME NEW r \in Requests, ~Spent(r), Spent(r)', seen[r] # None,
             NEW d, d = NewDraft(r, seen[r])
      PROVE  Drafted(d)'
  <2>1. d \in Drafts /\ Grows(d)
    BY <1>2, NewDraftGrows
  <2>2. d.id = r /\ Grows(d)'
    BY <1>2, <2>1, GrowsStable DEF NewDraft
  <2> QED
    BY <1>2, <2>2 DEF Drafted
<1>3. \A c \in plan'.changes : Spent(c)'
  <2>1. \A c \in plan.changes : Spent(c)'
    BY SpentStable DEF Control, TypeOK, Snapshots, Growth, FilesInv
  <2> QED
    BY <2>1, PlanGrows DEF Extend
<1>4. \A d \in pending' \cup proposals' : d \in pending \cup proposals \/ Drafted(d)'
  <2>1. ASSUME NEW r \in Requests, SavePending(r)
        PROVE  \A d \in pending' : d \in pending \/ Drafted(d)'
    <3>1. ~Spent(r) /\ seen[r] # None /\ Spent(r)'
      BY <2>1 DEF SavePending, Spent, Close, Goto, Control, TypeOK, LocalsInv, AfterPlan
    <3> QED
      BY <1>2, <2>1, <3>1 DEF SavePending
  <2>2. ASSUME NEW r \in Requests, SaveProposal(r)
        PROVE  \A d \in proposals' : d \in proposals \/ Drafted(d)'
    <3>1. ~Spent(r) /\ seen[r] # None /\ Spent(r)'
      BY <2>2 DEF SaveProposal, Spent, Close, Goto, Control, TypeOK, LocalsInv, AfterPlan,
        locals
    <3> QED
      BY <1>2, <2>2, <3>1 DEF SaveProposal
  <2>3. (\E r \in Requests : SavePending(r)) \/ pending' \subseteq pending
    BY Frame
  <2>4. (\E r \in Requests : SaveProposal(r)) \/ proposals' \subseteq proposals
    BY Frame
  <2> QED
    BY <2>1, <2>2, <2>3, <2>4 DEF SavePending, SaveProposal
<1>5. chat' # None => chat' = chat \/ Drafted(chat)'
  <2>1. ASSUME NEW r \in Requests, SaveMessage(r), hand[r] # None PROVE Drafted(chat)'
    <3>1. PICK d \in Drafts : d = hand[r]
      BY <2>1 DEF Control, TypeOK
    <3>2. Drafted(d)
      BY <2>1, <3>1, NoneAssumption DEF SaveMessage, Growth, HandInv, AfterDraft, Drafted
    <3>3. chat' = d
      BY <2>1, <3>1 DEF SaveMessage
    <3> QED
      BY <1>1, <3>1, <3>2, <3>3 DEF Drafted, Grows
  <2>2. ASSUME NEW r \in Requests, SaveChat(r), hand[r] # None PROVE Drafted(chat)'
    <3>1. PICK d \in Drafts : d = hand[r]
      BY <2>2 DEF Control, TypeOK
    <3>2. Grows(d) /\ (Spent(d.id) \/ d.id = r)
      BY <2>2, <3>1 DEF Growth, HandInv
    <3>3. Spent(r)'
      BY <2>2 DEF SaveChat, Spent, Goto, Control, TypeOK
    <3>4. d.id \in Requests
      BY DEF Drafts
    <3>5. Drafted(d)'
      BY <3>2, <3>3, <3>4, GrowsStable, SpentStable DEF Drafted
    <3>6. chat' = d
      BY <2>2, <3>1 DEF SaveChat
    <3> QED
      BY <3>5, <3>6 DEF Drafted, Grows
  <2>3. ASSUME NEW r \in Requests, SaveMessage(r) \/ SaveChat(r) PROVE chat' = hand[r]
    BY <2>3 DEF SaveMessage, SaveChat
  <2>4. (\E r \in Requests : SaveMessage(r) \/ SaveChat(r)) \/ chat' = chat
    BY Frame
  <2> QED
    BY <2>1, <2>2, <2>3, <2>4
<1>6. \A d \in pending' \cup proposals' : Drafted(d)'
  BY <1>1, <1>4 DEF Control, TypeOK, Growth, FilesInv
<1>7. chat' # None => Drafted(chat)'
  <2>1. ASSUME chat' = chat, chat # None PROVE Drafted(chat)'
    <3>1. PICK d \in Drafts : d = chat /\ Drafted(d)
      BY <2>1 DEF Control, TypeOK, Growth, FilesInv
    <3> QED
      BY <1>1, <2>1, <3>1 DEF Drafted, Grows
  <2> QED
    BY <1>5, <2>1
<1> QED
  BY <1>3, <1>6, <1>7 DEF FilesInv

\* What a request has read is a state of the plan, and what it reads inside its
\* section is the plan until it writes it.
LEMMA SeenGrows ==
  ASSUME Control, Locking, Growth, ~barged, [Next]_vars
  PROVE  SeenInv'
<1> USE DEF Control, TypeOK, SeenInv, Growth, Goto, files, locals, ghosts
<1>1. \A s \in Snapshots : s.version < plan.version \/ s = plan
                           => s.version < plan'.version \/ s = plan'
  BY PlanGrows DEF Snapshots, Extend
<1>10. ASSUME NEW r \in Requests, Arrive(r) PROVE SeenInv'
  BY <1>10 DEF Arrive, Entry
<1>11. ASSUME NEW r \in Requests, Acquire(r) PROVE SeenInv'
  BY <1>11 DEF Acquire, AfterAcquire
<1>12. ASSUME NEW r \in Requests, CheckChat(r) PROVE SeenInv'
  BY <1>12 DEF CheckChat
<1>13. ASSUME NEW r \in Requests, TakeChat(r) PROVE SeenInv'
  BY <1>13 DEF TakeChat
<1>14. ASSUME NEW r \in Requests, PeekPlan(r) PROVE SeenInv'
  BY <1>14 DEF PeekPlan
<1>15. ASSUME NEW r \in Requests, ReadPending(r) PROVE SeenInv'
  BY <1>15 DEF ReadPending
<1>16. ASSUME NEW r \in Requests, ReadProposals(r) PROVE SeenInv'
  BY <1>16 DEF ReadProposals
<1>17. ASSUME NEW r \in Requests, ReadPlan(r) PROVE SeenInv'
  BY <1>17 DEF ReadPlan
<1>18. ASSUME NEW r \in Requests, ReadChat(r) PROVE SeenInv'
  BY <1>18 DEF ReadChat, ReadChatForMessage, ReadChatForApply, ReadChatForDiscard
<1>19. ASSUME NEW r \in Requests, Recheck(r) PROVE SeenInv'
  BY <1>19 DEF Recheck, AfterRecheck
<1>20. ASSUME NEW r \in Requests, ListProposals(r) PROVE SeenInv'
  BY <1>20 DEF ListProposals
<1>21. ASSUME NEW r \in Requests, LoadProposals(r) PROVE SeenInv'
  BY <1>21 DEF LoadProposals
<1>22. ASSUME NEW r \in Requests, SavePlan(r) PROVE SeenInv'
  <2>1. \A q \in Requests : pc[q] \in {"savePlan", "saveCommit", "readChat"} => q = r
    BY <1>22 DEF SavePlan, Locking, HoldersInv, Inside, MutualExclusion
  <2> QED
    BY <1>1, <1>22, <2>1 DEF SavePlan
<1>23. ASSUME NEW r \in Requests, SaveCommit(r) PROVE SeenInv'
  BY <1>23 DEF SaveCommit, AfterCommit
<1>24. ASSUME NEW r \in Requests, SavePending(r) PROVE SeenInv'
  BY <1>24 DEF SavePending, Close
<1>25. ASSUME NEW r \in Requests, RemovePending(r) PROVE SeenInv'
  BY <1>25 DEF RemovePending
<1>26. ASSUME NEW r \in Requests, SaveProposal(r) PROVE SeenInv'
  BY <1>26 DEF SaveProposal, Close
<1>27. ASSUME NEW r \in Requests, RemoveProposal(r) PROVE SeenInv'
  BY <1>27 DEF RemoveProposal
<1>28. ASSUME NEW r \in Requests, ClearProposal(r) PROVE SeenInv'
  BY <1>28 DEF ClearProposal
<1>29. ASSUME NEW r \in Requests, SaveMessage(r) PROVE SeenInv'
  BY <1>29 DEF SaveMessage
<1>30. ASSUME NEW r \in Requests, SaveChat(r) PROVE SeenInv'
  BY <1>30 DEF SaveChat
<1>31. ASSUME NEW r \in Requests, Finish(r) PROVE SeenInv'
  BY <1>31 DEF Finish, Close
<1>32. ASSUME NEW r \in Requests, Reject(r) PROVE SeenInv'
  BY <1>32 DEF Reject, Close
<1>33. ASSUME NEW r \in Requests, WriteFails(r) PROVE SeenInv'
  BY <1>33 DEF WriteFails, Close
<1>34. CASE Crash
  BY <1>34 DEF Crash, Running, Labels
<1>35. CASE UNCHANGED vars
  BY <1>35 DEF vars
<1>36. QED
  BY <1>10, <1>11, <1>12, <1>13, <1>14, <1>15, <1>16, <1>17, <1>18, <1>19, <1>20, <1>21,
    <1>22, <1>23, <1>24, <1>25, <1>26, <1>27, <1>28, <1>29, <1>30, <1>31, <1>32, <1>33,
    <1>34, <1>35
   DEF Next, Step, Reads, Writes

\* What a request has in hand grew from the plan, and is its own or on disk.
LEMMA HandGrows ==
  ASSUME Control, Growth, ~barged, [Next]_vars
  PROVE  HandInv'
<1> USE DEF Control, TypeOK, Goto, files, locals, ghosts
<1>1. ASSUME NEW d \in Drafts, Grows(d) PROVE Grows(d)'
  BY <1>1, GrowsStable
<1>2. ASSUME NEW d \in Drafts, Spent(d.id) PROVE Spent(d.id)'
  BY <1>2, SpentStable DEF Drafts
<1>3. ASSUME NEW r \in Requests, NEW d \in Drafts, NEW e \in Drafts, Grows(d),
             Spent(d.id) \/ (d.id = r /\ pc'[r] \in AfterDraft),
             e.id = d.id, e.base = d.base, e.preview = d.preview,
             hand' = [hand EXCEPT ![r] = e], UNCHANGED <<kind>>,
             \A q \in Requests \ {r} : pc'[q] = pc[q]
      PROVE  HandInv'
  <2>1. Grows(e)' /\ (Spent(e.id)' \/ (e.id = r /\ pc'[r] \in AfterDraft))
    BY <1>1, <1>2, <1>3 DEF Grows
  <2>2. \A q \in Requests \ {r} : hand'[q] # None =>
          /\ Grows(hand[q])'
          /\ Spent(hand[q].id)' \/ (hand'[q].id = q /\ pc'[q] \in AfterDraft)
    BY <1>1, <1>2, <1>3 DEF Growth, HandInv
  <2> QED
    BY <1>3, <2>1, <2>2 DEF HandInv
<1>10. ASSUME NEW r \in Requests, Arrive(r) PROVE HandInv'
  BY <1>1, <1>2, <1>10 DEF Arrive, Growth, HandInv, FilesInv, Drafted, AfterDraft
<1>11. ASSUME NEW r \in Requests, Acquire(r) PROVE HandInv'
  BY <1>1, <1>2, <1>11 DEF Acquire, AfterAcquire, Growth, HandInv, FilesInv, Drafted, AfterDraft
<1>12. ASSUME NEW r \in Requests, CheckChat(r) PROVE HandInv'
  BY <1>1, <1>2, <1>12 DEF CheckChat, Growth, HandInv, FilesInv, Drafted, AfterDraft
<1>13. ASSUME NEW r \in Requests, TakeChat(r) PROVE HandInv'
  BY <1>1, <1>2, <1>13 DEF TakeChat, Growth, HandInv, FilesInv, Drafted, AfterDraft
<1>14. ASSUME NEW r \in Requests, PeekPlan(r) PROVE HandInv'
  BY <1>1, <1>2, <1>14 DEF PeekPlan, Growth, HandInv, FilesInv, Drafted, AfterDraft
<1>15. ASSUME NEW r \in Requests, ReadPending(r) PROVE HandInv'
  BY <1>1, <1>2, <1>15 DEF ReadPending, Growth, HandInv, FilesInv, Drafted, AfterDraft
<1>16. ASSUME NEW r \in Requests, ReadProposals(r) PROVE HandInv'
  BY <1>1, <1>2, <1>16 DEF ReadProposals, Growth, HandInv, FilesInv, Drafted, AfterDraft
<1>17. ASSUME NEW r \in Requests, ReadPlan(r) PROVE HandInv'
  BY <1>1, <1>2, <1>17 DEF ReadPlan, Growth, HandInv, FilesInv, Drafted, AfterDraft
<1>18. ASSUME NEW r \in Requests, ReadChat(r) PROVE HandInv'
  <2>1. CASE chat = None
    BY <1>1, <1>2, <1>18, <2>1 DEF ReadChat, ReadChatForMessage, ReadChatForApply,
      ReadChatForDiscard, Growth, HandInv, AfterDraft
  <2>2. CASE chat # None
    <3>1. PICK d \in Drafts : d = chat /\ Grows(d) /\ Spent(d.id)
      BY <2>2 DEF Growth, FilesInv, Drafted
    <3>2. [d EXCEPT !.status = "discarded"] \in Drafts
      BY DEF Drafts, Statuses
    <3>3. PICK e \in {d, [d EXCEPT !.status = "discarded"]} : hand' = [hand EXCEPT ![r] = e]
      BY <1>18, <3>1 DEF ReadChat, ReadChatForMessage, ReadChatForApply, ReadChatForDiscard
    <3>4. e \in Drafts /\ e.id = d.id /\ e.base = d.base /\ e.preview = d.preview
      BY <3>2 DEF Drafts
    <3>5. UNCHANGED kind /\ \A q \in Requests \ {r} : pc'[q] = pc[q]
      BY <1>18 DEF ReadChat, ReadChatForMessage, ReadChatForApply, ReadChatForDiscard
    <3> QED
      BY <1>3, <3>1, <3>3, <3>4, <3>5
  <2> QED
    BY <2>1, <2>2
<1>19. ASSUME NEW r \in Requests, Recheck(r) PROVE HandInv'
  <2>1. CASE UNCHANGED hand
    BY <1>1, <1>2, <1>19, <2>1 DEF Recheck, AfterRecheck, Growth, HandInv, AfterDraft
  <2>2. CASE hand' = [hand EXCEPT ![r] = NewDraft(r, seen[r])]
    <3>1. seen[r] # None /\ ~Spent(r)
      BY <1>19 DEF Recheck, LocalsInv, AfterPlan, Spent
    <3>2. PICK d \in Drafts : d = NewDraft(r, seen[r]) /\ Grows(d) /\ d.id = r
      BY <3>1, NewDraftGrows DEF NewDraft
    <3>3. pc'[r] \in AfterDraft /\ UNCHANGED kind /\ \A q \in Requests \ {r} : pc'[q] = pc[q]
      BY <1>19 DEF Recheck, AfterRecheck, AfterDraft
    <3> QED
      BY <1>3, <2>2, <3>2, <3>3
  <2> QED
    BY <1>19, <2>1, <2>2 DEF Recheck
<1>20. ASSUME NEW r \in Requests, ListProposals(r) PROVE HandInv'
  BY <1>1, <1>2, <1>20 DEF ListProposals, Growth, HandInv, FilesInv, Drafted, AfterDraft
<1>21. ASSUME NEW r \in Requests, LoadProposals(r) PROVE HandInv'
  BY <1>1, <1>2, <1>21 DEF LoadProposals, Growth, HandInv, FilesInv, Drafted, AfterDraft
<1>22. ASSUME NEW r \in Requests, SavePlan(r) PROVE HandInv'
  BY <1>1, <1>2, <1>22 DEF SavePlan, Growth, HandInv, FilesInv, Drafted, AfterDraft
<1>23. ASSUME NEW r \in Requests, SaveCommit(r) PROVE HandInv'
  <2>1. CASE kind[r] # "chatApply"
    BY <1>1, <1>2, <1>23, <2>1 DEF SaveCommit, AfterCommit, Growth, HandInv, AfterDraft
  <2>2. CASE kind[r] = "chatApply"
    <3>1. PICK d \in Drafts : d = hand[r]
      BY <1>23, <2>2 DEF SaveCommit, LocalsInv
    <3>2. Grows(d) /\ Spent(d.id)
      BY <1>23, <3>1, NoneAssumption DEF SaveCommit, Growth, HandInv, AfterDraft
    <3>3. PICK e \in Drafts : /\ hand' = [hand EXCEPT ![r] = e]
                              /\ e.id = d.id /\ e.base = d.base /\ e.preview = d.preview
      <4>1. [d EXCEPT !.status = "applied"] \in Drafts
        BY DEF Drafts, Statuses
      <4> QED
        BY <1>23, <2>2, <3>1, <4>1 DEF SaveCommit, Drafts
    <3>4. UNCHANGED kind /\ \A q \in Requests \ {r} : pc'[q] = pc[q]
      BY <1>23 DEF SaveCommit
    <3> QED
      BY <1>3, <3>2, <3>3, <3>4
  <2> QED
    BY <2>1, <2>2
<1>24. ASSUME NEW r \in Requests, SavePending(r) PROVE HandInv'
  BY <1>1, <1>2, <1>24 DEF SavePending, Close, Growth, HandInv, FilesInv, Drafted, AfterDraft
<1>25. ASSUME NEW r \in Requests, RemovePending(r) PROVE HandInv'
  BY <1>1, <1>2, <1>25 DEF RemovePending, Growth, HandInv, FilesInv, Drafted, AfterDraft
<1>26. ASSUME NEW r \in Requests, SaveProposal(r) PROVE HandInv'
  BY <1>1, <1>2, <1>26 DEF SaveProposal, Close, Growth, HandInv, FilesInv, Drafted, AfterDraft
<1>27. ASSUME NEW r \in Requests, RemoveProposal(r) PROVE HandInv'
  BY <1>1, <1>2, <1>27 DEF RemoveProposal, Growth, HandInv, FilesInv, Drafted, AfterDraft
<1>28. ASSUME NEW r \in Requests, ClearProposal(r) PROVE HandInv'
  BY <1>1, <1>2, <1>28 DEF ClearProposal, Growth, HandInv, FilesInv, Drafted, AfterDraft
<1>29. ASSUME NEW r \in Requests, SaveMessage(r) PROVE HandInv'
  BY <1>1, <1>2, <1>29 DEF SaveMessage, Growth, HandInv, FilesInv, Drafted, AfterDraft
<1>30. ASSUME NEW r \in Requests, SaveChat(r) PROVE HandInv'
  BY <1>1, <1>2, <1>30 DEF SaveChat, Growth, HandInv, FilesInv, Drafted, AfterDraft
<1>31. ASSUME NEW r \in Requests, Finish(r) PROVE HandInv'
  BY <1>1, <1>2, <1>31 DEF Finish, Close, Growth, HandInv, FilesInv, Drafted, AfterDraft
<1>32. ASSUME NEW r \in Requests, Reject(r) PROVE HandInv'
  BY <1>1, <1>2, <1>32 DEF Reject, Close, Growth, HandInv, FilesInv, Drafted, AfterDraft
<1>33. ASSUME NEW r \in Requests, WriteFails(r) PROVE HandInv'
  BY <1>1, <1>2, <1>33 DEF WriteFails, Close, Growth, HandInv, FilesInv, Drafted, AfterDraft
<1>34. CASE Crash
  BY <1>34 DEF Crash, HandInv
<1>35. CASE UNCHANGED vars
  BY <1>35 DEF vars, Growth, HandInv, Grows, Spent
<1>36. QED
  BY <1>10, <1>11, <1>12, <1>13, <1>14, <1>15, <1>16, <1>17, <1>18, <1>19, <1>20, <1>21,
    <1>22, <1>23, <1>24, <1>25, <1>26, <1>27, <1>28, <1>29, <1>30, <1>31, <1>32, <1>33,
    <1>34, <1>35
   DEF Next, Step, Reads, Writes

LEMMA NextGrowth == Control /\ Locking /\ Growth /\ [Next]_vars => Growth'
BY Frame, FilesGrow, SeenGrows, HandGrows DEF Growth

-----------------------------------------------------------------------------
(* Consequences: what the locked sections write.                           *)

\* A locked draft that passed its recheck was made from the plan on disk.
Rechecked(r) ==
  \/ pc[r] \in {"list", "load", "savePending", "saveProposal"}
  \/ pc[r] = "saveChat" /\ kind[r] = "chatMessage"

CurrentInv == \A r \in holders : Rechecked(r) => seen[r] = plan

WritesInv == ~barged => HistoryLinear /\ ConfirmedAsPreviewed /\ CurrentInv

IInv == Control /\ Locking /\ Growth /\ WritesInv

LEMMA InitWrites == Init => WritesInv
BY DEF Init, WritesInv, HistoryLinear, ConfirmedAsPreviewed, CurrentInv

\* A commit file holds the plan, and the plan only grows.
LEMMA NextHistory ==
  ASSUME Control, Growth, HistoryLinear, ~barged, [Next]_vars
  PROVE  HistoryLinear'
<1> USE DEF HistoryLinear
<1>1. plan \in Snapshots /\ commits \subseteq Snapshots
  BY DEF Control, TypeOK
<1>2. \A c \in Snapshots : c = plan \/ Before(c, plan) => c = plan' \/ Before(c, plan')
  BY <1>1, PlanGrows DEF Snapshots, Before, Extend
<1>3. commits' \subseteq commits \/ (plan' = plan /\ commits' \subseteq commits \cup {plan})
  <2>1. ASSUME NEW r \in Requests, SaveCommit(r)
        PROVE  plan' = plan /\ commits' \subseteq commits \cup {plan}
    BY <2>1 DEF SaveCommit, Growth, SeenInv
  <2>2. (\E r \in Requests : SaveCommit(r)) \/ commits' = commits
    BY Frame
  <2> QED
    BY <2>1, <2>2
<1> QED
  BY <1>1, <1>2, <1>3

\* What is confirmed is what was previewed.
LEMMA NextConfirmed ==
  ASSUME Control, Growth, ConfirmedAsPreviewed, ~barged, [Next]_vars
  PROVE  ConfirmedAsPreviewed'
<1> USE DEF ConfirmedAsPreviewed, Control, TypeOK, Goto, files, locals, ghosts
<1>1. ASSUME NEW r \in Requests, Arrive(r) PROVE ConfirmedAsPreviewed'
  BY <1>1 DEF Arrive, Entry
<1>2. ASSUME NEW r \in Requests, Acquire(r) PROVE ConfirmedAsPreviewed'
  BY <1>2 DEF Acquire, AfterAcquire, Lock
<1>3. ASSUME NEW r \in Requests, CheckChat(r) PROVE ConfirmedAsPreviewed'
  BY <1>3 DEF CheckChat
<1>4. ASSUME NEW r \in Requests, TakeChat(r) PROVE ConfirmedAsPreviewed'
  BY <1>4 DEF TakeChat, Lock
<1>5. ASSUME NEW r \in Requests, PeekPlan(r) PROVE ConfirmedAsPreviewed'
  BY <1>5 DEF PeekPlan
<1>6. ASSUME NEW r \in Requests, ReadPending(r) PROVE ConfirmedAsPreviewed'
  BY <1>6 DEF ReadPending
<1>7. ASSUME NEW r \in Requests, ReadProposals(r) PROVE ConfirmedAsPreviewed'
  BY <1>7 DEF ReadProposals
<1>8. ASSUME NEW r \in Requests, ReadPlan(r) PROVE ConfirmedAsPreviewed'
  BY <1>8 DEF ReadPlan
<1>9. ASSUME NEW r \in Requests, ReadChat(r) PROVE ConfirmedAsPreviewed'
  BY <1>9 DEF ReadChat, ReadChatForMessage, ReadChatForApply, ReadChatForDiscard
<1>10. ASSUME NEW r \in Requests, Recheck(r) PROVE ConfirmedAsPreviewed'
  BY <1>10 DEF Recheck, AfterRecheck
<1>11. ASSUME NEW r \in Requests, ListProposals(r) PROVE ConfirmedAsPreviewed'
  BY <1>11 DEF ListProposals
<1>12. ASSUME NEW r \in Requests, LoadProposals(r) PROVE ConfirmedAsPreviewed'
  BY <1>12 DEF LoadProposals
<1>13. ASSUME NEW r \in Requests, SavePlan(r) PROVE ConfirmedAsPreviewed'
  <2>1. CASE kind[r] = "edit"
    BY <1>13, <2>1 DEF SavePlan
  <2>2. CASE kind[r] \in Confirming
    <3>1. NextPlan(r) = hand[r].preview
      BY <1>13, <2>2, ConfirmedPlan DEF SavePlan
    <3> QED
      BY <1>13, <3>1 DEF SavePlan
  <2> QED
    BY <1>13, <2>1, <2>2 DEF SavePlan, KindsInv
<1>14. ASSUME NEW r \in Requests, SaveCommit(r) PROVE ConfirmedAsPreviewed'
  BY <1>14 DEF SaveCommit, AfterCommit
<1>15. ASSUME NEW r \in Requests, SavePending(r) PROVE ConfirmedAsPreviewed'
  BY <1>15 DEF SavePending, Close
<1>16. ASSUME NEW r \in Requests, RemovePending(r) PROVE ConfirmedAsPreviewed'
  BY <1>16 DEF RemovePending
<1>17. ASSUME NEW r \in Requests, SaveProposal(r) PROVE ConfirmedAsPreviewed'
  BY <1>17 DEF SaveProposal, Close
<1>18. ASSUME NEW r \in Requests, RemoveProposal(r) PROVE ConfirmedAsPreviewed'
  BY <1>18 DEF RemoveProposal
<1>19. ASSUME NEW r \in Requests, ClearProposal(r) PROVE ConfirmedAsPreviewed'
  BY <1>19 DEF ClearProposal
<1>20. ASSUME NEW r \in Requests, SaveMessage(r) PROVE ConfirmedAsPreviewed'
  BY <1>20 DEF SaveMessage
<1>21. ASSUME NEW r \in Requests, SaveChat(r) PROVE ConfirmedAsPreviewed'
  BY <1>21 DEF SaveChat
<1>22. ASSUME NEW r \in Requests, Finish(r) PROVE ConfirmedAsPreviewed'
  BY <1>22 DEF Finish, Close, Release, Unlock
<1>23. ASSUME NEW r \in Requests, Reject(r) PROVE ConfirmedAsPreviewed'
  BY <1>23 DEF Reject, Close, Release, Unlock
<1>24. ASSUME NEW r \in Requests, WriteFails(r) PROVE ConfirmedAsPreviewed'
  BY <1>24 DEF WriteFails, Close, Release, Unlock
<1>25. CASE Crash
  BY <1>25 DEF Crash, Running, Labels
<1>26. CASE UNCHANGED vars
  BY <1>26 DEF vars
<1>27. QED
  BY <1>1, <1>2, <1>3, <1>4, <1>5, <1>6, <1>7, <1>8, <1>9, <1>10, <1>11, <1>12, <1>13,
    <1>14, <1>15, <1>16, <1>17, <1>18, <1>19, <1>20, <1>21, <1>22, <1>23, <1>24, <1>25,
    <1>26
   DEF Next, Step, Reads, Writes

\* A draft that passed its recheck stays current while its request holds the lock.
LEMMA NextCurrent ==
  ASSUME Control, Locking, Growth, ~barged, CurrentInv, [Next]_vars
  PROVE  CurrentInv'
<1> USE DEF CurrentInv, Rechecked, Control, TypeOK, Goto, files, locals, ghosts
<1>1. ASSUME NEW r \in Requests, Arrive(r) PROVE CurrentInv'
  BY <1>1 DEF Arrive, Entry
<1>2. ASSUME NEW r \in Requests, Acquire(r) PROVE CurrentInv'
  BY <1>2 DEF Acquire, AfterAcquire, Lock
<1>3. ASSUME NEW r \in Requests, CheckChat(r) PROVE CurrentInv'
  BY <1>3 DEF CheckChat
<1>4. ASSUME NEW r \in Requests, TakeChat(r) PROVE CurrentInv'
  BY <1>4 DEF TakeChat, Lock
<1>5. ASSUME NEW r \in Requests, PeekPlan(r) PROVE CurrentInv'
  BY <1>5 DEF PeekPlan, Locking, HoldersInv, Inside
<1>6. ASSUME NEW r \in Requests, ReadPending(r) PROVE CurrentInv'
  BY <1>6 DEF ReadPending
<1>7. ASSUME NEW r \in Requests, ReadProposals(r) PROVE CurrentInv'
  BY <1>7 DEF ReadProposals
<1>8. ASSUME NEW r \in Requests, ReadPlan(r) PROVE CurrentInv'
  BY <1>8 DEF ReadPlan
<1>9. ASSUME NEW r \in Requests, ReadChat(r) PROVE CurrentInv'
  BY <1>9 DEF ReadChat, ReadChatForMessage, ReadChatForApply, ReadChatForDiscard
<1>10. ASSUME NEW r \in Requests, Recheck(r) PROVE CurrentInv'
  BY <1>10 DEF Recheck, AfterRecheck, LocalsInv, AfterPlan, Growth, SeenInv, Snapshots
<1>11. ASSUME NEW r \in Requests, ListProposals(r) PROVE CurrentInv'
  BY <1>11 DEF ListProposals
<1>12. ASSUME NEW r \in Requests, LoadProposals(r) PROVE CurrentInv'
  BY <1>12 DEF LoadProposals
<1>13. ASSUME NEW r \in Requests, SavePlan(r) PROVE CurrentInv'
  BY <1>13 DEF SavePlan, Locking, HoldersInv, Inside, MutualExclusion
<1>14. ASSUME NEW r \in Requests, SaveCommit(r) PROVE CurrentInv'
  BY <1>14 DEF SaveCommit, AfterCommit, KindsInv
<1>15. ASSUME NEW r \in Requests, SavePending(r) PROVE CurrentInv'
  BY <1>15 DEF SavePending, Close
<1>16. ASSUME NEW r \in Requests, RemovePending(r) PROVE CurrentInv'
  BY <1>16 DEF RemovePending
<1>17. ASSUME NEW r \in Requests, SaveProposal(r) PROVE CurrentInv'
  BY <1>17 DEF SaveProposal, Close
<1>18. ASSUME NEW r \in Requests, RemoveProposal(r) PROVE CurrentInv'
  BY <1>18 DEF RemoveProposal
<1>19. ASSUME NEW r \in Requests, ClearProposal(r) PROVE CurrentInv'
  BY <1>19 DEF ClearProposal, Locking, HoldersInv, Inside
<1>20. ASSUME NEW r \in Requests, SaveMessage(r) PROVE CurrentInv'
  BY <1>20 DEF SaveMessage
<1>21. ASSUME NEW r \in Requests, SaveChat(r) PROVE CurrentInv'
  BY <1>21 DEF SaveChat
<1>22. ASSUME NEW r \in Requests, Finish(r) PROVE CurrentInv'
  BY <1>22 DEF Finish, Close, Release, Unlock
<1>23. ASSUME NEW r \in Requests, Reject(r) PROVE CurrentInv'
  BY <1>23 DEF Reject, Close, Release, Unlock
<1>24. ASSUME NEW r \in Requests, WriteFails(r) PROVE CurrentInv'
  BY <1>24 DEF WriteFails, Close, Release, Unlock
<1>25. CASE Crash
  BY <1>25 DEF Crash, Running, Labels
<1>26. CASE UNCHANGED vars
  BY <1>26 DEF vars
<1>27. QED
  BY <1>1, <1>2, <1>3, <1>4, <1>5, <1>6, <1>7, <1>8, <1>9, <1>10, <1>11, <1>12, <1>13,
    <1>14, <1>15, <1>16, <1>17, <1>18, <1>19, <1>20, <1>21, <1>22, <1>23, <1>24, <1>25,
    <1>26
   DEF Next, Step, Reads, Writes

LEMMA NextWrites == IInv /\ [Next]_vars => WritesInv'
BY Frame, NextHistory, NextConfirmed, NextCurrent DEF IInv, WritesInv

-----------------------------------------------------------------------------
(* Theorems.                                                               *)

\* The inductive invariant holds in every reachable state.
THEOREM Invariant == Spec => []IInv
<1>1. Init => IInv
  BY InitControl, InitLocking, InitGrowth, InitWrites DEF IInv
<1>2. IInv /\ [Next]_vars => IInv'
  BY NextControl, NextLocking, NextGrowth, NextWrites DEF IInv
<1> QED
  BY <1>1, <1>2, PTL DEF Spec

\* A server without the chat has no way around the lock.
THEOREM OnlyChatBarges ==
  ASSUME Kinds \cap ChatKinds = {}
  PROVE  Spec => []~barged
<1>1. Init => ~barged
  BY DEF Init
<1>2. IInv /\ ~barged /\ [Next]_vars => ~barged'
  <2>1. ASSUME IInv, NEW r \in Requests, TakeChat(r) PROVE FALSE
    BY <2>1, NoneAssumption DEF IInv, Control, TypeOK, KindsInv, TakeChat
  <2> QED
    BY <2>1, Frame
<1> QED
  BY <1>1, <1>2, Invariant, PTL DEF Spec

\* plan.json and commits/ of a server without the chat implement PlanHistory:
\* savePlan publishes a change, saveCommit records the plan.
THEOREM HistoryIsKept ==
  ASSUME Kinds \cap ChatKinds = {}
  PROVE  Spec => KeepsHistory
<1>1. Init => History!Init
  BY DEF Init, History!Init, FirstPlan
<1>2. IInv /\ ~barged /\ [Next]_vars => [History!Next]_<<plan, commits>>
  <2> SUFFICES ASSUME IInv, ~barged, [Next]_vars
               PROVE  History!Next \/ UNCHANGED <<plan, commits>>
    OBVIOUS
  <2>1. ASSUME NEW r \in Requests, SaveCommit(r) PROVE History!Record
    <3>1. seen[r] = plan /\ plan' = plan
      BY <2>1 DEF IInv, Growth, SeenInv, SaveCommit
    <3>2. \A c \in commits : c.version = plan.version => c = plan
      BY DEF IInv, Control, TypeOK, Snapshots, WritesInv, HistoryLinear, Before
    <3>3. commits' = commits \cup {plan}
      BY <2>1, <3>1, <3>2 DEF SaveCommit
    <3> QED
      BY <3>1, <3>3 DEF History!Record
  <2>2. ASSUME commits' = commits, plan' # plan PROVE History!Publish
    BY <2>2, PlanGrows DEF IInv, History!Publish, History!Extend, Extend
  <2> QED
    BY <2>1, <2>2, Frame DEF History!Next
<1> QED
  BY <1>1, <1>2, OnlyChatBarges, Invariant, PTL DEF Spec, KeepsHistory, History!Spec

\* Every file and every handler's variable keeps its shape.
THEOREM TypeCorrect == Spec => []TypeOK
<1>1. IInv => TypeOK
  BY DEF IInv, Control
<1> QED
  BY <1>1, Invariant, PTL

\* Every handler that takes the lock gives it back, whatever happens, and no two
\* are inside together (unless a chat request barged in).
THEOREM LockIsExclusive == Spec => []MutualExclusion
<1>1. IInv => MutualExclusion
  BY DEF IInv, Locking
<1> QED
  BY <1>1, Invariant, PTL

\* No confirmed change to plan.json is overwritten, and none is made twice.
THEOREM PlanOnlyGrows == Spec => NoLostUpdate
<1>1. IInv /\ [Next]_vars =>
        [plan' # plan =>
           \/ barged
           \/ \E c \in Requests \ plan.changes : plan' = Extend(plan, c)]_vars
  BY PlanGrows DEF IInv
<1> QED
  BY <1>1, Invariant, PTL DEF Spec, NoLostUpdate

\* The commits are one line of history that ends at plan.json or before it.
THEOREM HistoryIsLinear == Spec => []HistoryLinear
<1>1. IInv => HistoryLinear
  BY DEF IInv, WritesInv, HistoryLinear
<1> QED
  BY <1>1, Invariant, PTL

\* Between savePlan and saveCommit the commits lack the plan's version, and only it.
CompleteInv ==
  ~barged /\ ~faulted =>
    /\ plan.version > 0
    /\ IF \E r \in Requests : pc[r] = "saveCommit"
       THEN {c.version : c \in commits} = 1 .. plan.version - 1
       ELSE plan \in commits /\ {c.version : c \in commits} = 1 .. plan.version

\* The same requests have their commit before them as before.
SameCommitters == \A q \in Requests : pc'[q] = "saveCommit" <=> pc[q] = "saveCommit"

\* Nothing but a failure takes a request away from its commit.
LEMMA CommitFrame ==
  ASSUME Control, [Next]_vars
  PROVE  \/ \E r \in Requests : SavePlan(r) \/ SaveCommit(r)
         \/ faulted'
         \/ plan' = plan /\ commits' = commits /\ faulted' = faulted /\ SameCommitters
<1> USE NoneAssumption DEF SameCommitters, Control, TypeOK, files, locals, ghosts, Goto
<1> SUFFICES ASSUME ~ \E r \in Requests : SavePlan(r) \/ SaveCommit(r), ~faulted'
             PROVE  plan' = plan /\ commits' = commits /\ faulted' = faulted /\ SameCommitters
  OBVIOUS
<1>1. ASSUME NEW r \in Requests, Arrive(r) PROVE faulted' = faulted /\ SameCommitters
  BY <1>1 DEF Arrive, Entry
<1>2. ASSUME NEW r \in Requests, Acquire(r) \/ CheckChat(r) \/ TakeChat(r) PROVE faulted' = faulted /\ SameCommitters
  BY <1>2 DEF Acquire, AfterAcquire, CheckChat, TakeChat
<1>3. ASSUME NEW r \in Requests, Reads(r) PROVE faulted' = faulted /\ SameCommitters
  BY <1>3 DEF Reads, PeekPlan, ReadPending, ReadProposals, ReadPlan, ReadChat,
       ReadChatForMessage, ReadChatForApply, ReadChatForDiscard, Recheck, AfterRecheck,
       ListProposals, LoadProposals
<1>4. ASSUME NEW r \in Requests, Writes(r) PROVE faulted' = faulted /\ SameCommitters
  BY <1>4 DEF Writes, SavePending, RemovePending, SaveProposal, RemoveProposal,
       ClearProposal, SaveMessage, SaveChat, Close
<1>5. ASSUME NEW r \in Requests, Finish(r) \/ Reject(r) PROVE faulted' = faulted /\ SameCommitters
  BY <1>5 DEF Finish, Reject, Close, Writing
<1>6. (\E r \in Requests : WriteFails(r)) \/ Crash => faulted'
  BY DEF WriteFails, Crash
<1>7. plan' = plan /\ commits' = commits
  BY Frame
<1> QED
  BY <1>1, <1>2, <1>3, <1>4, <1>5, <1>6, <1>7 DEF Next, Step, vars

LEMMA NextComplete ==
  ASSUME IInv, CompleteInv, [Next]_vars
  PROVE  CompleteInv'
<1> SUFFICES ASSUME ~barged', ~faulted' PROVE CompleteInv'
  BY DEF CompleteInv
<1>1. ~barged /\ Control /\ Locking /\ Growth /\ HistoryLinear
  BY Frame DEF IInv, WritesInv
<1>2. plan \in Snapshots /\ commits \subseteq Snapshots
  BY <1>1 DEF Control, TypeOK
<1>3. \A r, q \in Requests : pc[r] \in {"savePlan", "saveCommit"} /\ pc[q] = "saveCommit" => q = r
  BY <1>1 DEF Locking, HoldersInv, Inside, MutualExclusion
<1>4. ASSUME NEW r \in Requests, SavePlan(r) PROVE CompleteInv'
  <2>1. ~faulted /\ commits' = commits /\ pc'[r] = "saveCommit"
    BY <1>1, <1>4 DEF SavePlan, Control, TypeOK, Goto, ghosts
  <2>2. \A q \in Requests : pc[q] # "saveCommit"
    BY <1>3, <1>4 DEF SavePlan
  <2>3. PICK new \in Requests : plan' = Extend(plan, new)
    BY <1>1, <1>4, NextPlanGrows DEF SavePlan
  <2>4. {c.version : c \in commits} = 1 .. plan.version
    BY <1>1, <2>1, <2>2 DEF CompleteInv
  <2>5. plan'.version = plan.version + 1
    BY <2>3 DEF Extend
  <2>6. {c.version : c \in commits'} = 1 .. plan'.version - 1
    BY <1>2, <2>1, <2>4, <2>5 DEF Snapshots
  <2> QED
    BY <1>2, <2>1, <2>5, <2>6 DEF CompleteInv, Snapshots
<1>5. ASSUME NEW r \in Requests, SaveCommit(r) PROVE CompleteInv'
  <2>1. ~faulted /\ plan' = plan /\ seen[r] = plan
    BY <1>1, <1>5 DEF SaveCommit, Growth, SeenInv, ghosts
  <2>2. plan.version > 0 /\ {c.version : c \in commits} = 1 .. plan.version - 1
    BY <1>1, <1>5, <2>1 DEF CompleteInv, SaveCommit
  <2>3. commits' = commits \cup {plan}
    BY <1>2, <1>5, <2>1, <2>2 DEF SaveCommit, Snapshots
  <2>4. \A q \in Requests : pc'[q] # "saveCommit"
    BY <1>1, <1>3, <1>5 DEF SaveCommit, AfterCommit, Control, TypeOK, Goto
  <2>5. {c.version : c \in commits'} = 1 .. plan.version
    BY <1>2, <2>2, <2>3 DEF Snapshots
  <2> QED
    BY <2>1, <2>3, <2>4, <2>5 DEF CompleteInv
<1>6. CASE plan' = plan /\ commits' = commits /\ faulted' = faulted /\ SameCommitters
  BY <1>1, <1>6 DEF CompleteInv, SameCommitters
<1> QED
  BY <1>1, <1>4, <1>5, <1>6, CommitFrame

\* Every version of the plan has its commit, unless a file operation failed.
THEOREM HistoryIsComplete == Spec => []HistoryComplete
<1>1. Init => CompleteInv
  BY DEF Init, CompleteInv, FirstPlan
<1>2. IInv /\ CompleteInv /\ [Next]_vars => CompleteInv'
  BY NextComplete
<1>3. CompleteInv => HistoryComplete
  BY DEF CompleteInv, HistoryComplete
<1> QED
  BY <1>1, <1>2, <1>3, Invariant, PTL DEF Spec

\* A confirmation writes what its draft previewed.
THEOREM ConfirmationIsPreview == Spec => []ConfirmedAsPreviewed
<1>1. IInv => ConfirmedAsPreviewed
  BY DEF IInv, WritesInv, ConfirmedAsPreviewed
<1> QED
  BY <1>1, Invariant, PTL

\* No draft of a plan that has moved on is saved by a request that holds the lock.
THEOREM DraftsAreCurrent == Spec => []NoStaleDraftSaved
<1>1. IInv => NoStaleDraftSaved
  BY DEF IInv, WritesInv, CurrentInv, Rechecked, NoStaleDraftSaved
<1> QED
  BY <1>1, Invariant, PTL

-----------------------------------------------------------------------------
(* Whose draft is it.                                                      *)

PatchKinds    == {"event", "replan"}
BaselineKinds == {"live", "revise", "mock"}

\* A request has a kind once it has come, and drafts of each file and in each
\* hand come from the kinds that make them.
OriginInv ==
  /\ \A r \in Requests : pc[r] = "idle" => kind[r] = None /\ hand[r] = None
  /\ \A r \in Requests : pc[r] = "saveChat" => kind[r] \in ChatKinds
  /\ \A d \in pending : kind[d.id] \in PatchKinds
  /\ \A d \in proposals : kind[d.id] \in BaselineKinds
  /\ chat # None => kind[chat.id] = "chatMessage"
  /\ \A r \in Requests : hand[r] # None =>
       /\ kind[r] = "applyDiff" => kind[hand[r].id] \in PatchKinds
       /\ kind[r] = "applyBaseline" => kind[hand[r].id] \in BaselineKinds
       /\ kind[r] \in ChatKinds => kind[hand[r].id] = "chatMessage"

-----------------------------------------------------------------------------
(* Baseline drafts.                                                        *)

Orderly == ~barged /\ ~faulted /\ \A r \in Requests : kind[r] # "mock"

\* r has saved its draft and still has to delete those it replaces.
Replacing(r) == pc[r] = "clear" \/ (pc[r] = "removeProposal" /\ kind[r] = "revise")
Replaced(r)  == IF pc[r] = "clear" THEN stale[r] ELSE {target[r]}

BaselineInv ==
  /\ \A d, e \in proposals : d.id = e.id => d = e
  /\ (\A r \in Requests : ~ Replacing(r)) => \A d, e \in proposals : d = e
  /\ \A r \in Requests :
       /\ Replacing(r) => \A d \in proposals : d.id = r \/ d.id \in Replaced(r)
       /\ pc[r] \in {"list", "load", "clear"} => kind[r] = "live"
       /\ pc[r] = "load" \/ (pc[r] = "saveProposal" /\ kind[r] = "live") =>
            stale[r] = {d.id : d \in proposals}
       /\ pc[r] \in {"recheck", "saveProposal"} /\ kind[r] = "revise" =>
            \A d \in proposals : d.id = target[r]

-----------------------------------------------------------------------------
(* The conversation.                                                       *)

\* r has applied the chat's proposal and not yet said so.
Applying(r) ==
  kind[r] = "chatApply" /\ pc[r] \in {"saveCommit", "saveChat"} /\ hand[r].id = chat.id

\* What a request that may write the conversation has in hand of it.
TalkInv ==
  \A r \in Requests :
    /\ pc[r] = "saveMessage" => hand[r] = chat
    /\ pc[r] = "recheck" /\ kind[r] = "chatMessage" => hand[r] = chat
    /\ pc[r] \in {"savePlan", "saveCommit"} /\ kind[r] = "chatApply" =>
         hand[r] = chat /\ chat.status = "pending"
    /\ pc[r] = "saveCommit" /\ kind[r] = "chatApply" => hand[r].id \in plan.changes
    /\ pc[r] = "saveChat" =>
         \/ kind[r] = "chatMessage" /\ hand[r] = chat
         \/ kind[r] = "chatMessage" /\ hand[r] # None /\ hand[r].id = r /\ hand[r].status = "pending"
         \/ kind[r] = "chatApply" /\ hand[r] # None /\ hand[r].status = "applied"
              /\ hand[r].id \in plan.changes /\ chat # None /\ chat.status = "pending"
         \/ kind[r] = "chatDiscard" /\ chat # None /\ chat.status # "applied"
              /\ hand[r] = [chat EXCEPT !.status = "discarded"]

\* A proposal that is in the plan is said to be, or is about to be.
SaidInv ==
  chat # None =>
    /\ chat.status = "applied" => chat.id \in plan.changes
    /\ ~ faulted /\ chat.id \in plan.changes =>
         chat.status = "applied" \/ \E r \in Requests : Applying(r)

DraftInv == OriginInv /\ (Orderly => BaselineInv) /\ (~ barged => TalkInv /\ SaidInv)

-----------------------------------------------------------------------------
USE DEF AllKinds, LockFirstKinds, PlanFirstKinds, ChatKinds, Confirming, Drafting

\* Until a chat request barges in, one request is inside.
LEMMA OneInside ==
  ASSUME Locking, ~ barged, NEW q \in Requests, NEW r \in Requests, Inside(q), Inside(r)
  PROVE  q = r
BY DEF Locking, HoldersInv, MutualExclusion

LEMMA InitDraft == Init => DraftInv
<1> SUFFICES ASSUME Init PROVE DraftInv
  OBVIOUS
<1>1. OriginInv
  BY DEF Init, OriginInv
<1>2. BaselineInv
  BY DEF Init, BaselineInv, Replacing
<1>3. TalkInv /\ SaidInv
  BY DEF Init, TalkInv, SaidInv
<1> QED
  BY <1>1, <1>2, <1>3 DEF DraftInv

-----------------------------------------------------------------------------
(* Origins.                                                                *)

\* What a request draws into its hand it draws from where drafts of that kind are.
LEMMA NextOrigin == Control /\ OriginInv /\ [Next]_vars => OriginInv'
<1> SUFFICES ASSUME Control, OriginInv, [Next]_vars PROVE OriginInv'
  OBVIOUS
<1> USE NoneAssumption, KindsAssumption DEF PatchKinds, BaselineKinds
<1>0. /\ \A d \in pending \cup proposals : d.id \in Requests
      /\ chat # None => chat.id \in Requests
      /\ \A r \in Requests : hand[r] # None => hand[r].id \in Requests
  BY DEF Control, TypeOK, Drafts
<1>1. ASSUME NEW r \in Requests, Arrive(r) PROVE OriginInv'
  <2>1. PICK k \in Kinds : kind' = [kind EXCEPT ![r] = k]
    BY <1>1 DEF Arrive
  <2>2. kind[r] = None /\ pc[r] = "idle" /\ hand[r] = None
    BY <1>1 DEF Arrive, OriginInv
  <2>3. pc'[r] \in {"acquire", "peek", "check"}
    BY <1>1 DEF Arrive, Goto, Entry, Control, TypeOK
  <2>4. UNCHANGED <<pending, proposals, chat, hand>>
    BY <1>1 DEF Arrive, files
  <2>5. \A q \in Requests : q # r => kind'[q] = kind[q] /\ pc'[q] = pc[q]
    BY <1>1, <2>1 DEF Arrive, Goto, Control, TypeOK
  <2> QED
    BY <1>0, <2>2, <2>3, <2>4, <2>5 DEF OriginInv
\* A step of a request that has come, and saves no draft.
<1>2. ASSUME NEW r \in Requests, pc[r] # "idle", kind' = kind,
             pending' \subseteq pending, proposals' \subseteq proposals, chat' = chat,
             \A q \in Requests : q # r => pc'[q] = pc[q] /\ hand'[q] = hand[q],
             pc'[r] # "idle", pc'[r] = "saveChat" => kind[r] \in ChatKinds,
             \/ hand'[r] = hand[r]
             \/ hand'[r] = None
             \/ hand[r] # None /\ hand'[r].id = hand[r].id
             \/ kind[r] = "applyDiff" /\ \E d \in pending : hand'[r] = d
             \/ kind[r] = "applyBaseline" /\ \E d \in proposals : hand'[r] = d
             \/ kind[r] \in ChatKinds /\ chat # None /\ hand'[r].id = chat.id
             \/ kind[r] = "chatMessage" /\ hand'[r].id = r
             \/ kind[r] \notin {"applyDiff", "applyBaseline"} \cup ChatKinds
      PROVE  OriginInv'
  BY <1>2 DEF OriginInv
<1> USE DEF Goto, Close, files, locals, ghosts
<1>3. ASSUME NEW r \in Requests, Acquire(r) PROVE OriginInv'
  BY <1>2, <1>3 DEF Acquire, AfterAcquire, Control, TypeOK
<1>4. ASSUME NEW r \in Requests, CheckChat(r) PROVE OriginInv'
  BY <1>2, <1>4 DEF CheckChat, Control, TypeOK
<1>5. ASSUME NEW r \in Requests, TakeChat(r) PROVE OriginInv'
  BY <1>2, <1>5 DEF TakeChat, Control, TypeOK
<1>6. ASSUME NEW r \in Requests, PeekPlan(r) PROVE OriginInv'
  BY <1>2, <1>6 DEF PeekPlan, Control, TypeOK
<1>7. ASSUME NEW r \in Requests, ReadPending(r) PROVE OriginInv'
  BY <1>2, <1>7 DEF ReadPending, Control, TypeOK, KindsInv
<1>8. ASSUME NEW r \in Requests, ReadProposals(r) PROVE OriginInv'
  BY <1>2, <1>8 DEF ReadProposals, Control, TypeOK, KindsInv
<1>9. ASSUME NEW r \in Requests, ReadPlan(r) PROVE OriginInv'
  BY <1>2, <1>9 DEF ReadPlan, Control, TypeOK
<1>10. ASSUME NEW r \in Requests, ReadChat(r) PROVE OriginInv'
  <2>1. chat # None => [chat EXCEPT !.status = "discarded"].id = chat.id
    BY DEF Control, TypeOK, Drafts
  <2> QED
    BY <1>2, <1>10, <2>1
    DEF ReadChat, ReadChatForMessage, ReadChatForApply, ReadChatForDiscard, Control, TypeOK, KindsInv
<1>11. ASSUME NEW r \in Requests, Recheck(r) PROVE OriginInv'
  <2>1. kind[r] \in {"replan", "live", "revise", "chatMessage"}
    BY <1>11 DEF Recheck, Control, KindsInv
  <2>2. hand'[r] = hand[r] \/ hand'[r].id = r
    BY <1>11 DEF Recheck, NewDraft, Control, TypeOK
  <2> QED
    BY <1>2, <1>11, <2>1, <2>2 DEF Recheck, AfterRecheck, Control, TypeOK
<1>12. ASSUME NEW r \in Requests, ListProposals(r) PROVE OriginInv'
  BY <1>2, <1>12 DEF ListProposals, Control, TypeOK
<1>13. ASSUME NEW r \in Requests, LoadProposals(r) PROVE OriginInv'
  BY <1>2, <1>13 DEF LoadProposals, Control, TypeOK
<1>14. ASSUME NEW r \in Requests, SavePlan(r) PROVE OriginInv'
  BY <1>2, <1>14 DEF SavePlan, Control, TypeOK
<1>15. ASSUME NEW r \in Requests, SaveCommit(r) PROVE OriginInv'
  <2>1. kind[r] \in Confirming => hand[r] \in Drafts
    BY <1>15 DEF SaveCommit, Control, TypeOK, LocalsInv
  <2>2. hand'[r] = hand[r] \/ (hand[r] # None /\ hand'[r].id = hand[r].id)
    BY <1>15, <2>1 DEF SaveCommit, Control, TypeOK, Drafts
  <2>3. kind[r] \in {"edit", "applyDiff", "applyBaseline", "chatApply"}
    BY <1>15 DEF SaveCommit, Control, KindsInv
  <2> QED
    BY <1>2, <1>15, <2>2, <2>3 DEF SaveCommit, AfterCommit, Control, TypeOK
<1>16. ASSUME NEW r \in Requests, SavePending(r) PROVE OriginInv'
  <2>1. kind[r] \in {"event", "replan"} /\ NewDraft(r, seen[r]).id = r
    BY <1>16 DEF SavePending, NewDraft, Control, KindsInv
  <2>2. pc'[r] \in {"done", "removePending"} /\ hand'[r] \in {None, hand[r]}
    BY <1>16 DEF SavePending, Control, TypeOK
  <2> QED
    BY <1>16, <2>1, <2>2 DEF SavePending, OriginInv, Control, TypeOK
<1>17. ASSUME NEW r \in Requests, RemovePending(r) PROVE OriginInv'
  BY <1>2, <1>17 DEF RemovePending, Control, TypeOK
<1>18. ASSUME NEW r \in Requests, SaveProposal(r) PROVE OriginInv'
  <2>1. kind[r] \in {"live", "revise", "mock"} /\ NewDraft(r, seen[r]).id = r
    BY <1>18 DEF SaveProposal, NewDraft, Control, KindsInv
  <2>2. pc'[r] \in {"done", "removeProposal", "finish", "clear"} /\ hand'[r] \in {None, hand[r]}
    BY <1>18 DEF SaveProposal, Control, TypeOK
  <2> QED
    BY <1>18, <2>1, <2>2 DEF SaveProposal, OriginInv, Control, TypeOK
<1>19. ASSUME NEW r \in Requests, RemoveProposal(r) PROVE OriginInv'
  BY <1>2, <1>19 DEF RemoveProposal, Control, TypeOK
<1>20. ASSUME NEW r \in Requests, ClearProposal(r) PROVE OriginInv'
  BY <1>2, <1>20 DEF ClearProposal, Control, TypeOK
<1>21. ASSUME NEW r \in Requests, SaveMessage(r) \/ SaveChat(r) PROVE OriginInv'
  <2>1. kind[r] \in ChatKinds /\ chat' = hand[r]
    BY <1>21 DEF SaveMessage, SaveChat, OriginInv, Control, KindsInv
  <2>2. chat' # None => kind[chat'.id] = "chatMessage"
    BY <2>1 DEF OriginInv
  <2>3. pc'[r] \in {"recheck", "finish"} /\ UNCHANGED <<kind, hand, pending, proposals>>
    BY <1>21 DEF SaveMessage, SaveChat, Control, TypeOK
  <2> QED
    BY <1>21, <2>2, <2>3 DEF SaveMessage, SaveChat, OriginInv, Control, TypeOK
<1>22. ASSUME NEW r \in Requests, Finish(r) \/ Reject(r) \/ WriteFails(r) PROVE OriginInv'
  BY <1>2, <1>22 DEF Finish, Reject, WriteFails, Running, Writing, Labels, Control, TypeOK
<1>23. CASE Crash
  BY <1>23 DEF Crash, OriginInv, Control, TypeOK
<1>24. CASE UNCHANGED vars
  BY <1>24 DEF vars, OriginInv
<1> QED
  BY <1>1, <1>3, <1>4, <1>5, <1>6, <1>7, <1>8, <1>9, <1>10, <1>11, <1>12, <1>13, <1>14,
    <1>15, <1>16, <1>17, <1>18, <1>19, <1>20, <1>21, <1>22, <1>23, <1>24
   DEF Next, Step, Reads, Writes

-----------------------------------------------------------------------------
(* One baseline draft.                                                     *)

\* What was orderly after a step was so before it.
LEMMA OrderlyBefore ==
  ASSUME Control, OriginInv, [Next]_vars, Orderly'
  PROVE  Orderly
<1>1. ~ barged
  BY Frame DEF Orderly
<1>2. ~ faulted
  BY DEF Orderly, Next, Step, Reads, Writes, Arrive, Acquire, CheckChat, TakeChat, PeekPlan,
    ReadPending, ReadProposals, ReadPlan, ReadChat, Recheck, ListProposals, LoadProposals,
    SavePlan, SaveCommit, SavePending, RemovePending, SaveProposal, RemoveProposal,
    ClearProposal, SaveMessage, SaveChat, Finish, Reject, WriteFails, Crash, ghosts, vars
<1>3. ASSUME NEW r \in Requests, kind[r] = "mock" PROVE FALSE
  <2>1. pc[r] # "idle"
    BY <1>3, NoneAssumption DEF OriginInv
  <2>2. kind'[r] = kind[r]
    BY <2>1 DEF Next, Step, Reads, Writes, Arrive, Acquire, CheckChat, TakeChat, PeekPlan,
      ReadPending, ReadProposals, ReadPlan, ReadChat, Recheck, ListProposals, LoadProposals,
      SavePlan, SaveCommit, SavePending, RemovePending, SaveProposal, RemoveProposal,
      ClearProposal, SaveMessage, SaveChat, Finish, Reject, WriteFails, Crash, Close,
      locals, vars, Control, TypeOK
  <2> QED
    BY <1>3, <2>2 DEF Orderly
<1> QED
  BY <1>1, <1>2, <1>3 DEF Orderly

\* While a request that matters is inside, none of the others matters.
LEMMA OthersOutside ==
  ASSUME Control, Locking, Orderly, NEW r \in Requests, Inside(r), NEW q \in Requests, q # r
  PROVE  /\ ~ Replacing(q)
         /\ pc[q] \notin {"list", "load", "clear", "recheck", "saveProposal", "removeProposal"}
BY OneInside DEF Orderly, Inside, Replacing

LEMMA NextBaseline ==
  Control /\ Locking /\ Growth /\ OriginInv /\ (Orderly => BaselineInv) /\ [Next]_vars
  => (Orderly => BaselineInv)'
<1> SUFFICES ASSUME Control, Locking, Growth, OriginInv, Orderly => BaselineInv, [Next]_vars,
                    Orderly'
             PROVE  BaselineInv'
  OBVIOUS
<1>0. Orderly /\ BaselineInv
  BY OrderlyBefore
<1> USE <1>0, NoneAssumption, KindsAssumption DEF Goto, Close, files, locals, ghosts
\* A step that leaves the drafts alone and gets its request to no step that matters.
<1>1. ASSUME NEW r \in Requests, proposals' = proposals, ~ Replacing(r),
             \A q \in Requests : q # r =>
               pc'[q] = pc[q] /\ kind'[q] = kind[q] /\ target'[q] = target[q] /\ stale'[q] = stale[q],
             pc'[r] \notin {"clear", "removeProposal"} \/ (pc'[r] = "removeProposal" /\ kind'[r] # "revise"),
             pc'[r] \in {"list", "load"} => kind'[r] = "live",
             pc'[r] = "load" \/ (pc'[r] = "saveProposal" /\ kind'[r] = "live") =>
               stale'[r] = {d.id : d \in proposals},
             pc'[r] \in {"recheck", "saveProposal"} /\ kind'[r] = "revise" =>
               \A d \in proposals : d.id = target'[r]
      PROVE  BaselineInv'
  <2>1. \A q \in Requests : Replacing(q)' => Replacing(q) /\ q # r /\ Replaced(q)' = Replaced(q)
    BY <1>1 DEF Replacing, Replaced
  <2>2. \A q \in Requests : Replacing(q) => Replacing(q)'
    BY <1>1 DEF Replacing
  <2>3. (\A q \in Requests : ~ Replacing(q)') => \A d, e \in proposals : d = e
    BY <2>2 DEF BaselineInv
  <2>4. \A q \in Requests : Replacing(q)' => \A d \in proposals : d.id = q \/ d.id \in Replaced(q)'
    BY <2>1 DEF BaselineInv
  <2> QED
    BY <1>1, <2>3, <2>4 DEF BaselineInv
<1>2. ASSUME NEW r \in Requests, Arrive(r) PROVE BaselineInv'
  <2>1. pc[r] = "idle" /\ pc'[r] \in {"acquire", "peek", "check"}
    BY <1>2 DEF Arrive, Entry, Control, TypeOK
  <2> QED
    BY <1>1, <1>2, <2>1 DEF Arrive, Replacing, Control, TypeOK
<1>3. ASSUME NEW r \in Requests, Acquire(r) PROVE BaselineInv'
  BY <1>1, <1>3 DEF Acquire, AfterAcquire, Replacing, Control, TypeOK
<1>4. ASSUME NEW r \in Requests, CheckChat(r) PROVE BaselineInv'
  BY <1>1, <1>4 DEF CheckChat, Replacing, Control, TypeOK
<1>5. ASSUME NEW r \in Requests, TakeChat(r) PROVE BaselineInv'
  BY <1>1, <1>5 DEF TakeChat, Replacing, Control, TypeOK
<1>6. ASSUME NEW r \in Requests, PeekPlan(r) PROVE BaselineInv'
  BY <1>1, <1>6 DEF PeekPlan, Replacing, Orderly, Control, TypeOK
<1>7. ASSUME NEW r \in Requests, ReadPending(r) PROVE BaselineInv'
  BY <1>1, <1>7 DEF ReadPending, Replacing, Control, TypeOK
<1>8. ASSUME NEW r \in Requests, ReadProposals(r) PROVE BaselineInv'
  <2>1. Inside(r) /\ ~ Replacing(r)
    BY <1>8 DEF ReadProposals, Inside, Replacing
  <2>2. \A d, e \in proposals : d = e
    BY <2>1, OthersOutside DEF BaselineInv
  <2>3. \A d \in proposals : d.id = target[r]
    BY <1>8, <2>2 DEF ReadProposals
  <2> QED
    BY <1>1, <1>8, <2>1, <2>3 DEF ReadProposals, Control, TypeOK
<1>9. ASSUME NEW r \in Requests, ReadPlan(r) PROVE BaselineInv'
  BY <1>1, <1>9 DEF ReadPlan, Replacing, Control, TypeOK
<1>10. ASSUME NEW r \in Requests, ReadChat(r) PROVE BaselineInv'
  BY <1>1, <1>10 DEF ReadChat, ReadChatForMessage, ReadChatForApply, ReadChatForDiscard,
    Replacing, Control, TypeOK
<1>11. ASSUME NEW r \in Requests, Recheck(r) PROVE BaselineInv'
  BY <1>1, <1>11 DEF Recheck, AfterRecheck, Replacing, BaselineInv, Control, TypeOK, KindsInv
<1>12. ASSUME NEW r \in Requests, ListProposals(r) PROVE BaselineInv'
  BY <1>1, <1>12 DEF ListProposals, Replacing, BaselineInv, Control, TypeOK
<1>13. ASSUME NEW r \in Requests, LoadProposals(r) PROVE BaselineInv'
  <2>1. kind[r] = "live" /\ stale[r] = {d.id : d \in proposals}
    BY <1>13 DEF LoadProposals, BaselineInv
  <2>2. pc'[r] = "saveProposal" /\ stale'[r] = stale[r]
    BY <1>13, <2>1 DEF LoadProposals, Control, TypeOK
  <2> QED
    BY <1>1, <1>13, <2>1, <2>2 DEF LoadProposals, Replacing, Control, TypeOK
<1>14. ASSUME NEW r \in Requests, SavePlan(r) PROVE BaselineInv'
  BY <1>1, <1>14 DEF SavePlan, Replacing, Control, TypeOK
<1>15. ASSUME NEW r \in Requests, SaveCommit(r) PROVE BaselineInv'
  BY <1>1, <1>15 DEF SaveCommit, AfterCommit, Replacing, Control, TypeOK, KindsInv
<1>16. ASSUME NEW r \in Requests, SavePending(r) PROVE BaselineInv'
  BY <1>1, <1>16 DEF SavePending, Replacing, Control, TypeOK
<1>17. ASSUME NEW r \in Requests, RemovePending(r) PROVE BaselineInv'
  BY <1>1, <1>17 DEF RemovePending, Replacing, Control, TypeOK
<1>18. ASSUME NEW r \in Requests, SaveProposal(r) PROVE BaselineInv'
  <2>1. kind[r] \in {"live", "revise"} /\ pc[r] = "saveProposal" /\ Inside(r)
    BY <1>18 DEF SaveProposal, Orderly, Inside, Control, KindsInv
  <2> DEFINE n == NewDraft(r, seen[r])
  <2>2. proposals' = proposals \cup {n} /\ n.id = r
    BY <1>18 DEF SaveProposal, NewDraft
  <2>3. \A d \in proposals : d.id # r
    BY <2>1 DEF Growth, FilesInv, Drafted, Spent, Orderly
  <2>4. ~ Replacing(r)
    BY <2>1 DEF Replacing
  <2>5. \A q \in Requests : q # r =>
          /\ pc'[q] = pc[q] /\ kind'[q] = kind[q] /\ ~ Replacing(q)'
          /\ pc'[q] \notin {"list", "load", "clear", "recheck", "saveProposal", "removeProposal"}
    BY <1>18, <2>1, OthersOutside DEF SaveProposal, Replacing, Control, TypeOK
  <2>6. \A d, e \in proposals' : d.id = e.id => d = e
    BY <2>2, <2>3 DEF BaselineInv
  <2>7. UNCHANGED <<kind, target, stale>>
    BY <1>18, <2>1 DEF SaveProposal
  <2>8. CASE kind[r] = "revise"
    <3>1. pc'[r] = "removeProposal"
      BY <1>18, <2>8 DEF SaveProposal, Control, TypeOK
    <3>2. \A d \in proposals' : d.id = r \/ d.id = target[r]
      BY <2>1, <2>2, <2>8 DEF BaselineInv
    <3> QED
      BY <2>5, <2>6, <2>7, <2>8, <3>1, <3>2 DEF BaselineInv, Replacing, Replaced
  <2>9. CASE kind[r] = "live" /\ stale[r] = {}
    <3>1. pc'[r] = "finish"
      BY <1>18, <2>9 DEF SaveProposal, Control, TypeOK
    <3>2. proposals = {}
      BY <2>1, <2>9 DEF BaselineInv
    <3> QED
      BY <2>2, <2>5, <2>6, <3>1, <3>2 DEF BaselineInv, Replacing
  <2>10. CASE kind[r] = "live" /\ stale[r] # {}
    <3>1. pc'[r] = "clear"
      BY <1>18, <2>10 DEF SaveProposal, Control, TypeOK
    <3>2. \A d \in proposals' : d.id = r \/ d.id \in stale[r]
      BY <2>1, <2>2, <2>10 DEF BaselineInv
    <3> QED
      BY <2>5, <2>6, <2>7, <2>10, <3>1, <3>2 DEF BaselineInv, Replacing, Replaced
  <2> QED
    BY <2>1, <2>8, <2>9, <2>10
<1>19. ASSUME NEW r \in Requests, RemoveProposal(r) PROVE BaselineInv'
  <2>1. pc[r] = "removeProposal" /\ Inside(r) /\ pc'[r] = "finish"
    BY <1>19 DEF RemoveProposal, Inside, Control, TypeOK
  <2>2. \A q \in Requests : q # r =>
          /\ ~ Replacing(q) /\ ~ Replacing(q)'
          /\ pc'[q] \notin {"list", "load", "clear", "recheck", "saveProposal", "removeProposal"}
    BY <1>19, <2>1, OthersOutside DEF RemoveProposal, Replacing, Control, TypeOK
  <2>3. proposals' \subseteq proposals /\ \A d \in proposals' : d.id # target[r]
    BY <1>19 DEF RemoveProposal
  <2>4. \A d, e \in proposals' : d = e
    <3>1. CASE kind[r] = "revise"
      <4>1. Replacing(r) /\ Replaced(r) = {target[r]}
        BY <2>1, <3>1 DEF Replacing, Replaced
      <4>2. \A d \in proposals' : d.id = r
        BY <2>3, <4>1 DEF BaselineInv
      <4> QED
        BY <2>3, <4>2 DEF BaselineInv
    <3>2. CASE kind[r] # "revise"
      BY <2>1, <2>2, <2>3, <3>2 DEF BaselineInv, Replacing
    <3> QED
      BY <3>1, <3>2
  <2> QED
    BY <2>1, <2>2, <2>4 DEF BaselineInv, Replacing
<1>20. ASSUME NEW r \in Requests, ClearProposal(r) PROVE BaselineInv'
  <2>1. kind[r] = "live" /\ pc[r] = "clear" /\ Inside(r) /\ Replacing(r)
    BY <1>20 DEF ClearProposal, BaselineInv, Inside, Replacing
  <2>2. PICK x \in stale[r] :
          /\ proposals' = {d \in proposals : d.id # x}
          /\ stale' = [stale EXCEPT ![r] = @ \ {x}]
          /\ pc' = [pc EXCEPT ![r] = IF stale[r] # {x} THEN "clear" ELSE "finish"]
    BY <1>20, <2>1 DEF ClearProposal
  <2>3. \A q \in Requests : q # r =>
          /\ ~ Replacing(q) /\ ~ Replacing(q)'
          /\ pc'[q] \notin {"list", "load", "clear", "recheck", "saveProposal", "removeProposal"}
    BY <1>20, <2>1, <2>2, OthersOutside DEF ClearProposal, Replacing, Control, TypeOK
  <2>4. \A d \in proposals' : d.id = r \/ d.id \in stale[r] \ {x}
    BY <2>1, <2>2 DEF BaselineInv, Replaced
  <2>5. stale'[r] = stale[r] \ {x} /\ kind' = kind
    BY <1>20, <2>2 DEF ClearProposal, Control, TypeOK
  <2>6. \A d, e \in proposals' : d.id = e.id => d = e
    BY <2>2 DEF BaselineInv
  <2>7. CASE stale[r] # {x}
    <3>1. pc'[r] = "clear"
      BY <2>2, <2>7 DEF Control, TypeOK
    <3> QED
      BY <2>1, <2>3, <2>4, <2>5, <2>6, <3>1 DEF BaselineInv, Replacing, Replaced
  <2>8. CASE stale[r] = {x}
    <3>1. pc'[r] = "finish"
      BY <2>2, <2>8 DEF Control, TypeOK
    <3>2. \A d, e \in proposals' : d = e
      BY <2>4, <2>6, <2>8
    <3> QED
      BY <2>3, <3>1, <3>2 DEF BaselineInv, Replacing
  <2> QED
    BY <2>7, <2>8
<1>21. ASSUME NEW r \in Requests, SaveMessage(r) PROVE BaselineInv'
  BY <1>1, <1>21 DEF SaveMessage, Replacing, Control, TypeOK, KindsInv
<1>22. ASSUME NEW r \in Requests, SaveChat(r) PROVE BaselineInv'
  BY <1>1, <1>22 DEF SaveChat, Replacing, Control, TypeOK
<1>23. ASSUME NEW r \in Requests, Finish(r) \/ Reject(r) PROVE BaselineInv'
  BY <1>1, <1>23 DEF Finish, Reject, Replacing, Running, Writing, Labels, Control, TypeOK
<1>24. ASSUME NEW r \in Requests, WriteFails(r) PROVE FALSE
  BY <1>24 DEF WriteFails, Orderly
<1>25. ~ Crash
  BY DEF Crash, Orderly
<1>26. CASE UNCHANGED vars
  BY <1>26 DEF vars, BaselineInv, Replacing, Replaced
<1> QED
  BY <1>2, <1>3, <1>4, <1>5, <1>6, <1>7, <1>8, <1>9, <1>10, <1>11, <1>12, <1>13, <1>14,
    <1>15, <1>16, <1>17, <1>18, <1>19, <1>20, <1>21, <1>22, <1>23, <1>24, <1>25, <1>26
   DEF Next, Step, Reads, Writes

-----------------------------------------------------------------------------
(* The conversation.                                                       *)

Talking == {"saveMessage", "recheck", "savePlan", "saveCommit", "saveChat"}

\* While a request that may write plan or conversation is inside, no other is.
LEMMA OthersSilent ==
  ASSUME Locking, ~ barged, NEW r \in Requests, Inside(r), NEW q \in Requests, q # r
  PROVE  pc[q] \notin Talking
BY OneInside DEF Inside, Talking

\* The change a request writes is the chat's proposal when it applies that, and
\* no proposal of a chat otherwise.
LEMMA NextPlanAdds ==
  ASSUME Control, Growth, OriginInv, ~ barged, NEW r \in Requests, pc[r] = "savePlan"
  PROVE  \E c \in Requests :
           /\ NextPlan(r).changes = plan.changes \cup {c}
           /\ kind[r] = "chatApply" => hand[r] # None /\ c = hand[r].id
           /\ kind[r] # "chatApply" => kind[c] # "chatMessage"
<1>1. CASE kind[r] = "edit"
  <2>1. NextPlan(r) = Extend(plan, r)
    BY <1>1 DEF NextPlan, Growth, SeenInv
  <2> QED
    BY <1>1, <2>1 DEF Extend
<1>2. CASE kind[r] \in Confirming
  <2>1. PICK d \in Drafts : d = hand[r] /\ d.preview = Extend(plan, d.id)
    BY <1>2, ConfirmedPlan
  <2>2. NextPlan(r) = Extend(plan, d.id) /\ d.id \in Requests /\ hand[r] # None
    BY <1>2, <2>1, ConfirmedPlan, NoneAssumption DEF Drafts
  <2>3. kind[r] # "chatApply" => kind[d.id] # "chatMessage"
    BY <1>2, <2>1, <2>2 DEF OriginInv, PatchKinds, BaselineKinds
  <2> QED
    BY <2>1, <2>2, <2>3 DEF Extend
<1> QED
  BY <1>1, <1>2 DEF Control, KindsInv

LEMMA NextTalk ==
  Control /\ Locking /\ Growth /\ OriginInv /\ (~ barged => TalkInv /\ SaidInv) /\ [Next]_vars
  => (~ barged => TalkInv /\ SaidInv)'
<1> SUFFICES ASSUME Control, Locking, Growth, OriginInv, ~ barged => TalkInv /\ SaidInv,
                    [Next]_vars, ~ barged'
             PROVE  TalkInv' /\ SaidInv'
  OBVIOUS
<1>0. ~ barged /\ TalkInv /\ SaidInv
  BY Frame
<1> USE <1>0, NoneAssumption, KindsAssumption DEF Goto, Close, files, locals, ghosts, Talking
\* A step that leaves plan and conversation alone and gets its request to none
\* of these steps.
<1>1. ASSUME NEW r \in Requests, plan' = plan, chat' = chat, faulted => faulted',
             \A q \in Requests : q # r =>
               pc'[q] = pc[q] /\ kind'[q] = kind[q] /\ hand'[q] = hand[q],
             pc[r] \notin {"saveCommit", "saveChat"} \/ faulted',
             pc'[r] \notin Talking \/ kind'[r] \notin ChatKinds,
             pc'[r] \notin {"saveMessage", "saveChat"}
      PROVE  TalkInv' /\ SaidInv'
  <2>1. TalkInv'
    BY <1>1 DEF TalkInv
  <2>2. SaidInv'
    BY <1>1 DEF SaidInv, Applying
  <2> QED
    BY <2>1, <2>2
<1>2. ASSUME NEW r \in Requests, Arrive(r) PROVE TalkInv' /\ SaidInv'
  <2>1. pc[r] = "idle" /\ pc'[r] \in {"acquire", "peek", "check"}
    BY <1>2 DEF Arrive, Entry, Control, TypeOK
  <2> QED
    BY <1>1, <1>2, <2>1 DEF Arrive, Control, TypeOK
<1>3. ASSUME NEW r \in Requests, Acquire(r) PROVE TalkInv' /\ SaidInv'
  BY <1>1, <1>3 DEF Acquire, AfterAcquire, Control, TypeOK
<1>4. ASSUME NEW r \in Requests, CheckChat(r) PROVE TalkInv' /\ SaidInv'
  BY <1>1, <1>4 DEF CheckChat, Control, TypeOK
<1>5. ASSUME NEW r \in Requests, TakeChat(r) PROVE TalkInv' /\ SaidInv'
  BY <1>1, <1>5 DEF TakeChat, Control, TypeOK
<1>6. ASSUME NEW r \in Requests, PeekPlan(r) PROVE TalkInv' /\ SaidInv'
  BY <1>1, <1>6 DEF PeekPlan, Control, TypeOK
<1>7. ASSUME NEW r \in Requests, ReadPending(r) PROVE TalkInv' /\ SaidInv'
  BY <1>1, <1>7 DEF ReadPending, Control, TypeOK
<1>8. ASSUME NEW r \in Requests, ReadProposals(r) PROVE TalkInv' /\ SaidInv'
  <2>1. pc'[r] \in {"recheck", "readPlan"} /\ (pc'[r] = "recheck" => kind[r] = "revise")
    BY <1>8 DEF ReadProposals, Control, TypeOK
  <2> QED
    BY <1>1, <1>8, <2>1 DEF ReadProposals, Control, TypeOK
<1>9. ASSUME NEW r \in Requests, ReadPlan(r) PROVE TalkInv' /\ SaidInv'
  BY <1>1, <1>9 DEF ReadPlan, Control, TypeOK
<1>10. ASSUME NEW r \in Requests, ReadChat(r) PROVE TalkInv' /\ SaidInv'
  <2>1. UNCHANGED <<plan, chat, kind, faulted>> /\ pc[r] = "readChat"
    BY <1>10 DEF ReadChat
  <2>2. \A q \in Requests : q # r => pc'[q] = pc[q] /\ hand'[q] = hand[q]
    BY <1>10 DEF ReadChat, ReadChatForMessage, ReadChatForApply, ReadChatForDiscard, Control, TypeOK
  <2>3. \/ kind[r] = "chatMessage" /\ pc'[r] = "saveMessage" /\ hand'[r] = chat
        \/ /\ kind[r] = "chatApply" /\ pc'[r] = "savePlan"
           /\ hand'[r] = chat /\ chat.status = "pending"
        \/ /\ kind[r] = "chatDiscard" /\ pc'[r] = "saveChat" /\ chat # None
           /\ chat.status # "applied" /\ hand'[r] = [chat EXCEPT !.status = "discarded"]
    BY <1>10 DEF ReadChat, ReadChatForMessage, ReadChatForApply, ReadChatForDiscard, Control, TypeOK
  <2>4. TalkInv'
    BY <2>1, <2>2, <2>3 DEF TalkInv
  <2>5. SaidInv'
    BY <2>1, <2>2 DEF SaidInv, Applying
  <2> QED
    BY <2>4, <2>5
<1>11. ASSUME NEW r \in Requests, Recheck(r) PROVE TalkInv' /\ SaidInv'
  <2>1. CASE kind[r] = "chatMessage"
    <3>1. UNCHANGED <<plan, chat, kind, faulted>> /\ pc[r] = "recheck" /\ pc'[r] = "saveChat"
      BY <1>11, <2>1 DEF Recheck, AfterRecheck, Control, TypeOK
    <3>2. \A q \in Requests : q # r => pc'[q] = pc[q] /\ hand'[q] = hand[q]
      BY <1>11 DEF Recheck, Control, TypeOK
    <3>3. seen[r] \in Snapshots
      BY <1>11 DEF Recheck, Control, TypeOK, LocalsInv, AfterPlan
    <3>4. /\ NewDraft(r, seen[r]) # None
          /\ NewDraft(r, seen[r]).id = r /\ NewDraft(r, seen[r]).status = "pending"
      BY <3>3, NewDraftType DEF NewDraft
    <3>5. hand'[r] = chat \/ (hand'[r] # None /\ hand'[r].id = r /\ hand'[r].status = "pending")
      BY <1>11, <2>1, <3>4 DEF Recheck, TalkInv, Control, TypeOK
    <3>6. TalkInv'
      BY <2>1, <3>1, <3>2, <3>5 DEF TalkInv
    <3>7. SaidInv'
      BY <2>1, <3>1, <3>2 DEF SaidInv, Applying
    <3> QED
      BY <3>6, <3>7
  <2>2. CASE kind[r] # "chatMessage"
    <3>1. kind[r] \in {"replan", "live", "revise"} /\ pc'[r] \in {"savePending", "list", "saveProposal"}
      BY <1>11, <2>2 DEF Recheck, AfterRecheck, Control, TypeOK, KindsInv
    <3> QED
      BY <1>1, <1>11, <3>1 DEF Recheck, Control, TypeOK
  <2> QED
    BY <2>1, <2>2
<1>12. ASSUME NEW r \in Requests, ListProposals(r) \/ LoadProposals(r) PROVE TalkInv' /\ SaidInv'
  BY <1>1, <1>12 DEF ListProposals, LoadProposals, Control, TypeOK
<1>13. ASSUME NEW r \in Requests, SavePlan(r) PROVE TalkInv' /\ SaidInv'
  <2>1. pc[r] = "savePlan" /\ pc'[r] = "saveCommit" /\ UNCHANGED <<chat, kind, hand, faulted>>
    BY <1>13 DEF SavePlan, Control, TypeOK
  <2>2. \A q \in Requests : q # r => pc[q] \notin Talking /\ pc'[q] = pc[q]
    BY <1>13, <2>1, OthersSilent DEF SavePlan, Inside, Control, TypeOK
  <2>3. PICK c \in Requests :
          /\ plan'.changes = plan.changes \cup {c}
          /\ kind[r] = "chatApply" => hand[r] # None /\ c = hand[r].id
          /\ kind[r] # "chatApply" => kind[c] # "chatMessage"
    BY <1>13, <2>1, NextPlanAdds DEF SavePlan
  <2>4. TalkInv'
    BY <2>1, <2>2, <2>3 DEF TalkInv
  <2>5. ASSUME chat # None, chat.id \in plan'.changes, chat.id \notin plan.changes
        PROVE  Applying(r)'
    <3>1. c = chat.id /\ kind[chat.id] = "chatMessage"
      BY <2>3, <2>5 DEF OriginInv
    <3>2. kind[r] = "chatApply" /\ hand[r].id = chat.id
      BY <2>3, <3>1
    <3> QED
      BY <2>1, <3>2 DEF Applying
  <2>6. \A q \in Requests : Applying(q) => Applying(q)'
    BY <2>1, <2>2 DEF Applying
  <2>7. SaidInv'
    BY <2>1, <2>3, <2>5, <2>6 DEF SaidInv
  <2> QED
    BY <2>4, <2>7
<1>14. ASSUME NEW r \in Requests, SaveCommit(r) PROVE TalkInv' /\ SaidInv'
  <2>1. UNCHANGED <<plan, chat, kind, faulted>> /\ pc[r] = "saveCommit"
    BY <1>14 DEF SaveCommit
  <2>2. \A q \in Requests : q # r => pc'[q] = pc[q] /\ hand'[q] = hand[q]
    BY <1>14 DEF SaveCommit, Control, TypeOK
  <2>3. CASE kind[r] = "chatApply"
    <3>1. pc'[r] = "saveChat" /\ hand[r] \in Drafts
      BY <1>14, <2>3 DEF SaveCommit, AfterCommit, Control, TypeOK, LocalsInv
    <3>2. hand'[r] = [hand[r] EXCEPT !.status = "applied"]
      BY <1>14, <2>3 DEF SaveCommit, Control, TypeOK
    <3>3. hand'[r] \in Drafts /\ hand'[r].id = hand[r].id /\ hand'[r].status = "applied"
      BY <3>1, <3>2 DEF Drafts, Statuses
    <3>4. hand'[r] # None /\ hand[r].id \in plan.changes /\ hand[r] = chat /\ chat.status = "pending"
      BY <2>1, <2>3, <3>3 DEF TalkInv
    <3>5. TalkInv'
      BY <2>1, <2>2, <2>3, <3>1, <3>3, <3>4 DEF TalkInv
    <3>6. \A q \in Requests : Applying(q) => Applying(q)'
      BY <2>1, <2>2, <2>3, <3>1, <3>3 DEF Applying
    <3>7. SaidInv'
      BY <2>1, <3>6 DEF SaidInv
    <3> QED
      BY <3>5, <3>7
  <2>4. CASE kind[r] # "chatApply"
    <3>1. kind[r] \in {"edit", "applyDiff", "applyBaseline"}
      BY <2>1, <2>4 DEF Control, KindsInv
    <3>2. pc'[r] \in {"finish", "removePending", "removeProposal"}
      BY <1>14, <3>1 DEF SaveCommit, AfterCommit, Control, TypeOK
    <3>3. TalkInv'
      BY <2>1, <2>2, <3>2 DEF TalkInv
    <3>4. \A q \in Requests : Applying(q) => Applying(q)'
      BY <2>1, <2>2, <2>4 DEF Applying
    <3>5. SaidInv'
      BY <2>1, <3>4 DEF SaidInv
    <3> QED
      BY <3>3, <3>5
  <2> QED
    BY <2>3, <2>4
<1>15. ASSUME NEW r \in Requests, SavePending(r) \/ RemovePending(r) PROVE TalkInv' /\ SaidInv'
  BY <1>1, <1>15 DEF SavePending, RemovePending, Control, TypeOK
<1>16. ASSUME NEW r \in Requests, SaveProposal(r) \/ RemoveProposal(r) \/ ClearProposal(r)
       PROVE  TalkInv' /\ SaidInv'
  BY <1>1, <1>16 DEF SaveProposal, RemoveProposal, ClearProposal, Control, TypeOK
<1>17. ASSUME NEW r \in Requests, SaveMessage(r) PROVE TalkInv' /\ SaidInv'
  <2>1. chat' = chat /\ hand[r] = chat /\ pc[r] = "saveMessage" /\ pc'[r] = "recheck"
    BY <1>17 DEF SaveMessage, TalkInv, Control, TypeOK
  <2>2. UNCHANGED <<plan, kind, hand, faulted>> /\ \A q \in Requests : q # r => pc'[q] = pc[q]
    BY <1>17 DEF SaveMessage, Control, TypeOK
  <2>3. TalkInv'
    BY <2>1, <2>2 DEF TalkInv
  <2>4. SaidInv'
    BY <2>1, <2>2 DEF SaidInv, Applying
  <2> QED
    BY <2>3, <2>4
<1>18. ASSUME NEW r \in Requests, SaveChat(r) PROVE TalkInv' /\ SaidInv'
  <2>1. chat' = hand[r] /\ pc[r] = "saveChat" /\ pc'[r] = "finish" /\ UNCHANGED <<plan, kind, hand, faulted>>
    BY <1>18 DEF SaveChat, Control, TypeOK
  <2>2. \A q \in Requests : q # r => pc[q] \notin Talking /\ pc'[q] = pc[q]
    BY <1>18, <2>1, OthersSilent DEF SaveChat, Inside, Control, TypeOK
  <2>3. TalkInv'
    BY <2>1, <2>2 DEF TalkInv
  <2>4. r \notin plan.changes
    BY <2>1 DEF Growth, FilesInv, Spent
  <2>5. ASSUME NEW q \in Requests, Applying(q)
        PROVE  kind[r] = "chatApply"
    BY <2>2, <2>5 DEF Applying
  <2>6. CASE kind[r] = "chatMessage" /\ hand[r] = chat
    <3>1. \A q \in Requests : ~ Applying(q)
      BY <2>5, <2>6
    <3> QED
      BY <2>1, <2>3, <2>6, <3>1 DEF SaidInv
  <2>7. CASE kind[r] = "chatMessage" /\ hand[r] # None /\ hand[r].id = r /\ hand[r].status = "pending"
    BY <2>1, <2>3, <2>4, <2>7 DEF SaidInv
  <2>8. CASE hand[r] # None /\ hand[r].status = "applied" /\ hand[r].id \in plan.changes
    BY <2>1, <2>3, <2>8 DEF SaidInv
  <2>9. CASE /\ kind[r] = "chatDiscard" /\ chat # None /\ chat.status # "applied"
             /\ hand[r] = [chat EXCEPT !.status = "discarded"]
    <3>1. \A q \in Requests : ~ Applying(q)
      BY <2>5, <2>9
    <3>2. chat'.id = chat.id /\ chat'.status = "discarded"
      BY <2>1, <2>9 DEF Control, TypeOK, Drafts
    <3>3. faulted \/ chat.id \notin plan.changes
      BY <2>9, <3>1 DEF SaidInv
    <3> QED
      BY <2>1, <2>3, <3>2, <3>3 DEF SaidInv
  <2> QED
    BY <2>1, <2>6, <2>7, <2>8, <2>9 DEF TalkInv
<1>19. ASSUME NEW r \in Requests, Finish(r) \/ Reject(r) \/ WriteFails(r) PROVE TalkInv' /\ SaidInv'
  BY <1>1, <1>19 DEF Finish, Reject, WriteFails, Running, Writing, Labels, Control, TypeOK
<1>20. CASE Crash
  <2>1. \A q \in Requests : pc'[q] \notin Talking
    BY <1>20 DEF Crash, Running, Labels, Control, TypeOK
  <2>2. TalkInv'
    BY <2>1 DEF TalkInv
  <2>3. SaidInv'
    BY <1>20 DEF Crash, SaidInv
  <2> QED
    BY <2>2, <2>3
<1>21. CASE UNCHANGED vars
  BY <1>21 DEF vars, TalkInv, SaidInv, Applying
<1> QED
  BY <1>2, <1>3, <1>4, <1>5, <1>6, <1>7, <1>8, <1>9, <1>10, <1>11, <1>12, <1>13, <1>14,
    <1>15, <1>16, <1>17, <1>18, <1>19, <1>20, <1>21
   DEF Next, Step, Reads, Writes

-----------------------------------------------------------------------------
(* Theorems.                                                               *)

\* DraftInv holds in every reachable state, whatever the requests and kinds.
THEOREM DraftInvariant == Spec => []DraftInv
<1>1. Init => DraftInv
  BY InitDraft
<1>2. IInv /\ DraftInv /\ [Next]_vars => DraftInv'
  BY NextOrigin, NextBaseline, NextTalk DEF IInv, DraftInv
<1> QED
  BY <1>1, <1>2, Invariant, PTL DEF Spec

\* Between requests there is one baseline draft at most: live research replaces
\* all it lists and a revision the one it revises (saveBaselineProposal, then
\* deleteBaselineProposal), whatever else runs, unless a chat request barges in,
\* a file operation fails or demo research, which takes no lock, is used.
THEOREM BaselineDraftIsOne == Spec => []OneBaselineDraft
<1>1. IInv /\ DraftInv => OneBaselineDraft
  <2> SUFFICES ASSUME IInv, DraftInv, Orderly, holders = {}
               PROVE  Cardinality(proposals) <= 1
    BY DEF OneBaselineDraft, Orderly
  <2>1. \A r \in Requests : ~ Replacing(r)
    BY DEF IInv, Locking, HoldersInv, Inside, Replacing, Orderly
  <2>2. \A d, e \in proposals : d = e
    BY <2>1 DEF DraftInv, BaselineInv
  <2>3. CASE proposals = {}
    BY <2>3, FS_EmptySet
  <2>4. CASE proposals # {}
    <3>1. PICK d : proposals = {d}
      BY <2>2, <2>4
    <3> QED
      BY <3>1, FS_Singleton
  <2> QED
    BY <2>3, <2>4
<1> QED
  BY <1>1, Invariant, DraftInvariant, PTL

\* A proposal the conversation calls applied is in the plan, and one it calls
\* discarded is not and never was, however messages, applications and discards
\* of it interleave, until one barges in (saveChat after saveCommit, and the
\* guards on the status).
THEOREM ConversationIsTrue == Spec => []ChatTellsTheTruth
<1>1. DraftInv => ChatTellsTheTruth
  <2> SUFFICES ASSUME DraftInv, chat # None, ~ barged
               PROVE  /\ chat.status = "applied" => chat.id \in plan.changes
                      /\ chat.status = "discarded" /\ ~ faulted => chat.id \notin plan.changes
    BY DEF ChatTellsTheTruth
  <2>1. \A r \in Requests : Applying(r) => chat.status = "pending"
    BY DEF DraftInv, TalkInv, Applying
  <2> QED
    BY <2>1 DEF DraftInv, SaidInv
<1> QED
  BY <1>1, DraftInvariant, PTL
=============================================================================
