---------------------------- MODULE ProjectServer ----------------------------
(***************************************************************************)
(* The HTTP handlers of one project and the files they share.              *)
(*                                                                         *)
(* A Node process runs every request as a chain of steps separated by      *)
(* awaits; other requests run in between.  What they share is the project  *)
(* directory (plan.json, commits/, pending/, baseline-proposals/,          *)
(* chat.json) and the in-memory set live.busy, of which this project's     *)
(* membership is one bit.  A step of this module is the code between two   *)
(* awaits of one request; a file write is the atomic rename of             *)
(* writeJsonAtomic.                                                        *)
(*                                                                         *)
(* Every request of the set Requests is sent at most once.  A request also *)
(* names the change, patch, proposal or chat proposal it creates, which    *)
(* the code names by a fresh UUID.                                         *)
(***************************************************************************)
EXTENDS Naturals, FiniteSets

CONSTANTS
  Requests,   \* the requests clients send for this project
  Kinds,      \* the kinds of request they may be
  None        \* absence of a record

LockFirstKinds == {"edit", "applyDiff", "applyBaseline"}
PlanFirstKinds == {"event", "replan", "live", "evidence", "revise", "mock"}
ChatKinds      == {"chatMessage", "chatApply", "chatDiscard"}
AllKinds       == LockFirstKinds \cup PlanFirstKinds \cup ChatKinds

ASSUME KindsAssumption == Kinds \subseteq AllKinds

VARIABLES
  plan,       \* plan.json: its version and the changes it contains
  commits,    \* commits/: the snapshot of each commit file, named by version
  pending,    \* pending/: event patches waiting for confirmation
  proposals,  \* baseline-proposals/: candidate plans waiting for confirmation
  chat,       \* chat.json: its latest proposal, or None
  busy,       \* live.busy has this project
  pc,         \* where each request is
  kind,       \* what each request is
  target,     \* the patch or proposal a request's body names
  seen,       \* the plan a request read last (after savePlan, the one it wrote)
  hand,       \* the draft a request read or compiled
  stale,      \* the proposals a request still has to delete
  holders,    \* history: requests between busy.add and the end of finally
  barged,     \* history: a chat request added itself while another held the lock
  faulted     \* history: the process died or a file write failed

files == <<plan, commits, pending, proposals, chat>>
locals == <<kind, target, seen, hand, stale>>
ghosts == <<barged, faulted>>
vars == <<plan, commits, pending, proposals, chat, busy, pc, kind, target,
          seen, hand, stale, holders, barged, faulted>>

-----------------------------------------------------------------------------
(* A plan is its version and the set of changes that were applied to it.   *)

Snapshots == [version : Nat, changes : SUBSET Requests]
Statuses  == {"pending", "applied", "discarded"}
Drafts    == [id : Requests, base : Nat, preview : Snapshots, status : Statuses]

ASSUME NoneAssumption ==
  /\ None \notin Requests /\ None \notin AllKinds
  /\ None \notin Snapshots /\ None \notin Drafts

FirstPlan == [version |-> 1, changes |-> {}]

Extend(s, c) == [version |-> s.version + 1, changes |-> s.changes \cup {c}]

\* s is an earlier state of the plan of which t is a later one.
Before(s, t) == s.version < t.version /\ s.changes \subseteq t.changes

\* Faulty variant: a draft is made without its status.
NewDraftWithoutStatus(r, s) ==
  [id |-> r, base |-> s.version, preview |-> Extend(s, r)]

\* A draft compiled from the plan s: a patch, a baseline or a chat proposal.
NewDraft(r, s) ==
  [id |-> r, base |-> s.version, preview |-> Extend(s, r), status |-> "pending"]

\* The research-ready plan carries evidence tagged "waiting for research"
\* until a baseline replaces its evidence.
Awaiting(s) == \A c \in s.changes : kind[c] \notin {"live", "revise", "mock"}

-----------------------------------------------------------------------------
(* The lock and the end of a request.                                      *)

Labels == {"idle", "check", "take", "acquire", "peek", "readPending",
           "readProposals", "readPlan", "readChat", "saveMessage", "recheck",
           "list", "load", "savePlan", "saveCommit", "savePending",
           "removePending", "saveProposal", "removeProposal", "clear",
           "saveChat", "finish", "done"}
Writing == {"saveMessage", "savePlan", "saveCommit", "savePending",
            "removePending", "saveProposal", "removeProposal", "clear", "saveChat"}
Running == Labels \ {"idle", "done"}

Goto(r, l) == pc' = [pc EXCEPT ![r] = l]

\* live.busy.add: the set has the project whoever else added it.
Lock(r) == busy' = TRUE /\ holders' = holders \cup {r}

\* live.busy.delete, whoever else added it.
Unlock(r) == busy' = FALSE /\ holders' = holders \ {r}

\* The handler returns and its variables are gone.
Close(r) ==
  /\ Goto(r, "done")
  /\ seen' = [seen EXCEPT ![r] = None]
  /\ hand' = [hand EXCEPT ![r] = None]
  /\ stale' = [stale EXCEPT ![r] = {}]
  /\ UNCHANGED <<kind, target>>

\* Faulty variant: finally deletes the lock of a request that never took it.
ReleaseAnyway(r) == Unlock(r)

\* finally { live.busy.delete(projectId) } runs for those that took the lock.
Release(r) == IF r \in holders THEN Unlock(r) ELSE UNCHANGED <<busy, holders>>

-----------------------------------------------------------------------------
(* Requests arrive.  A body names a patch or proposal the client has seen, *)
(* so one that is, or was a moment ago, on disk.                           *)

Visible(k) ==
  CASE k \in {"applyDiff", "replan"} -> {d.id : d \in pending}
    [] k \in {"applyBaseline", "revise"} -> {d.id : d \in proposals}
    [] k \in {"chatApply", "chatDiscard"} -> IF chat = None THEN {} ELSE {chat.id}
    [] OTHER -> {None}

Entry(k) ==
  CASE k \in LockFirstKinds -> "acquire"
    [] k \in PlanFirstKinds -> "peek"
    [] OTHER -> "check"

Arrive(r) ==
  /\ pc[r] = "idle"
  /\ \E k \in Kinds : \E t \in Visible(k) :
       /\ Goto(r, Entry(k))
       /\ kind' = [kind EXCEPT ![r] = k]
       /\ target' = [target EXCEPT ![r] = t]
  /\ UNCHANGED <<files, busy, seen, hand, stale, holders, ghosts>>

-----------------------------------------------------------------------------
(* Taking the lock.                                                        *)

AfterAcquire(r) ==
  CASE kind[r] = "edit" -> "readPlan"
    [] kind[r] = "applyDiff" -> "readPending"
    [] kind[r] \in {"applyBaseline", "revise"} -> "readProposals"
    [] kind[r] \in {"replan", "live"} -> "recheck"
    [] OTHER -> "finish"

\* Faulty variant: the lock is taken without looking whether it is free.
AcquireUnchecked(r) ==
  /\ pc[r] = "acquire"
  /\ Lock(r)
  /\ Goto(r, AfterAcquire(r))
  /\ UNCHANGED <<files, locals, ghosts>>

\* if (live.busy.has(projectId)) throw 409; live.busy.add(projectId).
Acquire(r) ==
  /\ pc[r] = "acquire"
  /\ ~busy
  /\ Lock(r)
  /\ Goto(r, AfterAcquire(r))
  /\ UNCHANGED <<files, locals, ghosts>>

\* The chat handlers look at the lock before they read the request's body ...
CheckChat(r) ==
  /\ pc[r] = "check"
  /\ ~busy
  /\ Goto(r, "take")
  /\ UNCHANGED <<files, locals, busy, holders, ghosts>>

\* ... and take it afterwards without looking again.
TakeChat(r) ==
  /\ pc[r] = "take"
  /\ Lock(r)
  /\ barged' = (barged \/ busy)
  /\ Goto(r, "readPlan")
  /\ UNCHANGED <<files, locals, faulted>>

-----------------------------------------------------------------------------
(* Reading.                                                                *)

\* The plan is read before, or without, the lock.
PeekPlan(r) ==
  /\ pc[r] = "peek"
  /\ kind[r] \in {"live", "mock"} => Awaiting(plan)
  /\ seen' = [seen EXCEPT ![r] = plan]
  /\ Goto(r, CASE kind[r] = "event" -> "savePending"
               [] kind[r] = "replan" -> "readPending"
               [] kind[r] = "mock" -> "list"
               [] OTHER -> "acquire")
  /\ UNCHANGED <<files, kind, target, hand, stale, busy, holders, ghosts>>

ReadPending(r) ==
  /\ pc[r] = "readPending"
  /\ \E d \in pending :
       /\ d.id = target[r]
       /\ kind[r] = "replan" => d.base = seen[r].version
       /\ hand' = [hand EXCEPT ![r] = d]
  /\ Goto(r, IF kind[r] = "replan" THEN "acquire" ELSE "readPlan")
  /\ UNCHANGED <<files, kind, target, seen, stale, busy, holders, ghosts>>

\* Only a live draft of the plan's version can be revised.
ReadProposals(r) ==
  /\ pc[r] = "readProposals"
  /\ \E d \in proposals :
       /\ d.id = target[r]
       /\ kind[r] = "revise" => d.base = seen[r].version /\ kind[d.id] # "mock"
       /\ hand' = [hand EXCEPT ![r] = d]
  /\ Goto(r, IF kind[r] = "revise" THEN "recheck" ELSE "readPlan")
  /\ UNCHANGED <<files, kind, target, seen, stale, busy, holders, ghosts>>

\* Faulty variant: a draft is applied whatever version it was compiled from.
ReadPlanUnchecked(r) ==
  /\ pc[r] = "readPlan"
  /\ seen' = [seen EXCEPT ![r] = plan]
  /\ Goto(r, IF kind[r] \in ChatKinds THEN "readChat" ELSE "savePlan")
  /\ UNCHANGED <<files, kind, target, hand, stale, busy, holders, ghosts>>

\* applyPatch and applyBaselineProposal reject a draft of another version.
ReadPlan(r) ==
  /\ pc[r] = "readPlan"
  /\ kind[r] \in {"applyDiff", "applyBaseline"} => hand[r].base = plan.version
  /\ seen' = [seen EXCEPT ![r] = plan]
  /\ Goto(r, IF kind[r] \in ChatKinds THEN "readChat" ELSE "savePlan")
  /\ UNCHANGED <<files, kind, target, hand, stale, busy, holders, ghosts>>

\* A message carries the version its client saw: any but the plan's is refused.
ReadChatForMessage(r) ==
  /\ kind[r] = "chatMessage"
  /\ hand' = [hand EXCEPT ![r] = chat]
  /\ Goto(r, "saveMessage")

\* Faulty variant: a proposal is applied whatever version it is of.
ApplyAnyVersion(r) ==
  /\ kind[r] = "chatApply"
  /\ chat # None
  /\ chat.id = target[r]
  /\ chat.status = "pending"
  /\ hand' = [hand EXCEPT ![r] = chat]
  /\ Goto(r, "savePlan")

ReadChatForApply(r) ==
  /\ kind[r] = "chatApply"
  /\ chat # None
  /\ chat.id = target[r]
  /\ chat.status = "pending"
  /\ chat.base = seen[r].version
  /\ hand' = [hand EXCEPT ![r] = chat]
  /\ Goto(r, "savePlan")

\* Faulty variant: a proposal that was applied can still be discarded.
DiscardAny(r) ==
  /\ kind[r] = "chatDiscard"
  /\ chat # None
  /\ chat.id = target[r]
  /\ hand' = [hand EXCEPT ![r] = [chat EXCEPT !.status = "discarded"]]
  /\ Goto(r, "saveChat")

ReadChatForDiscard(r) ==
  /\ kind[r] = "chatDiscard"
  /\ chat # None
  /\ chat.id = target[r]
  /\ chat.status # "applied"
  /\ hand' = [hand EXCEPT ![r] = [chat EXCEPT !.status = "discarded"]]
  /\ Goto(r, "saveChat")

ReadChat(r) ==
  /\ pc[r] = "readChat"
  /\ ReadChatForMessage(r) \/ ReadChatForApply(r) \/ ReadChatForDiscard(r)
  /\ UNCHANGED <<files, kind, target, seen, stale, busy, holders, ghosts>>

-----------------------------------------------------------------------------
(* Compiling a draft.                                                      *)

AfterRecheck(r) ==
  CASE kind[r] = "replan" -> "savePending"
    [] kind[r] = "live" -> "list"
    [] kind[r] = "revise" -> "saveProposal"
    [] OTHER -> "saveChat"

\* Faulty variant: the draft is kept whatever the plan has become meanwhile.
RecheckSkipped(r) ==
  /\ pc[r] = "recheck"
  /\ \/ hand' = [hand EXCEPT ![r] = NewDraft(r, seen[r])]
     \/ kind[r] = "chatMessage" /\ UNCHANGED hand
  /\ Goto(r, AfterRecheck(r))
  /\ UNCHANGED <<files, kind, target, seen, stale, busy, holders, ghosts>>

\* The model has answered: the draft is kept only if the plan on disk is still
\* the version it was compiled from.  A chat answer need not propose anything.
Recheck(r) ==
  /\ pc[r] = "recheck"
  /\ plan.version = seen[r].version
  /\ \/ hand' = [hand EXCEPT ![r] = NewDraft(r, seen[r])]
     \/ kind[r] = "chatMessage" /\ UNCHANGED hand
  /\ Goto(r, AfterRecheck(r))
  /\ UNCHANGED <<files, kind, target, seen, stale, busy, holders, ghosts>>

\* readdir of baseline-proposals/ ...
ListProposals(r) ==
  /\ pc[r] = "list"
  /\ stale' = [stale EXCEPT ![r] = {d.id : d \in proposals}]
  /\ Goto(r, "load")
  /\ UNCHANGED <<files, kind, target, seen, hand, busy, holders, ghosts>>

\* ... and readFile of every name: one that has gone makes the whole list empty.
LoadProposals(r) ==
  /\ pc[r] = "load"
  /\ LET gone == ~ (stale[r] \subseteq {d.id : d \in proposals})
         left == IF gone THEN {} ELSE stale[r]
     IN  /\ stale' = [stale EXCEPT ![r] = left]
         /\ Goto(r, IF kind[r] = "mock" /\ left # {} THEN "clear" ELSE "saveProposal")
  /\ UNCHANGED <<files, kind, target, seen, hand, busy, holders, ghosts>>

-----------------------------------------------------------------------------
(* Writing.                                                                *)

\* What a confirming or editing request is about to write: its own change or
\* the patch's applied to the plan it read, the candidate plan as the version
\* after the one it read, or the chat's preview as it is.
NextPlan(r) ==
  CASE kind[r] = "edit" -> Extend(seen[r], r)
    [] kind[r] = "applyDiff" -> Extend(seen[r], hand[r].id)
    [] kind[r] = "applyBaseline" -> [hand[r].preview EXCEPT !.version = seen[r].version + 1]
    [] OTHER -> hand[r].preview

\* Faulty variant: the plan is written without its commit.
SavePlanOnly(r) ==
  /\ pc[r] = "savePlan"
  /\ plan' = NextPlan(r)
  /\ seen' = [seen EXCEPT ![r] = NextPlan(r)]
  /\ Goto(r, "finish")
  /\ UNCHANGED <<commits, pending, proposals, chat, kind, target, hand, stale,
                 busy, holders, ghosts>>

SavePlan(r) ==
  /\ pc[r] = "savePlan"
  /\ plan' = NextPlan(r)
  /\ seen' = [seen EXCEPT ![r] = NextPlan(r)]
  /\ Goto(r, "saveCommit")
  /\ UNCHANGED <<commits, pending, proposals, chat, kind, target, hand, stale,
                 busy, holders, ghosts>>

AfterCommit(r) ==
  CASE kind[r] = "edit" -> "finish"
    [] kind[r] = "applyDiff" -> "removePending"
    [] kind[r] = "applyBaseline" -> "removeProposal"
    [] OTHER -> "saveChat"

\* Faulty variant: the commit takes the file name of the version before it.
SaveCommitUnderOldName(r) ==
  /\ pc[r] = "saveCommit"
  /\ commits' = {c \in commits : c.version # seen[r].version - 1} \cup {seen[r]}
  /\ Goto(r, AfterCommit(r))
  /\ hand' = IF kind[r] = "chatApply" THEN [hand EXCEPT ![r].status = "applied"] ELSE hand
  /\ UNCHANGED <<plan, pending, proposals, chat, kind, target, seen, stale,
                 busy, holders, ghosts>>

\* commits/<version>.json; a file of that name is overwritten.
SaveCommit(r) ==
  /\ pc[r] = "saveCommit"
  /\ commits' = {c \in commits : c.version # seen[r].version} \cup {seen[r]}
  /\ Goto(r, AfterCommit(r))
  /\ hand' = IF kind[r] = "chatApply" THEN [hand EXCEPT ![r].status = "applied"] ELSE hand
  /\ UNCHANGED <<plan, pending, proposals, chat, kind, target, seen, stale,
                 busy, holders, ghosts>>

\* An event has no lock: its request ends with the write.
SavePending(r) ==
  /\ pc[r] = "savePending"
  /\ pending' = pending \cup {NewDraft(r, seen[r])}
  /\ IF kind[r] = "event" THEN Close(r)
     ELSE Goto(r, "removePending") /\ UNCHANGED locals
  /\ UNCHANGED <<plan, commits, proposals, chat, busy, holders, ghosts>>

RemovePending(r) ==
  /\ pc[r] = "removePending"
  /\ pending' = {d \in pending : d.id # target[r]}
  /\ Goto(r, "finish")
  /\ UNCHANGED <<plan, commits, proposals, chat, locals, busy, holders, ghosts>>

\* Faulty variant: a revised draft is saved beside the one it revises.
SaveProposalBeside(r) ==
  /\ pc[r] = "saveProposal"
  /\ proposals' = proposals \cup {NewDraft(r, seen[r])}
  /\ IF kind[r] = "mock" THEN Close(r)
     ELSE /\ Goto(r, IF stale[r] = {} THEN "finish" ELSE "clear")
          /\ UNCHANGED locals
  /\ UNCHANGED <<plan, commits, pending, chat, busy, holders, ghosts>>

SaveProposal(r) ==
  /\ pc[r] = "saveProposal"
  /\ proposals' = proposals \cup {NewDraft(r, seen[r])}
  /\ IF kind[r] = "mock" THEN Close(r)
     ELSE /\ Goto(r, IF kind[r] = "revise" THEN "removeProposal"
                     ELSE IF stale[r] = {} THEN "finish" ELSE "clear")
          /\ UNCHANGED locals
  /\ UNCHANGED <<plan, commits, pending, chat, busy, holders, ghosts>>

RemoveProposal(r) ==
  /\ pc[r] = "removeProposal"
  /\ proposals' = {d \in proposals : d.id # target[r]}
  /\ Goto(r, "finish")
  /\ UNCHANGED <<plan, commits, pending, chat, locals, busy, holders, ghosts>>

\* The proposals listed are deleted one by one, by mock before it saves its own.
ClearProposal(r) ==
  /\ pc[r] = "clear"
  /\ \E x \in stale[r] :
       /\ proposals' = {d \in proposals : d.id # x}
       /\ stale' = [stale EXCEPT ![r] = @ \ {x}]
       /\ Goto(r, IF stale[r] # {x} THEN "clear"
                  ELSE IF kind[r] = "mock" THEN "saveProposal" ELSE "finish")
  /\ UNCHANGED <<plan, commits, pending, chat, kind, target, seen, hand,
                 busy, holders, ghosts>>

\* The user's message is kept before the model is called; the file is written
\* whole, with the proposal it had when it was read.
SaveMessage(r) ==
  /\ pc[r] = "saveMessage"
  /\ chat' = hand[r]
  /\ Goto(r, "recheck")
  /\ UNCHANGED <<plan, commits, pending, proposals, locals, busy, holders, ghosts>>

SaveChat(r) ==
  /\ pc[r] = "saveChat"
  /\ chat' = hand[r]
  /\ Goto(r, "finish")
  /\ UNCHANGED <<plan, commits, pending, proposals, locals, busy, holders, ghosts>>

Finish(r) ==
  /\ pc[r] = "finish"
  /\ Close(r)
  /\ Release(r)
  /\ UNCHANGED <<files, ghosts>>

-----------------------------------------------------------------------------
(* Failure.                                                                *)

\* Faulty variant: an early return leaves the lock behind.
RejectLocked(r) ==
  /\ pc[r] \in Running \ (Writing \cup {"finish"})
  /\ Close(r)
  /\ UNCHANGED <<files, busy, holders, ghosts>>

\* A step before the first write throws: 400, 404, 409, a model that fails or
\* answers nonsense, a client that disconnects.
Reject(r) ==
  /\ pc[r] \in Running \ (Writing \cup {"finish"})
  /\ Close(r)
  /\ Release(r)
  /\ UNCHANGED <<files, ghosts>>

\* A write or a deletion throws; what was written before stays.
WriteFails(r) ==
  /\ pc[r] \in Writing
  /\ Close(r)
  /\ Release(r)
  /\ faulted' = TRUE
  /\ UNCHANGED <<files, barged>>

\* The process dies: the files stay, the lock and the requests under way are gone.
Crash ==
  /\ \E r \in Requests : pc[r] \in Running
  /\ pc' = [r \in Requests |-> IF pc[r] \in Running THEN "done" ELSE pc[r]]
  /\ seen' = [r \in Requests |-> None]
  /\ hand' = [r \in Requests |-> None]
  /\ stale' = [r \in Requests |-> {}]
  /\ busy' = FALSE
  /\ holders' = {}
  /\ faulted' = TRUE
  /\ UNCHANGED <<files, kind, target, barged>>

-----------------------------------------------------------------------------
Init ==
  /\ plan = FirstPlan
  /\ commits = {FirstPlan}
  /\ pending = {}
  /\ proposals = {}
  /\ chat = None
  /\ busy = FALSE
  /\ pc = [r \in Requests |-> "idle"]
  /\ kind = [r \in Requests |-> None]
  /\ target = [r \in Requests |-> None]
  /\ seen = [r \in Requests |-> None]
  /\ hand = [r \in Requests |-> None]
  /\ stale = [r \in Requests |-> {}]
  /\ holders = {}
  /\ barged = FALSE
  /\ faulted = FALSE

Reads(r) ==
  \/ PeekPlan(r) \/ ReadPending(r) \/ ReadProposals(r) \/ ReadPlan(r)
  \/ ReadChat(r) \/ Recheck(r) \/ ListProposals(r) \/ LoadProposals(r)

Writes(r) ==
  \/ SavePlan(r) \/ SaveCommit(r) \/ SavePending(r) \/ RemovePending(r)
  \/ SaveProposal(r) \/ RemoveProposal(r) \/ ClearProposal(r)
  \/ SaveMessage(r) \/ SaveChat(r)

Step(r) ==
  \/ Acquire(r) \/ CheckChat(r) \/ TakeChat(r)
  \/ Reads(r) \/ Writes(r) \/ Finish(r) \/ Reject(r) \/ WriteFails(r)

Next == (\E r \in Requests : Arrive(r) \/ Step(r)) \/ Crash

Spec == Init /\ [][Next]_vars

\* The event loop runs every step that can run, file operations and model calls
\* end (providers have deadlines, bodies the HTTP server's), clients owe nothing.
FairSpec == Spec /\ \A r \in Requests : WF_vars(Step(r))

-----------------------------------------------------------------------------
TypeOK ==
  /\ plan \in Snapshots
  /\ commits \subseteq Snapshots
  /\ pending \subseteq Drafts
  /\ proposals \subseteq Drafts
  /\ chat \in Drafts \cup {None}
  /\ busy \in BOOLEAN
  /\ pc \in [Requests -> Labels]
  /\ kind \in [Requests -> Kinds \cup {None}]
  /\ target \in [Requests -> Requests \cup {None}]
  /\ seen \in [Requests -> Snapshots \cup {None}]
  /\ hand \in [Requests -> Drafts \cup {None}]
  /\ stale \in [Requests -> SUBSET Requests]
  /\ holders \subseteq Requests
  /\ barged \in BOOLEAN
  /\ faulted \in BOOLEAN

-----------------------------------------------------------------------------
(* Safety.  barged is the one thing the code leaves open: a chat request   *)
(* that took the lock while another request held it.  What the lock        *)
(* protects is stated of the behaviours in which that has not happened.    *)

\* Every handler that adds the project to live.busy deletes it on every path
\* out, none deletes the entry of another, and no two are inside together.
MutualExclusion ==
  ~barged => /\ \A r, s \in holders : r = s
             /\ busy = (holders # {})

\* plan.json only ever moves from the plan on disk to that plan with one change
\* it did not have: no confirmed change is overwritten and none is made twice.
\* An edit, a confirmation, a draft and a crash may come in any order.
NoLostUpdate ==
  [][plan' # plan =>
       \/ barged
       \/ \E c \in Requests \ plan.changes : plan' = Extend(plan, c)]_vars

\* The plan a confirmation writes is the preview its draft showed the user
\* (commitPatch recomputes it, applyBaselineProposal renumbers it).
ConfirmedAsPreviewed ==
  \A r \in Requests :
    pc[r] = "saveCommit" /\ kind[r] # "edit" /\ ~barged => seen[r] = hand[r].preview

\* The commit files and plan.json are states of one line of history, each with
\* the changes of those before it, and no commit is ahead of plan.json.
HistoryLinear ==
  ~barged =>
    \A c \in commits :
      /\ c = plan \/ Before(c, plan)
      /\ \A d \in commits : c = d \/ Before(c, d) \/ Before(d, c)

\* While no file operation failed and nobody is between its savePlan and its
\* saveCommit, every version of the plan has its commit, the last one plan.json.
HistoryComplete ==
  ~barged /\ ~faulted /\ (\A r \in Requests : pc[r] # "saveCommit") =>
    /\ plan \in commits
    /\ {c.version : c \in commits} = 1 .. plan.version

\* A draft that took a model call to make is only saved while the plan is still
\* the one it was made from: the plan was read before the lock was taken.
NoStaleDraftSaved ==
  \A r \in holders :
    /\ pc[r] \in {"savePending", "saveProposal"} \/ (pc[r] = "saveChat" /\ kind[r] = "chatMessage")
    /\ ~barged
    => seen[r] = plan

\* Between requests there is one baseline draft to confirm: a new one removes
\* the others, a revision the one it revises.  That is as long as no file
\* operation failed, and without demo research, which takes no lock.
OneBaselineDraft ==
  ~barged /\ ~faulted /\ holders = {} /\ (\A r \in Requests : kind[r] # "mock") =>
    Cardinality(proposals) <= 1

\* What the conversation says became of a proposal is what became of it, also
\* when it is discarded and applied at once.
ChatTellsTheTruth ==
  chat # None /\ ~barged =>
    /\ chat.status = "applied" => chat.id \in plan.changes
    /\ chat.status = "discarded" /\ ~faulted => chat.id \notin plan.changes

\* plan.json and commits/ keep the promise of PlanHistory, whatever fails between
\* their writes (without the chat, whose lock has a gap).
History == INSTANCE PlanHistory WITH Changes <- Requests, history <- commits
KeepsHistory == History!Spec

\* A chat proposal of an older version is not applied once the plan was edited.
OldProposalRefused ==
  [][\A r \in Requests :
       SavePlan(r) /\ kind[r] = "chatApply" => hand[r].base = plan.version]_vars

-----------------------------------------------------------------------------
(* Liveness, under FairSpec.                                               *)

\* The lock never stays with a request that is gone.
LockReleased == busy ~> ~busy

\* The history catches up with plan.json unless a file operation failed.
HistoryCatchesUp == plan \notin commits ~> (plan \in commits \/ faulted \/ barged)

=============================================================================
