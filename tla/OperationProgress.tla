-------------------------- MODULE OperationProgress --------------------------
(***************************************************************************)
(* The progress of a request, as the page polls it                         *)
(* (apps/web/src/request-progress.ts) and the server keeps it              *)
(* (apps/server/src/operation-progress.ts, under createZhiluServer of      *)
(* apps/server/src/index.ts).  The page names every request with a fresh   *)
(* id; the network may deliver a request again; the server refuses an id   *)
(* it still has an entry for, but entries expire and are evicted while     *)
(* their work goes on.  Who the requests are from may change meanwhile     *)
(* (Authentication decides it; here it is a choice).                       *)
(*                                                                         *)
(* An entry is the run that made it: the tracker's map refers to the       *)
(* progress object the work holds on to.  Map keys are inserted only when  *)
(* absent, so the map's order is the order of the runs.  The texts of the  *)
(* steps and the note that the connection is lost are left out; a step     *)
(* with a repeated text changes nothing.                                   *)
(***************************************************************************)
EXTENDS Naturals, FiniteSets

CONSTANTS
  Requests,     \* requests of pages, each with its id
  Accounts,     \* owners of requests
  MaxEntries,   \* entries the tracker keeps (500)
  Expiry,       \* how long an entry without news is kept (15 minutes)
  MaxRuns,      \* bound: requests that are run
  MaxTime,      \* bound: the clock
  None          \* nobody is logged in, nothing is shown

\* What the proofs and the runs assume of the constants.
Parameters ==
  /\ MaxEntries \in Nat \ {0} /\ Expiry \in Nat /\ MaxRuns \in Nat /\ MaxTime \in Nat
  /\ None \notin Accounts \cup Nat

VARIABLES
  now,        \* the clock
  account,    \* who the pages' requests are from
  phase,      \* of a request at its page: "new", "waiting" or "ended"
  timer,      \* the page's timer for its next poll is set
  poll,       \* the page's poll, and the run it was answered with, 0 for none
  shown,      \* the run whose steps the page shows, None before the first
  runs,       \* how many requests were run
  progress,   \* the progress object of each run
  entries,    \* the runs in the tracker's map
  ended       \* history: how each run ended

vars == <<now, account, phase, timer, poll, shown, runs, progress, entries, ended>>
page == <<phase, timer, poll, shown>>

Progress == [owner : Accounts, id : Requests, status : {"running", "complete", "failed"},
             updated : Nat]

Polls == [state : {"none", "sent", "answered"}, run : 0 .. MaxRuns]

NoPoll == [state |-> "none", run |-> 0]

Fresh == {i \in entries : now - progress[i].updated <= Expiry}

\* prune: the expired entries go, then the oldest while the map is full.
Kept == {i \in Fresh : Cardinality({j \in Fresh : j > i}) < MaxEntries - 1}

\* The entry of an owner's id, if there is one (after a prune).
Found(owner, r) == {i \in Kept : progress[i].owner = owner /\ progress[i].id = r}

-----------------------------------------------------------------------------

Init ==
  /\ now = 0 /\ runs = 0
  /\ account \in Accounts
  /\ phase = [r \in Requests |-> "new"]
  /\ timer = [r \in Requests |-> FALSE]
  /\ poll  = [r \in Requests |-> NoPoll]
  /\ shown = [r \in Requests |-> None]
  /\ progress = [i \in {} |-> None] /\ ended = [i \in {} |-> None]
  /\ entries = {}

\* trackedFetch: the request leaves, and the first poll is planned.
Fetch(r) ==
  /\ phase[r] = "new"
  /\ phase' = [phase EXCEPT ![r] = "waiting"]
  /\ timer' = [timer EXCEPT ![r] = TRUE]
  /\ UNCHANGED <<now, account, poll, shown, runs, progress, entries, ended>>

\* The timer sends a poll.
Poll(r) ==
  /\ timer[r]
  /\ timer' = [timer EXCEPT ![r] = FALSE]
  /\ poll'  = [poll EXCEPT ![r].state = "sent"]
  /\ UNCHANGED <<now, account, phase, shown, runs, progress, entries, ended>>

\* Faulty variant: the next poll is planned without a look at ended.
PollAgainAlways(r) == timer' = [timer EXCEPT ![r] = TRUE]

PollAgain(r) == timer' = [timer EXCEPT ![r] = phase[r] = "waiting"]

\* The answer of a poll arrives: it is shown unless the request has ended.
PollAnswered(r) ==
  /\ poll[r].state = "answered"
  /\ poll' = [poll EXCEPT ![r] = NoPoll]
  /\ PollAgain(r)
  /\ shown' = [shown EXCEPT ![r] = IF phase[r] = "ended" \/ poll[r].run = 0 THEN @ ELSE poll[r].run]
  /\ UNCHANGED <<now, account, phase, runs, progress, entries, ended>>

\* The poll fails, at the latest because the page aborts it.
PollFails(r) ==
  /\ poll[r].state # "none"
  /\ poll' = [poll EXCEPT ![r] = NoPoll]
  /\ PollAgain(r)
  /\ UNCHANGED <<now, account, phase, shown, runs, progress, entries, ended>>

\* The request's response, its failure or the page's own deadline ends it.
FetchEnds(r) ==
  /\ phase[r] = "waiting"
  /\ phase' = [phase EXCEPT ![r] = "ended"]
  /\ timer' = [timer EXCEPT ![r] = FALSE]
  /\ UNCHANGED <<now, account, poll, shown, runs, progress, entries, ended>>

-----------------------------------------------------------------------------

\* The server takes a request with an id it has no entry for and runs it; the
\* network may have delivered it before, and the page may have given it up.
Run(r) ==
  /\ phase[r] # "new" /\ account # None
  /\ Found(account, r) = {}
  /\ runs < MaxRuns
  /\ runs' = runs + 1
  /\ progress' = [i \in DOMAIN progress \cup {runs + 1} |->
                    IF i = runs + 1
                    THEN [owner |-> account, id |-> r, status |-> "running", updated |-> now]
                    ELSE progress[i]]
  /\ ended' = [i \in DOMAIN ended \cup {runs + 1} |-> IF i = runs + 1 THEN "running" ELSE ended[i]]
  /\ entries' = Kept \cup {runs + 1}
  /\ UNCHANGED <<now, account, page>>

\* A request with an id that is in use is refused.
Refuse(r) ==
  /\ phase[r] # "new" /\ account # None
  /\ Found(account, r) # {}
  /\ entries' = Kept
  /\ UNCHANGED <<now, account, page, runs, progress, ended>>

\* GET /api/operations/:id; the page may have aborted it meanwhile.
Answer(r) ==
  /\ poll[r].state = "sent"
  /\ \E i \in 0 .. runs :
       /\ IF account = None THEN i = 0 /\ UNCHANGED entries
          ELSE /\ IF Found(account, r) = {} THEN i = 0 ELSE i \in Found(account, r)
               /\ entries' = Kept
       /\ poll' = [poll EXCEPT ![r] = [state |-> "answered", run |-> i]]
  /\ UNCHANGED <<now, account, phase, timer, shown, runs, progress, ended>>

\* reportProgress, from the work of run i.
ReportProgress(i) ==
  /\ ended[i] = "running"
  /\ progress' = [progress EXCEPT ![i].updated = now]
  /\ UNCHANGED <<now, account, page, runs, entries, ended>>

\* Faulty variant: the work's end is written to the entry that has its key by now.
SettleByKey(i, status) ==
  progress' = [j \in DOMAIN progress |->
                 IF j \in entries /\ progress[j].owner = progress[i].owner /\ progress[j].id = progress[i].id
                 THEN [progress[j] EXCEPT !.status = status, !.updated = now]
                 ELSE progress[j]]

Settle(i, status) == progress' = [progress EXCEPT ![i].status = status, ![i].updated = now]

\* The work of run i ends, with a response below 400, or with another or an error.
Finish(i, status) ==
  /\ ended[i] = "running"
  /\ ended' = [ended EXCEPT ![i] = status]
  /\ Settle(i, status)
  /\ UNCHANGED <<now, account, page, runs, entries>>

Tick ==
  /\ now < MaxTime
  /\ now' = now + 1
  /\ UNCHANGED <<account, page, runs, progress, entries, ended>>

\* The user logs in or out, or the session expires.
SwitchAccount ==
  /\ account' \in (Accounts \cup {None}) \ {account}
  /\ UNCHANGED <<now, page, runs, progress, entries, ended>>

Next ==
  \/ \E r \in Requests : \/ Fetch(r) \/ Poll(r) \/ PollAnswered(r) \/ PollFails(r) \/ FetchEnds(r)
                         \/ Run(r) \/ Refuse(r) \/ Answer(r)
  \/ \E i \in 1 .. runs : ReportProgress(i)
  \/ \E i \in 1 .. runs, status \in {"complete", "failed"} : Finish(i, status)
  \/ Tick \/ SwitchAccount

Spec == Init /\ [][Next]_vars

-----------------------------------------------------------------------------

TypeOK ==
  /\ now \in Nat /\ runs \in 0 .. MaxRuns
  /\ account \in Accounts \cup {None}
  /\ phase \in [Requests -> {"new", "waiting", "ended"}]
  /\ timer \in [Requests -> BOOLEAN]
  /\ poll  \in [Requests -> Polls]
  /\ shown \in [Requests -> (1 .. MaxRuns) \cup {None}]
  /\ progress \in [1 .. runs -> Progress]
  /\ ended \in [1 .. runs -> {"running", "complete", "failed"}]
  /\ entries \subseteq 1 .. runs

\* The entry of an id tells how its own run ended, even when an earlier run of
\* the id, whose entry is gone, ends later; it belongs to the last run of its
\* id, and so no entry is left of an id that two runs work on but the newer's
\* (OperationTracker.run and prune, the 409 of createZhiluServer).
ProgressIsItsRuns ==
  /\ \A i \in 1 .. runs : progress[i].status = ended[i]
  /\ \A i \in entries, j \in 1 .. runs :
       progress[i].owner = progress[j].owner /\ progress[i].id = progress[j].id => j <= i
  /\ Cardinality(entries) <= MaxEntries

\* Once its request is over a page plans no more polls, whatever poll, answer
\* or failure was still on its way; what it showed came from a run of that
\* request (trackedFetch).
EndedIsQuiet ==
  \A r \in Requests :
    /\ timer[r] => phase[r] = "waiting" /\ poll[r] = NoPoll
    /\ shown[r] # None => shown[r] \in 1 .. runs /\ progress[shown[r]].id = r
=============================================================================
