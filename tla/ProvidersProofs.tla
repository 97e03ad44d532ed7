--------------------------- MODULE ProvidersProofs ---------------------------
(***************************************************************************)
(* Theorems about the calls of the three providers, for every limit and    *)
(* whatever their children, clients and servers send, and then about a     *)
(* call of whichever is asked.  For Zhihu the invariant says at which      *)
(* moments of a finish the promise is settled, the child killed and        *)
(* somebody waiting for it, and what of stderr is kept; for Zhida, when    *)
(* its child was told to stop, and that what was shown may be shown; for   *)
(* Roadmapper, who won the race.                                           *)
(***************************************************************************)
EXTENDS Providers, DataLemmas

-----------------------------------------------------------------------------
(* Zhihu.                                                                  *)

ZhihuSetting == Zhihu!Limits /\ Zhihu!Call!OutcomesDiffer

\* Before finish nothing is settled or killed; a finish that waits for its
\* child has killed it and settled nothing; any other finish has settled.
Finishing ==
  /\ ~ settled => outcome = None /\ ~ told /\ ending = None
  /\ settled => ~ timer
  /\ settled /\ ending = None => outcome # None
  /\ ending # None => outcome = None /\ settled /\ told /\ child = "running"
  /\ child \in {"none", "closed"} => ~ timer
  /\ child = "closed" => settled

\* What settled while the child runs has killed it and says so.
Reported == outcome # None /\ child = "running" => told /\ cleanup

\* An answer came from a child that ended by itself.
Answered == outcome = Answer => child = "closed" /\ ~ told

\* A diagnosis was reported of a child that wrote nothing else.
Diagnosed == upstream => outcome # None /\ diagnostic /\ stdoutBytes = 0

Promised == Zhihu!PromiseOK /\ Finishing /\ Reported /\ Answered

ZhihuInv == Promised /\ Zhihu!StreamsOK /\ Diagnosed

\* It holds at first.
LEMMA ZhihuInit == ASSUME ZhihuSetting PROVE Zhihu!Init => ZhihuInv
<1> SUFFICES ASSUME Zhihu!Init PROVE ZhihuInv
  OBVIOUS
<1>1. outcome = None /\ outcome # Answer
  BY DEF Zhihu!Init, ZhihuSetting, Zhihu!Call!OutcomesDiffer
<1>2. Promised /\ Diagnosed
  BY <1>1 DEF Zhihu!Init, Promised, Zhihu!PromiseOK, Finishing, Reported, Answered, Diagnosed
<1>3. <<>> \in Seq(Zhihu!Atoms) /\ Len(<<>>) = 0
  OBVIOUS
<1>4. Zhihu!StreamsOK
  <2>1. stdoutBytes \in 0 .. StdoutLimit + 1 /\ diagnosticsSeen \in Nat
    BY DEF Zhihu!Init, ZhihuSetting, Zhihu!Limits
  <2>2. Len(said) <= StderrLimit + 1 /\ Len(stderrLine) <= MaxLine
    BY <1>3 DEF Zhihu!Init, ZhihuSetting, Zhihu!Limits
  <2> QED
    BY <1>3, <2>1, <2>2, Zenon DEF Zhihu!Init, Zhihu!StreamsOK
<1> QED
  BY <1>2, <1>4 DEF ZhihuInv

-----------------------------------------------------------------------------
(* The two ways to finish.                                                 *)

\* A finish that does not kill settles what nobody finished.
LEMMA FinishNowKeeps ==
  ASSUME ZhihuSetting, ZhihuInv, ~ settled,
         NEW o \in Zhihu!Failures \cup {Answer}, NEW diagnosed \in BOOLEAN, Zhihu!FinishNow(o, diagnosed),
         aborted' \in BOOLEAN, child' \in {"none", "closed"}, o = Answer => child' = "closed"
  PROVE  /\ Promised'
         /\ outcome = None /\ outcome' = o /\ told' = FALSE /\ upstream' = diagnosed
<1>1. outcome = None /\ ~ told /\ ending = None
  BY DEF ZhihuInv, Promised, Finishing
<1>2. /\ settled' = TRUE /\ timer' = FALSE /\ outcome' = o /\ cleanup' = FALSE
      /\ upstream' = diagnosed /\ told' = told /\ ending' = ending
  BY <1>1 DEF Zhihu!FinishNow, Zhihu!Settle
<1>3. o # None
  BY DEF ZhihuSetting, Zhihu!Call!OutcomesDiffer
<1> QED
  BY <1>1, <1>2, <1>3
  DEF ZhihuInv, Promised, Zhihu!PromiseOK, Finishing, Reported, Answered

\* What a kill does: nothing when finish has begun; else it settles the call
\* at once, unless there is a running child to wait for.
LEMMA KillKeeps ==
  ASSUME ZhihuSetting, ZhihuInv, NEW error \in Zhihu!Failures, Zhihu!Kill(error),
         aborted' \in BOOLEAN, child' = child, child \in {"unborn", "running", "exited"}
  PROVE  /\ Promised'
         /\ upstream' => upstream
         /\ \/ UNCHANGED <<outcome, told>>
            \/ outcome = None /\ outcome' = None /\ told'
            \/ outcome = None /\ outcome' = error /\ child # "running"
               /\ (told => told')
<1> USE DEF ZhihuInv, Promised, Zhihu!PromiseOK, Finishing, Reported, Answered
<1>1. CASE settled
  BY <1>1 DEF Zhihu!Kill, Zhihu!promise
<1>2. CASE ~ settled /\ child = "unborn"
  BY <1>2 DEF Zhihu!Kill, Zhihu!FinishKilling, Zhihu!Settle, ZhihuSetting, Zhihu!Call!OutcomesDiffer
<1>3. CASE ~ settled /\ child = "exited"
  BY <1>3 DEF Zhihu!Kill, Zhihu!FinishKilling, Zhihu!Settle, ZhihuSetting, Zhihu!Call!OutcomesDiffer
<1>4. CASE ~ settled /\ child = "running"
  <2>1. PICK success \in BOOLEAN : ending' = [error |-> error, success |-> success]
    BY <1>4 DEF Zhihu!Kill, Zhihu!FinishKilling
  <2>2. ending' \in Zhihu!Endings /\ ending' # None
    BY <2>1 DEF Zhihu!Endings, ZhihuSetting, Zhihu!Limits
  <2>3. /\ settled' = TRUE /\ timer' = FALSE /\ told' = TRUE
        /\ UNCHANGED <<outcome, cleanup, upstream>>
    BY <1>4 DEF Zhihu!Kill, Zhihu!FinishKilling
  <2> QED
    BY <1>4, <2>2, <2>3
<1> QED
  BY <1>1, <1>2, <1>3, <1>4

-----------------------------------------------------------------------------
(* The streams.                                                            *)

LEMMA TakeLineKeeps ==
  ASSUME Zhihu!StreamsOK, Zhihu!TakeLine
  PROVE  diagnosticsSeen' \in Nat /\ diagnostic' \in BOOLEAN
<1>1. diagnosticsSeen' \in Nat
  BY DEF Zhihu!StreamsOK, Zhihu!TakeLine
<1>2. diagnostic' \in BOOLEAN
  BY Zenon DEF Zhihu!StreamsOK, Zhihu!TakeLine
<1> QED
  BY <1>1, <1>2

LEMMA TakeAtomKeeps ==
  ASSUME ZhihuSetting, Zhihu!StreamsOK, NEW a \in Zhihu!Atoms, Zhihu!TakeAtom(a)
  PROVE  /\ stderrLine' \in Seq(Zhihu!Atoms) /\ Len(stderrLine') <= MaxLine
         /\ discardStderrLine' \in BOOLEAN /\ diagnostic' \in BOOLEAN /\ diagnosticsSeen' \in Nat
<1> USE DEF Zhihu!StreamsOK, ZhihuSetting, Zhihu!Limits
<1>0. <<>> \in Seq(Zhihu!Atoms) /\ Len(<<>>) = 0 /\ 0 <= MaxLine
  OBVIOUS
<1>1. CASE a = "newline" /\ discardStderrLine
  <2>1. /\ stderrLine' = <<>> /\ discardStderrLine' = FALSE
        /\ UNCHANGED <<diagnosticsSeen, diagnostic>>
    BY <1>1 DEF Zhihu!TakeAtom
  <2> QED
    BY <1>0, <2>1, Zenon
<1>2. CASE a = "newline" /\ ~ discardStderrLine
  <2>1. stderrLine' = <<>> /\ discardStderrLine' = FALSE /\ Zhihu!TakeLine
    BY <1>2 DEF Zhihu!TakeAtom
  <2> QED
    BY <1>0, <2>1, TakeLineKeeps, Zenon
<1>3. CASE a # "newline" /\ ~ discardStderrLine /\ Len(stderrLine) = MaxLine
  <2>1. /\ stderrLine' = <<>> /\ discardStderrLine' = TRUE
        /\ UNCHANGED <<diagnosticsSeen, diagnostic>>
    BY <1>3 DEF Zhihu!TakeAtom
  <2> QED
    BY <1>0, <2>1, Zenon
<1>4. CASE a # "newline" /\ ~ discardStderrLine /\ Len(stderrLine) # MaxLine
  <2>1. Append(stderrLine, a) \in Seq(Zhihu!Atoms) /\ Len(Append(stderrLine, a)) = Len(stderrLine) + 1
    OBVIOUS
  <2>2. Len(stderrLine) \in Nat /\ Len(stderrLine) + 1 <= MaxLine
    BY <1>4
  <2> QED
    BY <1>4, <2>1, <2>2 DEF Zhihu!TakeAtom
<1>5. CASE a # "newline" /\ discardStderrLine
  BY <1>5 DEF Zhihu!TakeAtom
<1> QED
  BY <1>1, <1>2, <1>3, <1>4, <1>5

-----------------------------------------------------------------------------
(* The steps.                                                              *)

LEMMA CloseKeeps ==
  ASSUME ZhihuSetting, ZhihuInv, ~ settled, Zhihu!Close, child' = "closed", aborted' = aborted, UNCHANGED Zhihu!streams
  PROVE  /\ Promised' /\ Diagnosed'
         /\ outcome = None /\ outcome' \in Zhihu!Failures \cup {Answer} /\ told' = FALSE
<1>1. PICK o \in Zhihu!Failures \cup {Answer}, diagnosed \in BOOLEAN :
        Zhihu!FinishNow(o, diagnosed) /\ (diagnosed => diagnostic /\ stdoutBytes = 0)
  BY DEF Zhihu!Close, Zhihu!ProcessFailure, Zhihu!Checked, Zhihu!Failures
<1>2. aborted' \in BOOLEAN
  BY DEF ZhihuInv, Promised, Zhihu!PromiseOK
<1>3. Promised' /\ outcome = None /\ outcome' = o /\ told' = FALSE /\ upstream' = diagnosed
  BY <1>1, <1>2, FinishNowKeeps
<1> QED
  BY <1>1, <1>3 DEF Diagnosed, Zhihu!streams, ZhihuSetting, Zhihu!Call!OutcomesDiffer

\* Each step of the call keeps it.
LEMMA ZhihuNext ==
  ASSUME ZhihuSetting, ZhihuInv, [Zhihu!Next]_(Zhihu!vars)
  PROVE  ZhihuInv'
<1>1. CASE Zhihu!Execute
  <2>0. UNCHANGED Zhihu!streams /\ aborted' = aborted /\ child = "none" /\ ~ settled
    BY <1>1 DEF Zhihu!Execute
  <2>1. CASE child' \in {"unborn", "running"} /\ timer' = TRUE
             /\ UNCHANGED <<outcome, told, settled, ending, cleanup, upstream>>
    BY <2>0, <2>1 DEF ZhihuInv, Promised, Zhihu!PromiseOK, Finishing, Reported, Answered, Zhihu!StreamsOK, Diagnosed, Zhihu!streams
  <2>2. ASSUME NEW o \in Zhihu!Failures, Zhihu!FinishNow(o, FALSE), child' = child
        PROVE  ZhihuInv'
    <3>1. aborted' \in BOOLEAN /\ child' \in {"none", "closed"} /\ o # Answer
      BY <2>0, <2>2 DEF ZhihuInv, Promised, Zhihu!PromiseOK, ZhihuSetting, Zhihu!Call!OutcomesDiffer
    <3>2. Promised' /\ upstream' = FALSE
      BY <2>0, <2>2, <3>1, FinishNowKeeps
    <3> QED
      BY <2>0, <3>2 DEF ZhihuInv, Zhihu!StreamsOK, Diagnosed, Zhihu!streams
  <2> QED
    BY <1>1, <2>1, <2>2 DEF Zhihu!Execute, Zhihu!Failures
<1>2. CASE Zhihu!Exit
  BY <1>2 DEF Zhihu!Exit, Zhihu!Settle, ZhihuInv, Promised, Zhihu!PromiseOK, Finishing, Reported, Answered, Zhihu!StreamsOK,
              Diagnosed, Zhihu!streams, Zhihu!Endings, ZhihuSetting, Zhihu!Call!OutcomesDiffer
<1>3. CASE Zhihu!KillTimeout
  BY <1>3 DEF Zhihu!KillTimeout, Zhihu!Settle, ZhihuInv, Promised, Zhihu!PromiseOK, Finishing, Reported, Answered, Zhihu!StreamsOK,
              Diagnosed, Zhihu!streams, Zhihu!Endings, ZhihuSetting, Zhihu!Call!OutcomesDiffer
<1>4. CASE Zhihu!OnStdout
  <2>0. /\ outcome = None /\ ~ upstream /\ stdoutBytes' = stdoutBytes + 1
        /\ child \in {"running", "exited"} /\ child' = child /\ aborted' = aborted
        /\ UNCHANGED <<stderrLine, discardStderrLine, diagnosticsSeen, diagnostic, said>>
    BY <1>4 DEF Zhihu!OnStdout, Zhihu!Attached, ZhihuInv, Diagnosed
  <2>1. stdoutBytes' \in 0 .. StdoutLimit + 1
    BY <1>4, <2>0 DEF Zhihu!OnStdout, ZhihuInv, Zhihu!StreamsOK, ZhihuSetting, Zhihu!Limits
  <2>2. Zhihu!StreamsOK'
    BY <2>0, <2>1 DEF ZhihuInv, Zhihu!StreamsOK
  <2>3. CASE Zhihu!Kill("output_limit")
    <3>1. Promised' /\ ~ upstream'
      BY <2>0, <2>3, KillKeeps DEF Zhihu!Failures, ZhihuInv, Promised, Zhihu!PromiseOK
    <3> QED
      BY <2>2, <3>1 DEF ZhihuInv, Diagnosed
  <2>4. CASE UNCHANGED Zhihu!promise
    BY <2>0, <2>2, <2>4
    DEF Zhihu!promise, ZhihuInv, Promised, Zhihu!PromiseOK, Finishing, Reported, Answered, Diagnosed
  <2> QED
    BY <1>4, <2>3, <2>4 DEF Zhihu!OnStdout
<1>5. CASE Zhihu!OnStderr
  <2>0. /\ outcome = None /\ ~ upstream /\ stdoutBytes' = stdoutBytes
        /\ child \in {"running", "exited"} /\ child' = child /\ aborted' = aborted
    BY <1>5 DEF Zhihu!OnStderr, Zhihu!Attached, ZhihuInv, Diagnosed
  <2>1. PICK a \in Zhihu!Atoms :
          /\ said' = Append(said, a)
          /\ \/ /\ Zhihu!Kill("output_limit")
                /\ UNCHANGED <<stderrLine, discardStderrLine, diagnosticsSeen, diagnostic>>
             \/ Zhihu!TakeAtom(a) /\ UNCHANGED Zhihu!promise
    BY <1>5 DEF Zhihu!OnStderr
  <2>2. said' \in Seq(Zhihu!Atoms) /\ Len(said') <= StderrLimit + 1
    <3>1. said \in Seq(Zhihu!Atoms) /\ Len(said) \in Nat /\ Len(said) <= StderrLimit
      BY <1>5 DEF Zhihu!OnStderr, ZhihuInv, Zhihu!StreamsOK
    <3>2. Append(said, a) \in Seq(Zhihu!Atoms) /\ Len(Append(said, a)) = Len(said) + 1
      BY <3>1
    <3> QED
      BY <2>1, <3>1, <3>2 DEF ZhihuSetting, Zhihu!Limits
  <2>3. CASE /\ Zhihu!Kill("output_limit")
             /\ UNCHANGED <<stderrLine, discardStderrLine, diagnosticsSeen, diagnostic>>
    <3>1. Promised' /\ ~ upstream'
      BY <2>0, <2>3, KillKeeps DEF Zhihu!Failures, ZhihuInv, Promised, Zhihu!PromiseOK
    <3> QED
      BY <2>0, <2>2, <2>3, <3>1 DEF ZhihuInv, Diagnosed, Zhihu!StreamsOK
  <2>4. CASE Zhihu!TakeAtom(a) /\ UNCHANGED Zhihu!promise
    <3>1. Zhihu!StreamsOK'
      BY <2>0, <2>2, <2>4, TakeAtomKeeps DEF ZhihuInv, Zhihu!StreamsOK
    <3> QED
      BY <2>0, <2>4, <3>1
      DEF Zhihu!promise, ZhihuInv, Promised, Zhihu!PromiseOK, Finishing, Reported, Answered, Diagnosed
  <2> QED
    BY <2>1, <2>3, <2>4
<1>6. ASSUME NEW error \in Zhihu!Failures, Zhihu!Kill(error), aborted' \in BOOLEAN, child' = child,
             child \in {"unborn", "running", "exited"}, UNCHANGED Zhihu!streams,
             outcome = None
      PROVE  ZhihuInv'
  <2>1. Promised' /\ ~ upstream'
    BY <1>6, KillKeeps DEF ZhihuInv, Diagnosed
  <2> QED
    BY <1>6, <2>1 DEF ZhihuInv, Diagnosed, Zhihu!StreamsOK, Zhihu!streams
<1>7. CASE Zhihu!OnError
  BY <1>6, <1>7 DEF Zhihu!OnError, Zhihu!Attached, Zhihu!Failures, ZhihuInv, Promised, Zhihu!PromiseOK
<1>8. CASE Zhihu!OnTimeout
  <2>1. outcome = None /\ child \in {"unborn", "running", "exited", "closed"}
    BY <1>8 DEF Zhihu!OnTimeout, ZhihuInv, Promised, Zhihu!PromiseOK, Finishing
  <2>2. child # "closed"
    BY <1>8 DEF Zhihu!OnTimeout, ZhihuInv, Promised, Finishing
  <2> QED
    BY <1>6, <1>8, <2>1, <2>2 DEF Zhihu!OnTimeout, Zhihu!Failures, ZhihuInv, Promised, Zhihu!PromiseOK
<1>9. CASE Zhihu!OnAbort
  <2>1. CASE Zhihu!Attached
    BY <1>6, <1>9, <2>1 DEF Zhihu!OnAbort, Zhihu!Attached, Zhihu!Failures, ZhihuInv, Promised, Zhihu!PromiseOK
  <2>2. CASE ~ Zhihu!Attached
    BY <1>9, <2>2
    DEF Zhihu!OnAbort, Zhihu!promise, Zhihu!streams, ZhihuInv, Promised, Zhihu!PromiseOK, Finishing, Reported, Answered,
        Zhihu!StreamsOK, Diagnosed
  <2> QED
    BY <2>1, <2>2
<1>10. CASE Zhihu!OnClose
  <2>1. CASE settled
    BY <1>10, <2>1
    DEF Zhihu!OnClose, Zhihu!promise, Zhihu!streams, ZhihuInv, Promised, Zhihu!PromiseOK, Finishing, Reported, Answered,
        Zhihu!StreamsOK, Diagnosed
  <2>2. CASE ~ settled
    <3>1. Promised' /\ Diagnosed'
      BY <1>10, <2>2, CloseKeeps DEF Zhihu!OnClose
    <3> QED
      BY <1>10, <3>1 DEF Zhihu!OnClose, Zhihu!streams, ZhihuInv, Zhihu!StreamsOK
  <2> QED
    BY <2>1, <2>2
<1>11. CASE UNCHANGED Zhihu!vars
  BY <1>11
  DEF Zhihu!vars, Zhihu!promise, Zhihu!streams, ZhihuInv, Promised, Zhihu!PromiseOK, Finishing, Reported, Answered, Zhihu!StreamsOK,
      Diagnosed
<1> QED
  BY <1>1, <1>2, <1>3, <1>4, <1>5, <1>7, <1>8, <1>9, <1>10, <1>11 DEF Zhihu!Next

-----------------------------------------------------------------------------
(* What the call promises.                                                 *)

\* IInv holds in every reachable state of a call, whatever the limits.
THEOREM ZhihuInvariant == ASSUME ZhihuSetting PROVE Zhihu!Spec => []ZhihuInv
<1>1. Zhihu!Init => ZhihuInv
  BY ZhihuInit
<1>2. ZhihuInv /\ [Zhihu!Next]_(Zhihu!vars) => ZhihuInv'
  BY ZhihuNext
<1> QED
  BY <1>1, <1>2, PTL DEF Zhihu!Spec

\* The variables of a call keep their types: neither stream nor the line of
\* stderr that is kept grows past its limit (onStdout, onStderr).
THEOREM ZhihuTypeCorrect == ASSUME ZhihuSetting PROVE Zhihu!Spec => []Zhihu!TypeOK
<1>1. ZhihuInv => Zhihu!TypeOK
  BY DEF ZhihuInv, Promised, Zhihu!TypeOK
<1> QED
  BY <1>1, ZhihuInvariant, PTL

\* Each step of the call is a step of ProviderCall, or none.
LEMMA ZhihuRefines ==
  ASSUME ZhihuSetting, ZhihuInv, [Zhihu!Next]_(Zhihu!vars)
  PROVE  [Zhihu!Call!Next]_(Zhihu!Call!vars)
<1> USE DEF Zhihu!Work, Zhihu!Call!Next, Zhihu!Call!vars, Zhihu!Call!Proceed, Zhihu!Call!Respond, Zhihu!Call!Fail, Zhihu!Call!Later
<1>0. /\ Promised /\ Promised'
      /\ outcome # None /\ child' = child /\ child = "running" => told
  BY ZhihuNext DEF ZhihuInv, Promised, Reported
<1>1. CASE Zhihu!Execute
  <2>1. child = "none" /\ outcome = None
    BY <1>0, <1>1 DEF Zhihu!Execute, Promised, Finishing
  <2>2. ASSUME NEW o \in Zhihu!Failures, Zhihu!FinishNow(o, FALSE), child' = child
        PROVE  [Zhihu!Call!Next]_(Zhihu!Call!vars)
    <3>1. outcome' = o /\ told' = told
      BY <2>1, <2>2 DEF Zhihu!FinishNow, Zhihu!Settle
    <3> QED
      BY <2>1, <2>2, <3>1
  <2>3. CASE child' \in {"unborn", "running"} /\ UNCHANGED <<outcome, told>>
    BY <2>1, <2>3
  <2> QED
    BY <1>1, <2>2, <2>3 DEF Zhihu!Execute, Zhihu!Failures
<1>2. CASE Zhihu!Exit
  <2>1. child = "running" /\ child' = "exited" /\ told' = told
    BY <1>2 DEF Zhihu!Exit
  <2>2. outcome' = outcome \/ (outcome = None /\ outcome' \in Zhihu!Failures)
    <3>1. CASE ending = None
      BY <1>2, <3>1 DEF Zhihu!Exit
    <3>2. CASE ending # None
      <4>1. ending.error \in Zhihu!Failures
        BY <1>0, <3>2 DEF Zhihu!Endings, Promised, Zhihu!PromiseOK
      <4> QED
        BY <1>2, <3>2, <4>1 DEF Zhihu!Exit, Zhihu!Settle
    <3> QED
      BY <3>1, <3>2
  <2> QED
    BY <2>1, <2>2
<1>3. CASE Zhihu!KillTimeout
  <2>1. /\ child = "running" /\ child' = child /\ told /\ told' = told
        /\ outcome = None /\ outcome' \in Zhihu!Failures
    BY <1>0, <1>3
    DEF Zhihu!KillTimeout, Zhihu!Settle, Zhihu!Endings, Promised, Zhihu!PromiseOK, Finishing
  <2> QED
    BY <2>1
<1>4. ASSUME NEW error \in Zhihu!Failures, Zhihu!Kill(error), aborted' \in BOOLEAN, child' = child,
             child \in {"unborn", "running", "exited"}
      PROVE  [Zhihu!Call!Next]_(Zhihu!Call!vars)
  <2>1. \/ UNCHANGED <<outcome, told>>
        \/ outcome = None /\ outcome' = None /\ told'
        \/ outcome = None /\ outcome' = error /\ child # "running" /\ (told => told')
    BY <1>4, KillKeeps
  <2>2. CASE UNCHANGED <<outcome, told>>
    BY <1>4, <2>2
  <2>3. CASE outcome = None /\ outcome' = None /\ told'
    BY <1>4, <2>3
  <2>4. CASE outcome = None /\ outcome' = error /\ child # "running" /\ (told => told')
    BY <1>4, <2>4
  <2> QED
    BY <2>1, <2>2, <2>3, <2>4
<1>5. CASE Zhihu!OnStdout
  BY <1>0, <1>4, <1>5 DEF Zhihu!OnStdout, Zhihu!Attached, Zhihu!promise, Zhihu!Failures, Promised, Zhihu!PromiseOK
<1>6. CASE Zhihu!OnStderr
  BY <1>0, <1>4, <1>6 DEF Zhihu!OnStderr, Zhihu!Attached, Zhihu!promise, Zhihu!Failures, Promised, Zhihu!PromiseOK
<1>7. CASE Zhihu!OnError
  BY <1>0, <1>4, <1>7 DEF Zhihu!OnError, Zhihu!Attached, Zhihu!Failures, Promised, Zhihu!PromiseOK
<1>8. CASE Zhihu!OnTimeout
  BY <1>0, <1>4, <1>8 DEF Zhihu!OnTimeout, Zhihu!Failures, Promised, Zhihu!PromiseOK, Finishing
<1>9. CASE Zhihu!OnAbort
  BY <1>0, <1>4, <1>9 DEF Zhihu!OnAbort, Zhihu!Attached, Zhihu!promise, Zhihu!Failures, Promised, Zhihu!PromiseOK
<1>10. CASE Zhihu!OnClose
  <2>0. child = "exited" /\ child' = "closed"
    BY <1>10 DEF Zhihu!OnClose
  <2>1. CASE settled
    BY <1>0, <1>10, <2>0, <2>1 DEF Zhihu!OnClose, Zhihu!promise
  <2>2. CASE ~ settled
    <3>1. outcome = None /\ outcome' \in Zhihu!Failures \cup {Answer} /\ told' = FALSE
      BY <1>10, <2>2, CloseKeeps DEF Zhihu!OnClose
    <3>2. ~ told
      BY <1>0, <2>2 DEF Promised, Finishing
    <3> QED
      BY <2>0, <3>1, <3>2, <1>0 DEF Promised, Zhihu!PromiseOK
  <2> QED
    BY <2>1, <2>2
<1>11. CASE UNCHANGED Zhihu!vars
  BY <1>11 DEF Zhihu!vars, Zhihu!promise
<1> QED
  BY <1>1, <1>2, <1>3, <1>5, <1>6, <1>7, <1>8, <1>9, <1>10, <1>11 DEF Zhihu!Next

\* Every step of a call is a step of ProviderCall or none: it settles once and
\* for good, answers only from a child that ended by itself, and leaves a child
\* running only after it was killed: the safety half of CallSettles (execute).
THEOREM ZhihuKeepsItsPromise ==
  ASSUME ZhihuSetting
  PROVE  Zhihu!Spec => Zhihu!Call!Init /\ [][Zhihu!Call!Next]_(Zhihu!Call!vars)
<1>1. Zhihu!Init => Zhihu!Call!Init
  BY DEF Zhihu!Init, Zhihu!Call!Init, Zhihu!Work
<1>2. ZhihuInv /\ [Zhihu!Next]_(Zhihu!vars) => [Zhihu!Call!Next]_(Zhihu!Call!vars)
  BY ZhihuRefines
<1> QED
  BY <1>1, <1>2, ZhihuInvariant, PTL DEF Zhihu!Spec

-----------------------------------------------------------------------------
(* The diagnosis.                                                          *)

\* The instance counts as this module does.
LEMMA ZhihuCounts == ASSUME NEW S PROVE Zhihu!Cardinality(S) = Cardinality(S)
BY DEF Zhihu!Cardinality, Cardinality

\* The places of s where a line begins that is exactly a diagnostic.
LinesOf(s) ==
  {i \in 1 .. Len(s) - 2 : /\ s[i] = "head" /\ s[i + 1] = "tail" /\ s[i + 2] = "newline"
                           /\ i = 1 \/ s[i - 1] = "newline"}

\* What is kept of stderr at the end of its last line, which begins after place n.
KeptFrom(n, s, line, dropped) ==
  /\ n = 0 \/ s[n] = "newline"
  /\ \A i \in n + 1 .. Len(s) : s[i] # "newline"
  /\ dropped => Len(s) - n > MaxLine
  /\ ~ dropped => /\ Len(line) = Len(s) - n
                  /\ \A i \in 1 .. Len(line) : line[i] = s[n + i]

\* Within the limit every diagnostic line was counted.
Heard ==
  Len(said) <= StderrLimit =>
    /\ \E n \in 0 .. Len(said) : KeptFrom(n, said, stderrLine, discardStderrLine)
    /\ diagnosticsSeen = Cardinality(LinesOf(said))
    /\ diagnostic = (diagnosticsSeen = 1)

\* Three atoms are a diagnostic line or not, one by one.
LEMMA DiagnosticAtoms ==
  ASSUME NEW s \in Seq(Zhihu!Atoms), NEW i \in 1 .. Len(s) - 2
  PROVE  SubSeq(s, i, i + 2) = Append(Zhihu!Diagnostic, "newline")
           <=> s[i] = "head" /\ s[i + 1] = "tail" /\ s[i + 2] = "newline"
<1> DEFINE t == SubSeq(s, i, i + 2)
           d == Append(Zhihu!Diagnostic, "newline")
<1>1. t \in Seq(Zhihu!Atoms) /\ Len(t) = 3 /\ t[1] = s[i] /\ t[2] = s[i + 1] /\ t[3] = s[i + 2]
  <2>1. Len(s) \in Nat /\ \A j \in i .. i + 2 : s[j] \in Zhihu!Atoms
    OBVIOUS
  <2>2. i \in Int /\ i + 2 \in Int /\ i <= i + 2 /\ 1 .. (i + 2) - i + 1 = 1 .. 3
    OBVIOUS
  <2>3. /\ t \in Seq(Zhihu!Atoms) /\ Len(t) = (i + 2) - i + 1
        /\ \A j \in 1 .. (i + 2) - i + 1 : t[j] = s[i + j - 1]
    BY <2>1, <2>2, SubSeqProperties
  <2> HIDE DEF t
  <2>4. t[1] = s[i + 1 - 1] /\ t[2] = s[i + 2 - 1] /\ t[3] = s[i + 3 - 1]
    <3>1. 1 \in 1 .. (i + 2) - i + 1 /\ 2 \in 1 .. (i + 2) - i + 1 /\ 3 \in 1 .. (i + 2) - i + 1
      BY <2>2
    <3>2. QED BY <2>3, <3>1, Zenon
  <2>5. (i + 2) - i + 1 = 3 /\ i + 1 - 1 = i /\ i + 2 - 1 = i + 1 /\ i + 3 - 1 = i + 2
    OBVIOUS
  <2> QED BY <2>3, <2>4, <2>5
<1>2. /\ Zhihu!Diagnostic \in Seq(Zhihu!Atoms) /\ Len(Zhihu!Diagnostic) = 2 /\ "newline" \in Zhihu!Atoms
      /\ Zhihu!Diagnostic[1] = "head" /\ Zhihu!Diagnostic[2] = "tail"
  BY DEF Zhihu!Diagnostic, Zhihu!Atoms
<1>3. Len(d) = 3 /\ d[1] = "head" /\ d[2] = "tail" /\ d[3] = "newline" /\ d \in Seq(Zhihu!Atoms)
  <2> HIDE DEF Zhihu!Diagnostic
  <2>0. ASSUME NEW x \in Seq(Zhihu!Atoms), NEW e \in Zhihu!Atoms
        PROVE  /\ Append(x, e) \in Seq(Zhihu!Atoms) /\ Len(Append(x, e)) = Len(x) + 1
               /\ \A j \in 1 .. Len(x) : Append(x, e)[j] = x[j]
               /\ Append(x, e)[Len(x) + 1] = e
    OBVIOUS
  <2>1. /\ d \in Seq(Zhihu!Atoms) /\ Len(d) = Len(Zhihu!Diagnostic) + 1 /\ d[Len(Zhihu!Diagnostic) + 1] = "newline"
        /\ \A j \in 1 .. Len(Zhihu!Diagnostic) : d[j] = Zhihu!Diagnostic[j]
    BY <1>2, <2>0, Zenon
  <2> HIDE DEF d
  <2>2. Len(d) = 3 /\ d[1] = "head" /\ d[2] = "tail" /\ d[3] = "newline"
    BY <1>2, <2>1
  <2> QED BY <2>1, <2>2
<1> HIDE DEF t, d
<1>4. t = d <=> \A j \in 1 .. 3 : t[j] = d[j]
  BY <1>1, <1>3
<1>5. t = d <=> t[1] = d[1] /\ t[2] = d[2] /\ t[3] = d[3]
  BY <1>4
<1> QED
  BY <1>1, <1>3, <1>5 DEF t, d

\* The two ways to say where the diagnostic lines are agree.
LEMMA LinesAreThose ==
  ASSUME NEW s \in Seq(Zhihu!Atoms)
  PROVE  {i \in 1 .. Len(s) - 2 : /\ SubSeq(s, i, i + 2) = Append(Zhihu!Diagnostic, "newline")
                                  /\ i = 1 \/ s[i - 1] = "newline"} = LinesOf(s)
BY DiagnosticAtoms DEF LinesOf

\* There are only so many.
LEMMA LinesFinite == ASSUME NEW s \in Seq(Zhihu!Atoms) PROVE IsFiniteSet(LinesOf(s))
<1>1. IsFiniteSet(1 .. Len(s) - 2)
  BY FS_Interval
<1> QED
  BY <1>1, FS_Subset DEF LinesOf

\* One more atom ends a diagnostic line or leaves those there are.
LEMMA LinesGrow ==
  ASSUME NEW s \in Seq(Zhihu!Atoms), NEW a \in Zhihu!Atoms, NEW n \in 0 .. Len(s),
         n = 0 \/ s[n] = "newline", \A i \in n + 1 .. Len(s) : s[i] # "newline"
  PROVE  LinesOf(Append(s, a)) =
           IF a = "newline" /\ Len(s) = n + 2 /\ s[n + 1] = "head" /\ s[n + 2] = "tail"
           THEN LinesOf(s) \cup {n + 1} ELSE LinesOf(s)
<1> DEFINE t == Append(s, a)
<1>1. Len(s) \in Nat /\ Len(t) = Len(s) + 1 /\ t[Len(s) + 1] = a
      /\ \A i \in 1 .. Len(s) : t[i] = s[i]
  OBVIOUS
<1> HIDE DEF t
<1>2. \A i \in 1 .. Len(s) - 2 : i \in LinesOf(t) <=> i \in LinesOf(s)
  BY <1>1 DEF LinesOf
<1>3. ASSUME NEW i \in LinesOf(t), i \notin 1 .. Len(s) - 2
      PROVE  i = Len(s) - 1 /\ a = "newline" /\ Len(s) = n + 2 /\ s[n + 1] = "head" /\ s[n + 2] = "tail"
  <2>1. i = Len(s) - 1 /\ i + 2 = Len(s) + 1 /\ i \in 1 .. Len(s) /\ i + 1 \in 1 .. Len(s)
    BY <1>1, <1>3 DEF LinesOf
  <2>2. a = "newline" /\ s[i] = "head" /\ s[i + 1] = "tail" /\ (i = 1 \/ s[i - 1] = "newline")
    BY <1>1, <2>1 DEF LinesOf
  <2>3. n < i
    <3>1. n # i /\ n # i + 1
      BY <2>2, <2>1
    <3> QED BY <2>1, <3>1
  <2>4. i = n + 1
    BY <2>1, <2>2, <2>3
  <2> QED BY <2>1, <2>2, <2>4
<1>4. ASSUME a = "newline", Len(s) = n + 2, s[n + 1] = "head", s[n + 2] = "tail"
      PROVE  n + 1 \in LinesOf(t)
  BY <1>1, <1>4 DEF LinesOf
<1>5. LinesOf(s) \subseteq 1 .. Len(s) - 2
  BY DEF LinesOf
<1>6. CASE a = "newline" /\ Len(s) = n + 2 /\ s[n + 1] = "head" /\ s[n + 2] = "tail"
  BY <1>2, <1>3, <1>4, <1>5, <1>6 DEF t
<1>7. CASE ~ (a = "newline" /\ Len(s) = n + 2 /\ s[n + 1] = "head" /\ s[n + 2] = "tail")
  BY <1>2, <1>3, <1>5, <1>7 DEF t
<1> QED BY <1>6, <1>7

\* The line that is kept is the diagnostic when the last line of stderr is.
LEMMA LineIsDiagnostic ==
  ASSUME NEW s \in Seq(Zhihu!Atoms)
  PROVE  s = Zhihu!Diagnostic <=> Len(s) = 2 /\ s[1] = "head" /\ s[2] = "tail"
<1>1. Len(Zhihu!Diagnostic) = 2 /\ Zhihu!Diagnostic[1] = "head" /\ Zhihu!Diagnostic[2] = "tail" /\ Zhihu!Diagnostic \in Seq(Zhihu!Atoms)
  BY DEF Zhihu!Diagnostic, Zhihu!Atoms
<1>2. ASSUME Len(s) = 2, s[1] = "head", s[2] = "tail" PROVE s = Zhihu!Diagnostic
  <2>1. \A j \in 1 .. 2 : s[j] = Zhihu!Diagnostic[j]
    BY <1>1, <1>2
  <2> QED BY <1>1, <1>2, <2>1
<1> QED BY <1>1, <1>2

\* After a newline an empty line is kept.
LEMMA NewlineKeeps ==
  ASSUME NEW s \in Seq(Zhihu!Atoms)
  PROVE  /\ Len(s) + 1 \in 0 .. Len(Append(s, "newline"))
         /\ KeptFrom(Len(s) + 1, Append(s, "newline"), <<>>, FALSE)
<1> DEFINE t == Append(s, "newline")
<1>1. Len(s) \in Nat /\ Len(t) = Len(s) + 1 /\ t[Len(s) + 1] = "newline"
  BY DEF Zhihu!Atoms
<1>2. Len(<<>>) = 0
  OBVIOUS
<1> HIDE DEF t
<1>3. KeptFrom(Len(s) + 1, t, <<>>, FALSE)
  BY <1>1, <1>2 DEF KeptFrom
<1>4. Len(s) + 1 \in 0 .. Len(t)
  BY <1>1
<1> QED BY <1>3, <1>4, Zenon DEF t

\* An atom that is not a newline is kept, or the line is dropped.
LEMMA AtomKeeps ==
  ASSUME NEW s \in Seq(Zhihu!Atoms), NEW a \in Zhihu!Atoms, a # "newline", MaxLine \in Nat,
         NEW line \in Seq(Zhihu!Atoms), NEW dropped \in BOOLEAN,
         NEW n \in 0 .. Len(s), KeptFrom(n, s, line, dropped)
  PROVE  /\ n \in 0 .. Len(Append(s, a))
         /\ dropped \/ Len(line) = MaxLine => \A x : KeptFrom(n, Append(s, a), x, TRUE)
         /\ ~ dropped => KeptFrom(n, Append(s, a), Append(line, a), FALSE)
<1> DEFINE t == Append(s, a)
           next == Append(line, a)
<1>1. Len(s) \in Nat /\ Len(t) = Len(s) + 1 /\ t[Len(s) + 1] = a
      /\ \A i \in 1 .. Len(s) : t[i] = s[i]
  OBVIOUS
<1>2. Len(line) \in Nat /\ Len(next) = Len(line) + 1 /\ next[Len(line) + 1] = a
      /\ \A i \in 1 .. Len(line) : next[i] = line[i]
  OBVIOUS
<1> HIDE DEF t, next
<1>3. n \in 0 .. Len(t) /\ (n = 0 \/ t[n] = "newline") /\ \A i \in n + 1 .. Len(t) : t[i] # "newline"
  BY <1>1 DEF KeptFrom
<1>4. ASSUME dropped \/ Len(line) = MaxLine PROVE Len(t) - n > MaxLine
  BY <1>1, <1>2, <1>4 DEF KeptFrom
<1>5. ASSUME ~ dropped PROVE Len(next) = Len(t) - n /\ \A i \in 1 .. Len(next) : next[i] = t[n + i]
  <2>1. Len(line) = Len(s) - n /\ \A i \in 1 .. Len(line) : line[i] = s[n + i]
    BY <1>5 DEF KeptFrom
  <2>2. Len(next) = Len(t) - n
    BY <1>1, <1>2, <2>1
  <2>3. ASSUME NEW i \in 1 .. Len(next) PROVE next[i] = t[n + i]
    <3>1. CASE i = Len(line) + 1
      BY <1>1, <1>2, <2>1, <3>1
    <3>2. CASE i \in 1 .. Len(line)
      <4>1. n + i \in 1 .. Len(s)
        BY <1>1, <2>1, <3>2
      <4> QED BY <1>1, <1>2, <2>1, <3>2, <4>1
    <3> QED BY <1>2, <3>1, <3>2
  <2> QED BY <2>2, <2>3
<1> QED BY <1>3, <1>4, <1>5 DEF KeptFrom, t, next

\* A newline ends a diagnostic line when a diagnostic was kept, and only then.
LEMMA NewlineCounts ==
  ASSUME NEW s \in Seq(Zhihu!Atoms), MaxLine \in Nat, 2 <= MaxLine,
         NEW line \in Seq(Zhihu!Atoms), NEW dropped \in BOOLEAN,
         NEW n \in 0 .. Len(s), KeptFrom(n, s, line, dropped)
  PROVE  Cardinality(LinesOf(Append(s, "newline"))) =
           IF ~ dropped /\ line = Zhihu!Diagnostic
           THEN Cardinality(LinesOf(s)) + 1 ELSE Cardinality(LinesOf(s))
<1> DEFINE ends == Len(s) = n + 2 /\ s[n + 1] = "head" /\ s[n + 2] = "tail"
<1>1. Len(s) \in Nat /\ Len(line) \in Nat
  OBVIOUS
<1>2. (n = 0 \/ s[n] = "newline") /\ \A i \in n + 1 .. Len(s) : s[i] # "newline"
  BY DEF KeptFrom
<1>3. LinesOf(Append(s, "newline")) = IF ends THEN LinesOf(s) \cup {n + 1} ELSE LinesOf(s)
  BY <1>2, LinesGrow DEF Zhihu!Atoms
<1>4. ends <=> ~ dropped /\ line = Zhihu!Diagnostic
  <2>1. CASE dropped
    BY <1>1, <2>1 DEF KeptFrom
  <2>2. CASE ~ dropped
    <3>1. Len(line) = Len(s) - n /\ \A i \in 1 .. Len(line) : line[i] = s[n + i]
      BY <2>2 DEF KeptFrom
    <3>2. line = Zhihu!Diagnostic <=> Len(line) = 2 /\ line[1] = "head" /\ line[2] = "tail"
      BY LineIsDiagnostic
    <3>3. Len(line) = 2 <=> Len(s) = n + 2
      BY <1>1, <3>1
    <3>4. Len(line) = 2 => line[1] = s[n + 1] /\ line[2] = s[n + 2]
      <4>1. Len(line) = 2 => 1 \in 1 .. Len(line) /\ 2 \in 1 .. Len(line)
        OBVIOUS
      <4> QED BY <3>1, <4>1
    <3> QED BY <2>2, <3>2, <3>3, <3>4
  <2> QED BY <2>1, <2>2
<1>5. IsFiniteSet(LinesOf(s))
  BY LinesFinite
<1>6. ends => n + 1 \notin LinesOf(s)
  BY <1>1 DEF LinesOf
<1>7. ends => Cardinality(LinesOf(s) \cup {n + 1}) = Cardinality(LinesOf(s)) + 1
  BY <1>5, <1>6, FS_AddElement
<1> QED BY <1>3, <1>4, <1>7

\* The loop of onStderr counts the diagnostic lines.
LEMMA TakeAtomHears ==
  ASSUME ZhihuSetting, Zhihu!StreamsOK, Heard, Len(said) < StderrLimit,
         NEW a \in Zhihu!Atoms, said' = Append(said, a), Zhihu!TakeAtom(a)
  PROVE  Heard'
<1>0. /\ said \in Seq(Zhihu!Atoms) /\ MaxLine \in Nat /\ 2 <= MaxLine
      /\ stderrLine \in Seq(Zhihu!Atoms) /\ discardStderrLine \in BOOLEAN
  BY DEF Zhihu!StreamsOK, ZhihuSetting, Zhihu!Limits, Zhihu!Diagnostic
<1>1. Len(said) <= StderrLimit
  BY <1>0 DEF ZhihuSetting, Zhihu!Limits
<1>2. /\ \E n \in 0 .. Len(said) : KeptFrom(n, said, stderrLine, discardStderrLine)
      /\ diagnosticsSeen = Cardinality(LinesOf(said))
      /\ diagnostic = (diagnosticsSeen = 1)
  BY <1>1, Zenon DEF Heard
<1>3. PICK n \in 0 .. Len(said) : KeptFrom(n, said, stderrLine, discardStderrLine)
  BY <1>2
<1>4. CASE a = "newline"
  <2>1. stderrLine' = <<>> /\ discardStderrLine' = FALSE
        /\ IF discardStderrLine THEN UNCHANGED <<diagnosticsSeen, diagnostic>> ELSE Zhihu!TakeLine
    BY <1>4 DEF Zhihu!TakeAtom
  <2>2. Len(said) + 1 \in 0 .. Len(said') /\ KeptFrom(Len(said) + 1, said', stderrLine', discardStderrLine')
    BY <1>0, <1>4, <2>1, NewlineKeeps
  <2>3. Cardinality(LinesOf(said')) =
          IF ~ discardStderrLine /\ stderrLine = Zhihu!Diagnostic
          THEN Cardinality(LinesOf(said)) + 1 ELSE Cardinality(LinesOf(said))
    BY <1>0, <1>3, <1>4, NewlineCounts
  <2>4. diagnosticsSeen' = Cardinality(LinesOf(said'))
    BY <1>2, <2>1, <2>3 DEF Zhihu!TakeLine
  <2>5. diagnostic' = (diagnosticsSeen' = 1)
    BY <1>2, <2>1, Zenon DEF Zhihu!TakeLine
  <2> QED BY <2>2, <2>4, <2>5, Zenon DEF Heard
<1>5. CASE a # "newline"
  <2>1. UNCHANGED <<diagnosticsSeen, diagnostic>>
    BY <1>5 DEF Zhihu!TakeAtom
  <2>2. LinesOf(said') = LinesOf(said)
    BY <1>0, <1>3, <1>5, LinesGrow DEF KeptFrom
  <2>3. /\ n \in 0 .. Len(said')
        /\ discardStderrLine \/ Len(stderrLine) = MaxLine => \A x : KeptFrom(n, said', x, TRUE)
        /\ ~ discardStderrLine => KeptFrom(n, said', Append(stderrLine, a), FALSE)
    BY <1>0, <1>3, <1>5, AtomKeeps
  <2>4. \/ (discardStderrLine \/ Len(stderrLine) = MaxLine) /\ discardStderrLine' = TRUE
        \/ ~ discardStderrLine /\ discardStderrLine' = FALSE /\ stderrLine' = Append(stderrLine, a)
    BY <1>0, <1>5 DEF Zhihu!TakeAtom
  <2>5. KeptFrom(n, said', stderrLine', discardStderrLine')
    BY <2>3, <2>4, Zenon
  <2>6. diagnosticsSeen' = Cardinality(LinesOf(said')) /\ diagnostic' = (diagnosticsSeen' = 1)
    BY <1>2, <2>1, <2>2, Zenon
  <2> QED BY <2>3, <2>5, <2>6, Zenon DEF Heard
<1> QED BY <1>4, <1>5

\* Nothing was said at the start.
LEMMA InitHeard == ASSUME Zhihu!Init PROVE Heard
<1>1. said = <<>> /\ stderrLine = <<>> /\ discardStderrLine = FALSE
      /\ diagnosticsSeen = 0 /\ diagnostic = FALSE
  BY DEF Zhihu!Init
<1>2. Len(<<>>) = 0
  OBVIOUS
<1>3. KeptFrom(0, <<>>, <<>>, FALSE) /\ 0 \in 0 .. Len(<<>>)
  BY <1>2 DEF KeptFrom
<1>4. LinesOf(<<>>) = {}
  BY <1>2 DEF LinesOf
<1>5. Cardinality(LinesOf(<<>>)) = 0
  BY <1>4, FS_EmptySet
<1>6. FALSE = (0 = 1)
  OBVIOUS
<1> QED BY <1>1, <1>3, <1>5, <1>6, Zenon DEF Heard

\* Only a byte of stderr changes what was heard.
LEMMA NextHeard ==
  ASSUME ZhihuSetting, Zhihu!StreamsOK, Heard, [Zhihu!Next]_(Zhihu!vars)
  PROVE  Heard'
<1>1. CASE UNCHANGED <<stderrLine, discardStderrLine, diagnosticsSeen, diagnostic, said>>
  BY <1>1, Zenon DEF Heard
<1>2. CASE Zhihu!OnStderr
  <2>1. PICK a \in Zhihu!Atoms :
          /\ said' = Append(said, a)
          /\ IF Len(said') > StderrLimit
             THEN /\ Zhihu!Kill("output_limit")
                  /\ UNCHANGED <<stderrLine, discardStderrLine, diagnosticsSeen, diagnostic>>
             ELSE Zhihu!TakeAtom(a) /\ UNCHANGED Zhihu!promise
    BY <1>2, Zenon DEF Zhihu!OnStderr
  <2>2. Len(said) \in Nat /\ Len(said') = Len(said) + 1 /\ StderrLimit \in Nat
    BY <2>1 DEF Zhihu!StreamsOK, ZhihuSetting, Zhihu!Limits
  <2>3. CASE Len(said') <= StderrLimit
    BY <2>1, <2>2, <2>3, TakeAtomHears
  <2>4. CASE ~ Len(said') <= StderrLimit
    BY <2>4, Zenon DEF Heard
  <2> QED BY <2>3, <2>4
<1>3. CASE [Zhihu!Next]_(Zhihu!vars) /\ ~ Zhihu!OnStderr
  <2>1. UNCHANGED Zhihu!streams \/ Zhihu!OnStdout
    BY <1>3 DEF Zhihu!Next, Zhihu!vars, Zhihu!Execute, Zhihu!Exit, Zhihu!KillTimeout, Zhihu!OnError, Zhihu!OnTimeout, Zhihu!OnAbort, Zhihu!OnClose
  <2>2. UNCHANGED <<stderrLine, discardStderrLine, diagnosticsSeen, diagnostic, said>>
    BY <2>1 DEF Zhihu!streams, Zhihu!OnStdout
  <2> QED BY <1>1, <2>2
<1> QED BY <1>2, <1>3

\* So the diagnosis is that of the only line that is one.
LEMMA HeardTells == ASSUME ZhihuInv, Heard PROVE Zhihu!DiagnosisIsFromOneLine
<1>1. Zhihu!DiagnosticLines = LinesOf(said)
  BY LinesAreThose DEF Zhihu!DiagnosticLines, ZhihuInv, Zhihu!StreamsOK
<1>2. diagnostic \in BOOLEAN
  BY DEF ZhihuInv, Zhihu!StreamsOK
<1> QED BY <1>1, <1>2, ZhihuCounts DEF Zhihu!DiagnosisIsFromOneLine, ZhihuInv, Diagnosed, Heard

-----------------------------------------------------------------------------
(* Zhida.                                                                  *)

\* A failure is set once its child was sent a signal, if it was running; a
\* settled call has no timers; a call that settled while its child runs gave up
\* waiting for it.
Stopping ==
  /\ outcome # None => ~ timer /\ ~ killTimer
  /\ child = "none" => ~ timer /\ failure = None
  /\ child = "closed" => outcome # None
  /\ told => failure # None
  /\ failure # None /\ child = "running" => told
  /\ outcome # None /\ child = "running" => outcome = "cleanup_failed" /\ failure # None
  /\ outcome = Answer => child = "closed" /\ ~ told

ZhidaInv == Zhida!PromiseOK /\ Stopping

\* It holds at first.
LEMMA ZhidaInit == ASSUME Zhida!Call!OutcomesDiffer PROVE Zhida!Init => ZhidaInv
<1> SUFFICES ASSUME Zhida!Init PROVE ZhidaInv
  OBVIOUS
<1>1. outcome = None /\ outcome # Answer
  BY DEF Zhida!Init, Zhida!Call!OutcomesDiffer
<1> QED
  BY <1>1 DEF Zhida!Init, ZhidaInv, Zhida!PromiseOK, Stopping

\* Whoever stops the child of an unfinished call leaves a call in order; so
\* does whoever stops it again.
LEMMA StopKeeps ==
  ASSUME Zhida!Call!OutcomesDiffer, ZhidaInv, NEW error \in Zhida!Failures, Zhida!Stop(error),
         aborted' \in BOOLEAN, child' = child, child # "none"
  PROVE  ZhidaInv' /\ outcome' = outcome /\ (told => told')
<1> USE DEF ZhidaInv, Zhida!PromiseOK, Stopping
<1>1. CASE outcome # None \/ failure # None
  BY <1>1 DEF Zhida!Stop, Zhida!promise
<1>2. CASE outcome = None /\ failure = None
  <2>1. /\ failure' = error /\ timer' = FALSE /\ killTimer' = TRUE /\ outcome' = outcome
        /\ told' = (child = "running") /\ error # None
    BY <1>2 DEF Zhida!Stop, Zhida!Call!OutcomesDiffer
  <2> QED
    BY <1>2, <2>1 DEF Zhida!Call!OutcomesDiffer
<1> QED
  BY <1>1, <1>2

\* Before it is stopped a call may finish with the end of its child, and only so.
LEMMA FinishKeeps ==
  ASSUME Zhida!Call!OutcomesDiffer, ZhidaInv, NEW o \in Zhida!Failures \cup {Answer}, Zhida!Finish(o), outcome = None,
         aborted' \in BOOLEAN,
         \/ child = "none" /\ child' = "none" /\ o # Answer
         \/ child' = "closed" /\ (o = Answer => failure = None)
         \/ child' = child /\ o = "cleanup_failed" /\ failure # None
  PROVE  ZhidaInv' /\ outcome' = o /\ told' = told
<1>1. /\ outcome' = o /\ timer' = FALSE /\ killTimer' = FALSE /\ failure' = failure
      /\ told' = told /\ o # None
  BY DEF Zhida!Finish, Zhida!Call!OutcomesDiffer
<1>2. "cleanup_failed" \in Zhida!Failures
  BY DEF Zhida!Failures
<1> QED
  BY <1>1, <1>2 DEF ZhidaInv, Zhida!PromiseOK, Stopping, Zhida!Call!OutcomesDiffer

\* At the end of a child that was not stopped the call is finished.
LEMMA CloseFinishes ==
  ASSUME Zhida!Close
  PROVE  \E o \in Zhida!Failures \cup {Answer} : Zhida!Finish(o)
<1>1. ASSUME Zhida!Conclude PROVE \E o \in Zhida!Failures \cup {Answer} : Zhida!Finish(o)
  BY <1>1 DEF Zhida!Conclude, Zhida!Failures
<1> QED
  BY <1>1 DEF Zhida!Close, Zhida!Failures

\* What a chunk does to the promise: nothing, or it stops the child.
LEMMA ChunkStops ==
  ASSUME Zhida!OnStdout
  PROVE  UNCHANGED Zhida!promise \/ \E error \in Zhida!Failures : Zhida!Stop(error)
BY DEF Zhida!OnStdout, Zhida!Consume, Zhida!Failures

\* Each step of the call keeps it.
LEMMA ZhidaNext ==
  ASSUME Zhida!Call!OutcomesDiffer, ZhidaInv, [Zhida!Next]_(Zhida!vars)
  PROVE  ZhidaInv' /\ [Zhida!Call!Next]_(Zhida!Call!vars)
<1> USE DEF Zhida!Work, Zhida!Call!Next, Zhida!Call!vars, Zhida!Call!Proceed, Zhida!Call!Respond, Zhida!Call!Fail, Zhida!Call!Later
<1>0. aborted \in BOOLEAN /\ child \in {"none", "unborn", "running", "exited", "closed"}
  BY DEF ZhidaInv, Zhida!PromiseOK
<1>1. CASE Zhida!Research
  <2>1. child = "none" /\ outcome = None /\ aborted' = aborted
    BY <1>1 DEF Zhida!Research
  <2>2. ASSUME NEW o \in Zhida!Failures, Zhida!Finish(o), child' = child
        PROVE  ZhidaInv' /\ [Zhida!Call!Next]_(Zhida!Call!vars)
    <3>1. o # Answer
      BY DEF Zhida!Call!OutcomesDiffer
    <3>2. ZhidaInv' /\ outcome' = o /\ told' = told
      BY <1>0, <2>1, <2>2, <3>1, FinishKeeps
    <3> QED
      BY <2>1, <2>2, <3>2
  <2>3. CASE /\ child' \in {"unborn", "running"} /\ timer' = TRUE
             /\ UNCHANGED <<outcome, failure, killTimer, told>>
    <3>1. ZhidaInv'
      BY <2>1, <2>3 DEF ZhidaInv, Zhida!PromiseOK, Stopping
    <3> QED
      BY <2>1, <2>3, <3>1
  <2> QED
    BY <1>1, <2>2, <2>3 DEF Zhida!Research, Zhida!Failures
<1>2. CASE Zhida!Escalate
  <2>1. /\ killTimer' = FALSE
        /\ UNCHANGED <<outcome, timer, failure, told, aborted, child>>
    BY <1>2 DEF Zhida!Escalate
  <2> QED
    BY <2>1 DEF ZhidaInv, Zhida!PromiseOK, Stopping
<1>3. CASE Zhida!GiveUp
  <2>1. /\ failure # None /\ outcome = None /\ Zhida!Finish("cleanup_failed")
        /\ aborted' = aborted /\ child' = child
    BY <1>3 DEF Zhida!GiveUp
  <2>2. ZhidaInv' /\ outcome' = "cleanup_failed" /\ told' = told
    BY <1>0, <2>1, FinishKeeps DEF Zhida!Failures
  <2>3. child = "running" => told
    BY <2>1 DEF ZhidaInv, Stopping
  <2> QED
    BY <1>0, <2>1, <2>2, <2>3 DEF Zhida!Failures
<1>4. CASE Zhida!Exit
  <2>1. child = "running" /\ child' = "exited" /\ UNCHANGED <<Zhida!promise, aborted>>
    BY <1>4 DEF Zhida!Exit
  <2> QED
    BY <2>1 DEF ZhidaInv, Zhida!PromiseOK, Stopping, Zhida!promise
<1>5. ASSUME NEW error \in Zhida!Failures, Zhida!Stop(error), aborted' \in BOOLEAN, child' = child,
             child # "none"
      PROVE  ZhidaInv' /\ [Zhida!Call!Next]_(Zhida!Call!vars)
  <2>1. ZhidaInv' /\ outcome' = outcome /\ (told => told')
    BY <1>5, StopKeeps
  <2>2. outcome # None /\ child' = "running" => child = "running" /\ told
    BY <1>5 DEF ZhidaInv, Stopping
  <2> QED
    BY <1>0, <1>5, <2>1, <2>2
<1>6. ASSUME UNCHANGED <<Zhida!promise, child>>, aborted' \in BOOLEAN
      PROVE  ZhidaInv' /\ [Zhida!Call!Next]_(Zhida!Call!vars)
  BY <1>6 DEF ZhidaInv, Zhida!PromiseOK, Stopping, Zhida!promise
<1>7. CASE Zhida!OnStdout
  <2>1. child # "none" /\ child' = child /\ aborted' \in BOOLEAN
    BY <1>0, <1>7 DEF Zhida!OnStdout, Zhida!Alive
  <2> QED
    BY <1>5, <1>6, <1>7, <2>1, ChunkStops
<1>8. CASE Zhida!OnStderr
  BY <1>0, <1>5, <1>8 DEF Zhida!OnStderr, Zhida!Alive, Zhida!Failures
<1>9. CASE Zhida!OnError
  BY <1>0, <1>5, <1>9 DEF Zhida!OnError, Zhida!Failures
<1>10. CASE Zhida!OnTimeout
  BY <1>0, <1>5, <1>10 DEF Zhida!OnTimeout, Zhida!Failures, ZhidaInv, Stopping
<1>11. CASE Zhida!OnAbort
  BY <1>5, <1>6, <1>11 DEF Zhida!OnAbort, Zhida!Failures
<1>12. CASE Zhida!OnClose
  <2>1. /\ child \in {"exited", "unborn"} /\ child' = "closed" /\ aborted' = aborted
    BY <1>12 DEF Zhida!OnClose
  <2>2. CASE outcome # None
    <3>1. UNCHANGED Zhida!promise
      BY <1>12, <2>2 DEF Zhida!OnClose
    <3> QED
      BY <2>1, <2>2, <3>1 DEF ZhidaInv, Zhida!PromiseOK, Stopping, Zhida!promise
  <2>3. CASE outcome = None
    <3>1. PICK o \in Zhida!Failures \cup {Answer} : Zhida!Finish(o) /\ (o = Answer => failure = None)
      <4>1. CASE failure # None
        BY <1>12, <2>3, <4>1 DEF Zhida!OnClose, ZhidaInv, Zhida!PromiseOK, Zhida!Call!OutcomesDiffer
      <4>2. CASE failure = None
        BY <1>12, <2>3, <4>2, CloseFinishes DEF Zhida!OnClose
      <4> QED
        BY <4>1, <4>2
    <3>2. ZhidaInv' /\ outcome' = o /\ told' = told
      BY <1>0, <2>1, <2>3, <3>1, FinishKeeps
    <3>3. o = Answer => ~ told /\ child = "exited"
      BY <1>12, <2>3, <3>1 DEF Zhida!OnClose, ZhidaInv, Stopping
    <3> QED
      BY <2>1, <2>3, <3>1, <3>2, <3>3
  <2> QED
    BY <2>2, <2>3
<1>13. CASE UNCHANGED Zhida!vars
  BY <1>0, <1>6, <1>13 DEF Zhida!vars
<1> QED
  BY <1>1, <1>2, <1>3, <1>4, <1>7, <1>8, <1>9, <1>10, <1>11, <1>12, <1>13 DEF Zhida!Next

-----------------------------------------------------------------------------

\* IInv holds in every reachable state, whatever texts the client may send.
THEOREM ZhidaInvariant == ASSUME Zhida!Call!OutcomesDiffer PROVE Zhida!Spec => []ZhidaInv
<1>1. Zhida!Init => ZhidaInv
  BY ZhidaInit
<1>2. ZhidaInv /\ [Zhida!Next]_(Zhida!vars) => ZhidaInv'
  BY ZhidaNext
<1> QED
  BY <1>1, <1>2, PTL DEF Zhida!Spec

\* Every step of a call is a step of ProviderCall or none: it settles once and
\* for good, answers only from a child that ended by itself, and leaves a child
\* running only after it was sent a signal: the safety half of CallSettles.
THEOREM ZhidaKeepsItsPromise ==
  ASSUME Zhida!Call!OutcomesDiffer
  PROVE  Zhida!Spec => Zhida!Call!Init /\ [][Zhida!Call!Next]_(Zhida!Call!vars)
<1>1. Zhida!Init => Zhida!Call!Init
  BY DEF Zhida!Init, Zhida!Call!Init, Zhida!Work
<1>2. ZhidaInv /\ [Zhida!Next]_(Zhida!vars) => [Zhida!Call!Next]_(Zhida!Call!vars)
  BY ZhidaNext
<1> QED
  BY <1>1, <1>2, ZhidaInvariant, PTL DEF Zhida!Spec

-----------------------------------------------------------------------------
(* The text of an answer.                                                  *)

\* Sequences with the same pieces are the same.
LEMMA SamePieces ==
  ASSUME NEW s \in Seq(Zhida!Pieces), NEW t \in Seq(Zhida!Pieces), Len(s) = Len(t),
         \A i \in 1 .. Len(s) : s[i] = t[i]
  PROVE  s = t
OBVIOUS

\* The first pieces of a sequence.
LEMMA FirstPieces ==
  ASSUME NEW s \in Seq(Zhida!Pieces), NEW m \in 0 .. Len(s)
  PROVE  LET t == SubSeq(s, 1, m)
         IN  t \in Seq(Zhida!Pieces) /\ Len(t) = m /\ \A i \in 1 .. m : t[i] = s[i]
<1>1. Len(s) \in Nat /\ m \in Nat /\ \A i \in 1 .. m : s[i] \in Zhida!Pieces
  OBVIOUS
<1>2. /\ SubSeq(s, 1, m) \in Seq(Zhida!Pieces)
      /\ Len(SubSeq(s, 1, m)) = IF 1 <= m THEN m - 1 + 1 ELSE 0
      /\ \A i \in 1 .. m - 1 + 1 : SubSeq(s, 1, m)[i] = s[1 + i - 1]
  BY <1>1, SubSeqProperties
<1> QED BY <1>1, <1>2

\* All but the last piece.
LEMMA FrontOf ==
  ASSUME NEW s \in Seq(Zhida!Pieces), s # <<>>
  PROVE  Zhida!Front(s) = SubSeq(s, 1, Len(s) - 1) /\ Len(s) - 1 \in 0 .. Len(s) /\ Zhida!Last(s) = s[Len(s)]
BY DEF Zhida!Front, Zhida!Last

-----------------------------------------------------------------------------
(* Where the text that may be shown ends.                                  *)

\* m pieces come before the first tag, or before what may become one.
Cut(raw, m) ==
  /\ m \in 0 .. Len(raw)
  /\ \A i \in 1 .. m : ~ Zhida!IsTag(raw, i)
  /\ \/ m < Len(raw) /\ Zhida!IsTag(raw, m + 1)
     \/ m = Len(raw) - 1 /\ raw[Len(raw)] = "lt"
     \/ m = Len(raw) /\ (raw = <<>> \/ raw[Len(raw)] # "lt")

\* Without the fence before them.
Unfenced(raw, m) == IF m > 0 /\ raw[m] = "fence" THEN m - 1 ELSE m

\* BeforeSources cuts there.
LEMMA BeforeIsCut ==
  ASSUME NEW raw \in Seq(Zhida!Pieces)
  PROVE  \E m \in 0 .. Len(raw) : Cut(raw, m) /\ Zhida!BeforeSources(raw) = SubSeq(raw, 1, m)
<1> DEFINE tags == {i \in DOMAIN raw : Zhida!IsTag(raw, i)}
<1>1. Len(raw) \in Nat /\ DOMAIN raw = 1 .. Len(raw)
  OBVIOUS
<1>2. CASE tags # {}
  <2>1. tags \subseteq Nat
    BY <1>1
  <2>2. \E n \in tags : \A k \in tags : n <= k
    <3> HIDE DEF tags
    <3> QED BY <1>2, <2>1, LeastNumber
  <2> DEFINE n == CHOOSE i \in tags : \A j \in tags : i <= j
  <2>3. n \in tags /\ \A j \in tags : n <= j
    <3> HIDE DEF tags
    <3> QED BY <2>2
  <2>4. Zhida!BeforeSources(raw) = SubSeq(raw, 1, n - 1)
    BY <1>2 DEF Zhida!BeforeSources
  <2> HIDE DEF n
  <2>5. n \in 1 .. Len(raw) /\ Zhida!IsTag(raw, n) /\ \A j \in 1 .. n - 1 : ~ Zhida!IsTag(raw, j)
    BY <1>1, <2>3
  <2>6. n - 1 \in 0 .. Len(raw) /\ n - 1 < Len(raw) /\ (n - 1) + 1 = n
    BY <1>1, <2>5
  <2> QED BY <2>4, <2>5, <2>6 DEF Cut
<1>3. CASE tags = {} /\ raw # <<>> /\ Zhida!Last(raw) = "lt"
  <2>1. Zhida!BeforeSources(raw) = SubSeq(raw, 1, Len(raw) - 1) /\ Len(raw) - 1 \in 0 .. Len(raw)
        /\ raw[Len(raw)] = "lt"
    BY <1>3, FrontOf DEF Zhida!BeforeSources
  <2>2. \A i \in 1 .. Len(raw) - 1 : ~ Zhida!IsTag(raw, i)
    BY <1>1, <1>3
  <2> QED BY <2>1, <2>2 DEF Cut
<1>4. CASE tags = {} /\ ~ (raw # <<>> /\ Zhida!Last(raw) = "lt")
  <2>1. Zhida!BeforeSources(raw) = raw
    BY <1>4 DEF Zhida!BeforeSources
  <2>2. raw = SubSeq(raw, 1, Len(raw))
    BY SubSeqFull
  <2>3. \A i \in 1 .. Len(raw) : ~ Zhida!IsTag(raw, i)
    BY <1>1, <1>4
  <2>4. raw = <<>> \/ raw[Len(raw)] # "lt"
    BY <1>4 DEF Zhida!Last
  <2>5. Len(raw) \in 0 .. Len(raw)
    BY <1>1
  <2>6. Cut(raw, Len(raw))
    BY <1>1, <2>3, <2>4, <2>5 DEF Cut
  <2> QED BY <2>1, <2>2, <2>5, <2>6
<1> QED BY <1>2, <1>3, <1>4

\* Taking the fence from the end of the first m pieces.
LEMMA UnfencedIs ==
  ASSUME NEW raw \in Seq(Zhida!Pieces), NEW m \in 0 .. Len(raw)
  PROVE  /\ Unfenced(raw, m) \in 0 .. m
         /\ Zhida!WithoutPendingFence(SubSeq(raw, 1, m)) = SubSeq(raw, 1, Unfenced(raw, m))
<1> DEFINE t == SubSeq(raw, 1, m)
           u == Unfenced(raw, m)
<1>1. t \in Seq(Zhida!Pieces) /\ Len(t) = m /\ \A i \in 1 .. m : t[i] = raw[i]
  BY FirstPieces
<1>2. m \in Nat /\ Len(raw) \in Nat /\ u \in 0 .. m /\ u \in 0 .. Len(raw)
  BY DEF Unfenced
<1>3. SubSeq(raw, 1, u) \in Seq(Zhida!Pieces) /\ Len(SubSeq(raw, 1, u)) = u
      /\ \A i \in 1 .. u : SubSeq(raw, 1, u)[i] = raw[i]
  BY <1>2, FirstPieces
<1> HIDE DEF t, u
<1>4. t # <<>> <=> m > 0
  BY <1>1, <1>2
<1>5. CASE t # <<>> /\ Zhida!Last(t) = "fence"
  <2>1. u = m - 1 /\ Zhida!Front(t) = SubSeq(t, 1, m - 1) /\ m - 1 \in 0 .. Len(t)
    BY <1>1, <1>2, <1>4, <1>5, FrontOf DEF Unfenced, u
  <2>2. Zhida!Front(t) \in Seq(Zhida!Pieces) /\ Len(Zhida!Front(t)) = u /\ \A i \in 1 .. u : Zhida!Front(t)[i] = t[i]
    BY <1>1, <2>1, FirstPieces
  <2>3. \A i \in 1 .. u : Zhida!Front(t)[i] = SubSeq(raw, 1, u)[i]
    BY <1>1, <1>2, <1>3, <2>1, <2>2
  <2>4. Zhida!Front(t) = SubSeq(raw, 1, u)
    BY <1>3, <2>2, <2>3, SamePieces
  <2> QED BY <1>2, <1>5, <2>4 DEF Zhida!WithoutPendingFence, t, u
<1>6. CASE ~ (t # <<>> /\ Zhida!Last(t) = "fence")
  <2>1. u = m
    BY <1>1, <1>2, <1>4, <1>6, FrontOf DEF Unfenced, u
  <2> QED BY <1>2, <1>6, <2>1 DEF Zhida!WithoutPendingFence, t, u
<1> QED BY <1>5, <1>6

\* What may be shown is cut, without a fence.
LEMMA VisibleIsCut ==
  ASSUME NEW raw \in Seq(Zhida!Pieces)
  PROVE  \E m \in 0 .. Len(raw) :
           /\ Cut(raw, m) /\ Unfenced(raw, m) \in 0 .. m
           /\ Zhida!VisiblePrefix(raw) = SubSeq(raw, 1, Unfenced(raw, m))
BY BeforeIsCut, UnfencedIs DEF Zhida!VisiblePrefix

\* One more piece never takes back what could be shown.
LEMMA CutGrows ==
  ASSUME NEW raw \in Seq(Zhida!Pieces), NEW p \in Zhida!Pieces, NEW m, NEW k,
         Cut(raw, m), Cut(Append(raw, p), k)
  PROVE  Unfenced(raw, m) <= Unfenced(Append(raw, p), k)
<1> DEFINE t == Append(raw, p)
<1>1. /\ Len(raw) \in Nat /\ Len(t) = Len(raw) + 1 /\ t[Len(raw) + 1] = p
      /\ \A i \in 1 .. Len(raw) : t[i] = raw[i]
      /\ t # <<>> /\ (raw = <<>> <=> Len(raw) = 0)
  OBVIOUS
<1> HIDE DEF t
<1>2. m \in 0 .. Len(raw) /\ k \in 0 .. Len(raw) + 1 /\ Cut(t, k)
  BY <1>1 DEF Cut, t
<1>3. \A i \in 1 .. Len(raw) - 1 : Zhida!IsTag(t, i) <=> Zhida!IsTag(raw, i)
  BY <1>1 DEF Zhida!IsTag
<1>4. Len(raw) > 0 => (Zhida!IsTag(t, Len(raw)) <=> raw[Len(raw)] = "lt" /\ p = "sources")
  BY <1>1 DEF Zhida!IsTag
<1>5. ~ Zhida!IsTag(t, Len(raw) + 1) /\ ~ Zhida!IsTag(raw, Len(raw))
  BY <1>1 DEF Zhida!IsTag
<1>6. CASE m < Len(raw) /\ Zhida!IsTag(raw, m + 1)
  <2>1. m + 1 \in 1 .. Len(raw) - 1
    BY <1>1, <1>2, <1>6 DEF Zhida!IsTag
  <2>2. Zhida!IsTag(t, m + 1) /\ \A i \in 1 .. m : ~ Zhida!IsTag(t, i)
    BY <1>1, <1>2, <1>3, <1>6, <2>1 DEF Cut
  <2>3. k <= m
    BY <1>2, <2>2 DEF Cut
  <2>4. ~ k < m
    BY <1>1, <1>2, <2>1, <2>2 DEF Cut
  <2>5. k = m
    BY <1>2, <2>3, <2>4
  <2> QED BY <1>1, <1>2, <2>5 DEF Unfenced, t
<1>7. CASE m = Len(raw) - 1 /\ raw[Len(raw)] = "lt" /\ p = "sources"
  <2>1. Len(raw) \in 1 .. Len(raw) /\ Zhida!IsTag(t, m + 1) /\ \A i \in 1 .. m : ~ Zhida!IsTag(t, i)
    BY <1>1, <1>2, <1>3, <1>4, <1>7 DEF Cut
  <2>2. k <= m
    BY <1>1, <1>2, <1>7, <2>1 DEF Cut
  <2>3. ~ k < m
    BY <1>1, <1>2, <1>7, <2>1 DEF Cut
  <2>4. k = m
    BY <1>2, <2>2, <2>3
  <2> QED BY <1>1, <1>2, <2>4 DEF Unfenced, t
<1>8. CASE m \in {Len(raw) - 1, Len(raw)} /\ ~ (m < Len(raw) /\ Zhida!IsTag(raw, m + 1))
           /\ ~ (m = Len(raw) - 1 /\ raw[Len(raw)] = "lt" /\ p = "sources")
  <2>1. \A i \in 1 .. Len(raw) + 1 : ~ Zhida!IsTag(t, i)
    BY <1>1, <1>2, <1>3, <1>4, <1>5, <1>8 DEF Cut
  <2>2. k = IF p = "lt" THEN Len(raw) ELSE Len(raw) + 1
    BY <1>1, <1>2, <2>1 DEF Cut
  <2>3. CASE m = Len(raw)
    BY <1>1, <1>2, <2>2, <2>3 DEF Unfenced, t
  <2>4. CASE m = Len(raw) - 1
    <3>1. raw[Len(raw)] = "lt" /\ Len(raw) \in 1 .. Len(raw)
      BY <1>1, <1>2, <1>8, <2>4 DEF Cut
    <3> QED BY <1>1, <1>2, <2>2, <2>4, <3>1 DEF Unfenced, t
  <2> QED BY <1>8, <2>3, <2>4
<1> QED BY <1>1, <1>2, <1>6, <1>7, <1>8 DEF Cut

\* What acceptFrame adds to what was shown makes it all that may be.
LEMMA ShownGrows ==
  ASSUME NEW raw \in Seq(Zhida!Pieces), NEW p \in Zhida!Pieces
  PROVE  LET was == Zhida!VisiblePrefix(raw)
             visible == Zhida!VisiblePrefix(Append(raw, p))
         IN  visible = IF Len(visible) > Len(was)
                       THEN was \o SubSeq(visible, Len(was) + 1, Len(visible)) ELSE was
<1> DEFINE t == Append(raw, p)
<1>1. /\ t \in Seq(Zhida!Pieces) /\ Len(raw) \in Nat /\ Len(t) = Len(raw) + 1
      /\ \A i \in 1 .. Len(raw) : t[i] = raw[i]
  OBVIOUS
<1>2. PICK m \in 0 .. Len(raw) :
        /\ Cut(raw, m) /\ Unfenced(raw, m) \in 0 .. m
        /\ Zhida!VisiblePrefix(raw) = SubSeq(raw, 1, Unfenced(raw, m))
  BY VisibleIsCut
<1>3. PICK k \in 0 .. Len(t) :
        /\ Cut(t, k) /\ Unfenced(t, k) \in 0 .. k
        /\ Zhida!VisiblePrefix(t) = SubSeq(t, 1, Unfenced(t, k))
  BY <1>1, VisibleIsCut
<1>4. Unfenced(raw, m) <= Unfenced(t, k)
  BY <1>2, <1>3, CutGrows
<1> DEFINE u == Unfenced(raw, m)
           w == Unfenced(t, k)
           was == Zhida!VisiblePrefix(raw)
           visible == Zhida!VisiblePrefix(t)
<1>5. u \in 0 .. Len(raw) /\ w \in 0 .. Len(t) /\ u <= w
  BY <1>1, <1>2, <1>3, <1>4
<1> HIDE DEF u, w, t
<1>6. was \in Seq(Zhida!Pieces) /\ Len(was) = u /\ \A i \in 1 .. u : was[i] = raw[i]
  BY <1>2, <1>5, FirstPieces DEF u
<1>7. visible \in Seq(Zhida!Pieces) /\ Len(visible) = w /\ \A i \in 1 .. w : visible[i] = t[i]
  BY <1>1, <1>3, <1>5, FirstPieces DEF w
<1> HIDE DEF was, visible
<1>8. \A i \in 1 .. u : was[i] = visible[i]
  BY <1>1, <1>5, <1>6, <1>7
<1>9. CASE w > u
  <2> DEFINE rest == SubSeq(visible, u + 1, w)
  <2>1. rest \in Seq(Zhida!Pieces) /\ Len(rest) = w - u /\ \A i \in 1 .. w - u : rest[i] = visible[u + i]
    <3>1. u + 1 \in Int /\ w \in Int /\ \A i \in u + 1 .. w : visible[i] \in Zhida!Pieces
      BY <1>1, <1>5, <1>7
    <3>2. /\ rest \in Seq(Zhida!Pieces) /\ Len(rest) = IF u + 1 <= w THEN w - (u + 1) + 1 ELSE 0
          /\ \A i \in 1 .. w - (u + 1) + 1 : rest[i] = visible[(u + 1) + i - 1]
      BY <3>1, SubSeqProperties
    <3>3. u \in Nat /\ w \in Nat
      BY <1>1, <1>5
    <3> HIDE DEF rest
    <3>4. w - (u + 1) + 1 = w - u /\ u + 1 <= w /\ \A i \in 1 .. w - u : (u + 1) + i - 1 = u + i
      BY <1>9, <3>3
    <3> QED BY <3>2, <3>4
  <2> HIDE DEF rest
  <2>2. was \o rest \in Seq(Zhida!Pieces) /\ Len(was \o rest) = w
        /\ (\A i \in 1 .. u : (was \o rest)[i] = was[i])
        /\ \A i \in 1 .. w - u : (was \o rest)[u + i] = rest[i]
    <3>1. was \o rest \in Seq(Zhida!Pieces) /\ Len(was \o rest) = Len(was) + Len(rest)
          /\ \A i \in 1 .. Len(was) + Len(rest) :
               (was \o rest)[i] = IF i <= Len(was) THEN was[i] ELSE rest[i - Len(was)]
      BY <1>6, <2>1, ConcatProperties
    <3>2. u \in Nat /\ w \in Nat
      BY <1>1, <1>5
    <3>3. ASSUME NEW i \in 1 .. w - u PROVE (was \o rest)[u + i] = rest[i]
      <4>1. u + i \in 1 .. u + (w - u) /\ ~ u + i <= u /\ (u + i) - u = i
        BY <3>2
      <4> QED BY <1>6, <2>1, <3>1, <4>1
    <3>4. \A i \in 1 .. u : (was \o rest)[i] = was[i]
      BY <1>6, <2>1, <3>1, <3>2, <1>9
    <3>5. Len(was \o rest) = w
      <4>1. Len(was) = u /\ Len(rest) = w - u
        BY <1>6, <2>1
      <4>2. u + (w - u) = w
        BY <3>2
      <4> QED BY <3>1, <4>1, <4>2, Zenon
    <3> QED BY <3>1, <3>3, <3>4, <3>5, Zenon
  <2>3. \A i \in 1 .. w : (was \o rest)[i] = visible[i]
    <3>1. ASSUME NEW i \in 1 .. w PROVE (was \o rest)[i] = visible[i]
      <4>1. CASE i <= u
        <5>1. i \in 1 .. u
          BY <1>1, <1>5, <4>1
        <5> QED BY <1>8, <2>2, <5>1
      <4>2. CASE i > u
        <5>1. i - u \in 1 .. w - u /\ u + (i - u) = i
          BY <1>1, <1>5, <4>2
        <5>2. (was \o rest)[u + (i - u)] = rest[i - u] /\ rest[i - u] = visible[u + (i - u)]
          BY <2>1, <2>2, <5>1
        <5> QED BY <5>1, <5>2, Zenon
      <4>3. i <= u \/ i > u
        BY <1>1, <1>5
      <4> QED BY <4>1, <4>2, <4>3, Zenon
    <3> QED BY <3>1
  <2>4. visible = was \o rest
    BY <1>7, <2>2, <2>3, SamePieces
  <2> QED BY <1>6, <1>7, <1>9, <2>4 DEF rest, was, visible, t
<1>10. CASE w = u
  <2>1. visible = was
    BY <1>6, <1>7, <1>8, <1>10, SamePieces
  <2> QED BY <1>6, <1>7, <1>10, <2>1, <1>1, <1>5 DEF was, visible, t
<1> QED BY <1>1, <1>5, <1>9, <1>10

-----------------------------------------------------------------------------
(* What parseAnswer keeps.                                                 *)

\* What has been made of the pieces read so far.
Readings == [kept : Seq(Zhida!Pieces), from : Nat, inside : BOOLEAN, after : BOOLEAN]

\* Nothing but t was read, and no block of sources.
Plainly(t) == [kept |-> t, from |-> 0, inside |-> FALSE, after |-> FALSE]

\* What WithoutPendingFence leaves.
LEMMA UnfencedPieces ==
  ASSUME NEW t \in Seq(Zhida!Pieces)
  PROVE  /\ Zhida!WithoutPendingFence(t) \in Seq(Zhida!Pieces)
         /\ Len(Zhida!WithoutPendingFence(t)) \in Nat
         /\ Len(Zhida!WithoutPendingFence(t)) <= Len(t)
         /\ Len(t) - 1 <= Len(Zhida!WithoutPendingFence(t))
         /\ \A i \in 1 .. Len(Zhida!WithoutPendingFence(t)) : Zhida!WithoutPendingFence(t)[i] = t[i]
<1>1. Len(t) \in Nat
  OBVIOUS
<1>2. CASE t # <<>> /\ Zhida!Last(t) = "fence"
  <2>1. Zhida!Front(t) \in Seq(Zhida!Pieces) /\ Len(Zhida!Front(t)) = Len(t) - 1
        /\ \A i \in 1 .. Len(t) - 1 : Zhida!Front(t)[i] = t[i]
    BY <1>2, FrontOf, FirstPieces
  <2> QED BY <1>1, <1>2, <2>1 DEF Zhida!WithoutPendingFence
<1>3. CASE ~ (t # <<>> /\ Zhida!Last(t) = "fence")
  BY <1>1, <1>3 DEF Zhida!WithoutPendingFence
<1> QED BY <1>2, <1>3

\* Reading one more piece keeps a reading a reading, and its first n pieces
\* when they come from before the end of a block.
LEMMA ReadPieceKeeps ==
  ASSUME NEW s \in Readings, NEW p \in Zhida!Pieces
  PROVE  /\ Zhida!ReadPiece(s, p) \in Readings
         /\ \A n \in 0 .. Len(s.kept) : n <= s.from =>
              /\ n <= Zhida!ReadPiece(s, p).from /\ n <= Len(Zhida!ReadPiece(s, p).kept)
              /\ \A i \in 1 .. n : Zhida!ReadPiece(s, p).kept[i] = s.kept[i]
<1>1. s.kept \in Seq(Zhida!Pieces) /\ s.from \in Nat /\ Len(s.kept) \in Nat
  BY DEF Readings
<1>2. CASE s.inside
  <2>1. Zhida!ReadPiece(s, p) = IF p = "end" THEN [s EXCEPT !.inside = FALSE, !.after = TRUE] ELSE s
    BY <1>2 DEF Zhida!ReadPiece
  <2>2. /\ Zhida!ReadPiece(s, p) \in Readings
        /\ Zhida!ReadPiece(s, p).kept = s.kept /\ Zhida!ReadPiece(s, p).from = s.from
    BY <2>1 DEF Readings
  <2> QED BY <1>1, <2>2
<1>3. CASE ~ s.inside /\ p = "sources" /\ Len(s.kept) > s.from /\ Zhida!Last(s.kept) = "lt"
  <2> DEFINE k == Zhida!Front(s.kept)
             l == IF Len(k) > s.from THEN Zhida!WithoutPendingFence(k) ELSE k
  <2>1. k \in Seq(Zhida!Pieces) /\ Len(k) = Len(s.kept) - 1 /\ \A i \in 1 .. Len(k) : k[i] = s.kept[i]
    <3>1. s.kept # <<>>
      BY <1>1, <1>3
    <3>2. k = SubSeq(s.kept, 1, Len(s.kept) - 1) /\ Len(s.kept) - 1 \in 0 .. Len(s.kept)
      BY <1>1, <3>1, FrontOf
    <3> HIDE DEF k
    <3> QED BY <1>1, <3>2, FirstPieces
  <2> HIDE DEF k
  <2>2. /\ l \in Seq(Zhida!Pieces) /\ Len(l) \in Nat /\ Len(l) <= Len(k)
        /\ s.from <= Len(l) /\ \A i \in 1 .. Len(l) : l[i] = k[i]
    <3>1. CASE Len(k) > s.from
      BY <1>1, <2>1, <3>1, UnfencedPieces
    <3>2. CASE ~ Len(k) > s.from
      BY <1>1, <1>3, <2>1, <3>2
    <3> QED BY <3>1, <3>2
  <2> HIDE DEF l
  <2>3. Zhida!ReadPiece(s, p) = [kept |-> l, from |-> Len(l), inside |-> TRUE, after |-> FALSE]
    BY <1>3 DEF Zhida!ReadPiece, k, l
  <2>4. Zhida!ReadPiece(s, p) \in Readings
    BY <2>2, <2>3 DEF Readings
  <2>5. ASSUME NEW n \in 0 .. Len(s.kept), n <= s.from
        PROVE  n <= Len(l) /\ \A i \in 1 .. n : l[i] = s.kept[i]
    BY <1>1, <2>1, <2>2, <2>5
  <2> QED BY <2>3, <2>4, <2>5
<1>4. CASE ~ s.inside /\ ~ (p = "sources" /\ Len(s.kept) > s.from /\ Zhida!Last(s.kept) = "lt")
           /\ s.after /\ p = "fence"
  <2>1. Zhida!ReadPiece(s, p) = [s EXCEPT !.after = FALSE]
    BY <1>4 DEF Zhida!ReadPiece
  <2>2. /\ Zhida!ReadPiece(s, p) \in Readings
        /\ Zhida!ReadPiece(s, p).kept = s.kept /\ Zhida!ReadPiece(s, p).from = s.from
    BY <2>1 DEF Readings
  <2> QED BY <1>1, <2>2
<1>5. CASE ~ s.inside /\ ~ (p = "sources" /\ Len(s.kept) > s.from /\ Zhida!Last(s.kept) = "lt")
           /\ ~ (s.after /\ p = "fence")
  <2>1. Zhida!ReadPiece(s, p) = [s EXCEPT !.kept = Append(@, p), !.after = FALSE]
    BY <1>5 DEF Zhida!ReadPiece
  <2>2. Append(s.kept, p) \in Seq(Zhida!Pieces) /\ Len(Append(s.kept, p)) = Len(s.kept) + 1
        /\ \A i \in 1 .. Len(s.kept) : Append(s.kept, p)[i] = s.kept[i]
    BY <1>1
  <2>3. Zhida!ReadPiece(s, p).kept = Append(s.kept, p) /\ Zhida!ReadPiece(s, p).from = s.from
        /\ Zhida!ReadPiece(s, p) \in Readings
    BY <2>1, <2>2 DEF Readings
  <2> QED BY <1>1, <2>2, <2>3
<1> QED BY <1>2, <1>3, <1>4, <1>5

\* The recursion of Reading is a definition, and every reading is one.
LEMMA ReadingIs ==
  ASSUME NEW raw \in Seq(Zhida!Pieces)
  PROVE  /\ \A k \in 0 .. Len(raw) : Zhida!Reading(raw)[k] \in Readings
         /\ Zhida!Reading(raw)[0] = Plainly(<<>>)
         /\ \A k \in 1 .. Len(raw) : Zhida!Reading(raw)[k] = Zhida!ReadPiece(Zhida!Reading(raw)[k - 1], raw[k])
<1> DEFINE n == Len(raw)
           b == Plainly(<<>>)
           F == [x \in Readings \X (1 .. n) |-> Zhida!ReadPiece(x[1], raw[x[2]])]
           Value(g, k) == IF k = 0 THEN [kept |-> <<>>, from |-> 0, inside |-> FALSE, after |-> FALSE]
                          ELSE Zhida!ReadPiece(g[k - 1], raw[k])
           IsReading(g) == g = [k \in 0 .. n |-> Value(g, k)]
<1>1. n \in Nat /\ \A k \in 1 .. n : raw[k] \in Zhida!Pieces
  OBVIOUS
<1>2. b \in Readings
  BY DEF Readings, Plainly
<1>3. \A v \in Readings, k \in 1 .. n : F[<<v, k>>] = Zhida!ReadPiece(v, raw[k])
  OBVIOUS
<1> HIDE DEF F, n, b
<1>4. \A v \in Readings : \A k \in 1 .. n : F[<<v, k>>] \in Readings
  BY <1>1, <1>3, ReadPieceKeeps
<1>5. PICK g \in [0 .. n -> Readings] : IsRunOf(g, b, n, F)
  BY <1>1, <1>2, <1>4, RecursionExists
<1>6. ASSUME NEW k \in 0 .. n PROVE g[k] = Value(g, k)
  <2>1. CASE k = 0
    BY <1>5, <2>1 DEF b, Plainly, IsRunOf
  <2>2. CASE k # 0
    <3>1. k \in 1 .. n /\ k - 1 \in 0 .. n
      BY <1>1, <2>2
    <3>2. g[k] = F[<<g[k - 1], k>>] /\ g[k - 1] \in Readings
      BY <1>5, <3>1 DEF IsRunOf
    <3> QED BY <1>3, <2>2, <3>1, <3>2
  <2> QED BY <2>1, <2>2
<1>7. IsReading(g)
  <2>1. g = [k \in 0 .. n |-> g[k]]
    OBVIOUS
  <2> HIDE DEF Value
  <2> QED BY <1>6, <2>1, Zenon
<1>8. Zhida!Reading(raw) = CHOOSE h : IsReading(h)
  BY DEF Zhida!Reading, n
<1> HIDE DEF IsReading
<1>9. IsReading(Zhida!Reading(raw))
  BY <1>7, <1>8
<1> DEFINE h == Zhida!Reading(raw)
<1>10. h = [k \in 0 .. n |-> Value(h, k)]
  BY <1>9 DEF IsReading
<1> HIDE DEF h
<1>11. \A k \in 0 .. n : h[k] = Value(h, k)
  BY <1>10
<1>12. h[0] = b /\ \A k \in 1 .. n : h[k] = Zhida!ReadPiece(h[k - 1], raw[k])
  BY <1>1, <1>11 DEF b, Plainly
<1> DEFINE S == {k \in 0 .. n : h[k] \in Readings}
<1>13. 0 \in S
  BY <1>1, <1>2, <1>12
<1>14. ASSUME NEW k \in 0 .. n - 1, k \in S PROVE k + 1 \in S
  <2>1. k + 1 \in 1 .. n /\ (k + 1) - 1 = k /\ k + 1 \in 0 .. n
    BY <1>1
  <2>2. h[k + 1] = Zhida!ReadPiece(h[k], raw[k + 1])
    BY <1>12, <2>1
  <2> QED BY <1>1, <1>14, <2>1, <2>2, ReadPieceKeeps
<1>15. 0 .. n \subseteq S
  <2> HIDE DEF S
  <2> QED BY <1>1, <1>13, <1>14, SegmentInduction
<1> QED BY <1>12, <1>15 DEF n, b, h

\* A prefix has the pieces of the whole.
LEMMA PrefixIs ==
  ASSUME NEW s \in Seq(Zhida!Pieces), NEW t \in Seq(Zhida!Pieces), Len(s) <= Len(t),
         \A i \in 1 .. Len(s) : s[i] = t[i]
  PROVE  Zhida!IsPrefix(s, t)
<1>1. Len(s) \in Nat /\ Len(s) \in 0 .. Len(s) /\ Len(s) \in 0 .. Len(t)
  OBVIOUS
<1>2. SubSeq(s, 1, Len(s)) \in Seq(Zhida!Pieces) /\ Len(SubSeq(s, 1, Len(s))) = Len(s)
      /\ \A i \in 1 .. Len(s) : SubSeq(s, 1, Len(s))[i] = s[i]
  BY <1>1, FirstPieces
<1>3. SubSeq(t, 1, Len(s)) \in Seq(Zhida!Pieces) /\ Len(SubSeq(t, 1, Len(s))) = Len(s)
      /\ \A i \in 1 .. Len(s) : SubSeq(t, 1, Len(s))[i] = t[i]
  BY <1>1, FirstPieces
<1>4. SubSeq(s, 1, Len(s)) = SubSeq(t, 1, Len(s))
  <2> DEFINE a == SubSeq(s, 1, Len(s))
             b == SubSeq(t, 1, Len(s))
  <2>1. a \in Seq(Zhida!Pieces) /\ b \in Seq(Zhida!Pieces) /\ Len(a) = Len(b) /\ \A i \in 1 .. Len(a) : a[i] = b[i]
    BY <1>1, <1>2, <1>3
  <2> HIDE DEF a, b
  <2>2. a = b
    BY <2>1, SamePieces
  <2> QED BY <2>2 DEF a, b
<1> QED BY <1>4 DEF Zhida!IsPrefix

\* Before the first tag every piece is kept.
LEMMA ReadPlain ==
  ASSUME NEW t \in Seq(Zhida!Pieces), NEW p \in Zhida!Pieces, ~ (p = "sources" /\ t # <<>> /\ Zhida!Last(t) = "lt")
  PROVE  Zhida!ReadPiece(Plainly(t), p) = Plainly(Append(t, p))
<1>1. Len(t) > 0 <=> t # <<>>
  OBVIOUS
<1> QED BY <1>1 DEF Zhida!ReadPiece, Plainly

\* A tag begins a block, and takes a fence before it.
LEMMA ReadTag ==
  ASSUME NEW t \in Seq(Zhida!Pieces), t # <<>>, Zhida!Last(t) = "lt"
  PROVE  LET l == Zhida!WithoutPendingFence(Zhida!Front(t))
         IN  Zhida!ReadPiece(Plainly(t), "sources") = [kept |-> l, from |-> Len(l), inside |-> TRUE, after |-> FALSE]
<1>1. Len(t) > 0 /\ Zhida!Front(t) \in Seq(Zhida!Pieces)
  BY FrontOf, FirstPieces
<1>2. Len(Zhida!Front(t)) > 0 \/ Zhida!WithoutPendingFence(Zhida!Front(t)) = Zhida!Front(t)
  BY <1>1 DEF Zhida!WithoutPendingFence
<1>3. Plainly(t).kept = t /\ Plainly(t).from = 0 /\ ~ Plainly(t).inside
  BY DEF Plainly
<1>4. Zhida!ReadPiece(Plainly(t), "sources") =
        LET k == Zhida!Front(t)
            l == IF Len(k) > 0 THEN Zhida!WithoutPendingFence(k) ELSE k
        IN  [kept |-> l, from |-> Len(l), inside |-> TRUE, after |-> FALSE]
  BY <1>1, <1>3 DEF Zhida!ReadPiece
<1>5. (IF Len(Zhida!Front(t)) > 0 THEN Zhida!WithoutPendingFence(Zhida!Front(t)) ELSE Zhida!Front(t)) = Zhida!WithoutPendingFence(Zhida!Front(t))
  BY <1>2
<1> QED BY <1>4, <1>5

\* So what was read before the first tag is kept.
LEMMA ReadBeforeTag ==
  ASSUME NEW raw \in Seq(Zhida!Pieces), NEW j \in 0 .. Len(raw), \A i \in 1 .. j - 1 : ~ Zhida!IsTag(raw, i)
  PROVE  Zhida!Reading(raw)[j] = Plainly(SubSeq(raw, 1, j))
<1> DEFINE n == Len(raw)
           h == Zhida!Reading(raw)
           first(k) == SubSeq(raw, 1, k)
           S == {k \in 0 .. n : k <= j => h[k] = Plainly(first(k))}
<1>1. n \in Nat /\ h[0] = Plainly(<<>>) /\ \A k \in 1 .. n : h[k] = Zhida!ReadPiece(h[k - 1], raw[k])
  BY ReadingIs
<1>2. first(0) = <<>>
  BY SubSeqEmpty
<1> HIDE DEF h
<1>3. 0 \in S
  <2> HIDE DEF first
  <2>1. h[0] = Plainly(first(0)) /\ 0 \in 0 .. n
    BY <1>1, <1>2
  <2> QED BY <2>1
<1>4. ASSUME NEW k \in 0 .. n - 1, k \in S PROVE k + 1 \in S
  <2>1. k + 1 \in 1 .. n /\ (k + 1) - 1 = k /\ k + 1 \in 0 .. n /\ k \in 0 .. n /\ raw[k + 1] \in Zhida!Pieces
    BY <1>1
  <2>2. SUFFICES ASSUME k + 1 <= j PROVE h[k + 1] = Plainly(first(k + 1))
    BY <2>1
  <2>3. h[k] = Plainly(first(k))
    BY <1>1, <1>4, <2>2
  <2>4. first(k) \in Seq(Zhida!Pieces) /\ Len(first(k)) = k /\ \A i \in 1 .. k : first(k)[i] = raw[i]
    BY <2>1, FirstPieces
  <2>5. first(k + 1) \in Seq(Zhida!Pieces) /\ Len(first(k + 1)) = k + 1
        /\ \A i \in 1 .. k + 1 : first(k + 1)[i] = raw[i]
    BY <2>1, FirstPieces
  <2> HIDE DEF first
  <2>6. first(k + 1) = Append(first(k), raw[k + 1])
    <3> DEFINE a == Append(first(k), raw[k + 1])
    <3>1. a \in Seq(Zhida!Pieces) /\ Len(a) = k + 1 /\ a[k + 1] = raw[k + 1] /\ \A i \in 1 .. k : a[i] = first(k)[i]
      BY <2>1, <2>4
    <3> HIDE DEF a
    <3>2. \A i \in 1 .. k + 1 : i \in 1 .. k \/ i = k + 1
      BY <1>1
    <3>3. \A i \in 1 .. k + 1 : a[i] = first(k + 1)[i]
      BY <2>4, <2>5, <3>1, <3>2
    <3>4. first(k + 1) = a
      BY <2>5, <3>1, <3>3, SamePieces
    <3> QED BY <3>4 DEF a
  <2>7. ~ (raw[k + 1] = "sources" /\ first(k) # <<>> /\ Zhida!Last(first(k)) = "lt")
    <3>1. SUFFICES ASSUME raw[k + 1] = "sources", first(k) # <<>>, Zhida!Last(first(k)) = "lt" PROVE FALSE
      OBVIOUS
    <3>2. k \in 1 .. j - 1 /\ k \in 1 .. k
      BY <1>1, <2>1, <2>2, <2>4, <3>1
    <3>3. raw[k] = "lt"
      BY <2>4, <3>1, <3>2, FrontOf
    <3>4. Zhida!IsTag(raw, k)
      BY <1>1, <2>1, <3>1, <3>3 DEF Zhida!IsTag
    <3> QED BY <3>2, <3>4
  <2>8. h[k + 1] = Zhida!ReadPiece(h[k], raw[k + 1])
    BY <1>1, <2>1
  <2> QED BY <2>1, <2>3, <2>4, <2>6, <2>7, <2>8, ReadPlain
<1>5. 0 .. n \subseteq S
  <2> HIDE DEF S
  <2> QED BY <1>1, <1>3, <1>4, SegmentInduction
<1> QED BY <1>1, <1>5 DEF h

\* After the first tag what came before it stays.
LEMMA ReadAfterTag ==
  ASSUME NEW raw \in Seq(Zhida!Pieces), NEW m \in 0 .. Len(raw), m < Len(raw), Zhida!IsTag(raw, m + 1),
         \A i \in 1 .. m : ~ Zhida!IsTag(raw, i)
  PROVE  LET u == Unfenced(raw, m)
             kept == Zhida!WithoutSources(raw)
         IN  kept \in Seq(Zhida!Pieces) /\ u <= Len(kept) /\ \A i \in 1 .. u : kept[i] = raw[i]
<1> DEFINE n == Len(raw)
           h == Zhida!Reading(raw)
           u == Unfenced(raw, m)
           first(k) == SubSeq(raw, 1, k)
           S == {k \in 0 .. n : m + 2 <= k =>
                   /\ u <= h[k].from /\ u <= Len(h[k].kept)
                   /\ \A i \in 1 .. u : h[k].kept[i] = raw[i]}
<1>1. /\ n \in Nat /\ \A k \in 0 .. n : h[k] \in Readings
      /\ \A k \in 1 .. n : h[k] = Zhida!ReadPiece(h[k - 1], raw[k])
  BY ReadingIs
<1>2. m \in Nat /\ m + 1 \in 1 .. n /\ m + 2 \in 1 .. n /\ raw[m + 1] = "lt" /\ raw[m + 2] = "sources"
  BY <1>1 DEF Zhida!IsTag
<1>3. u \in 0 .. m /\ u \in Nat /\ u \in 0 .. n /\ Zhida!WithoutPendingFence(first(m)) = first(u)
  BY <1>1, UnfencedIs
<1>4. h[m + 2] = [kept |-> first(u), from |-> u, inside |-> TRUE, after |-> FALSE]
  <2>1. \A i \in 1 .. (m + 1) - 1 : ~ Zhida!IsTag(raw, i)
    BY <1>2
  <2>2. m + 1 \in 0 .. n
    BY <1>2
  <2>3. h[m + 1] = Plainly(first(m + 1))
    BY <2>1, <2>2, ReadBeforeTag
  <2>4. first(m + 1) \in Seq(Zhida!Pieces) /\ Len(first(m + 1)) = m + 1
        /\ \A i \in 1 .. m + 1 : first(m + 1)[i] = raw[i]
    BY <2>2, FirstPieces
  <2>5. first(m + 1) # <<>> /\ Zhida!Last(first(m + 1)) = "lt"
    BY <1>2, <2>4 DEF Zhida!Last
  <2>6. Zhida!Front(first(m + 1)) = first(m)
    <3>1. Zhida!Front(first(m + 1)) = SubSeq(first(m + 1), 1, m) /\ m \in 0 .. Len(first(m + 1))
      <4>1. Len(first(m + 1)) - 1 = m
        BY <1>2, <2>4
      <4> HIDE DEF first
      <4> QED BY <2>4, <2>5, <4>1, FrontOf
    <3>2. SubSeq(first(m + 1), 1, m) \in Seq(Zhida!Pieces) /\ Len(SubSeq(first(m + 1), 1, m)) = m
          /\ \A i \in 1 .. m : SubSeq(first(m + 1), 1, m)[i] = first(m + 1)[i]
      <4> HIDE DEF first
      <4> QED BY <2>4, <3>1, FirstPieces
    <3>3. first(m) \in Seq(Zhida!Pieces) /\ Len(first(m)) = m /\ \A i \in 1 .. m : first(m)[i] = raw[i]
      BY FirstPieces
    <3> DEFINE a == SubSeq(first(m + 1), 1, m)
               b == first(m)
    <3>4. a \in Seq(Zhida!Pieces) /\ b \in Seq(Zhida!Pieces) /\ Len(a) = Len(b) /\ \A i \in 1 .. Len(a) : a[i] = b[i]
      <4> HIDE DEF first
      <4> QED BY <1>2, <2>4, <3>2, <3>3
    <3> HIDE DEF a, b
    <3>5. a = b
      BY <3>4, SamePieces
    <3> QED BY <3>1, <3>5 DEF a, b
  <2>7. h[m + 2] = Zhida!ReadPiece(h[m + 1], "sources")
    <3>1. (m + 2) - 1 = m + 1
      BY <1>2
    <3> HIDE DEF h
    <3> QED BY <1>1, <1>2, <3>1
  <2>8. Len(first(u)) = u
    BY <1>3, FirstPieces
  <2> HIDE DEF h, first, u
  <2> QED BY <1>3, <2>3, <2>4, <2>5, <2>6, <2>7, <2>8, ReadTag
<1>5. Len(first(u)) = u /\ \A i \in 1 .. u : first(u)[i] = raw[i]
  BY <1>3, FirstPieces
<1> HIDE DEF h, u, first
<1>6. 0 \in S
  BY <1>1, <1>2
<1>7. ASSUME NEW k \in 0 .. n - 1, k \in S PROVE k + 1 \in S
  <2>1. k + 1 \in 1 .. n /\ (k + 1) - 1 = k /\ k + 1 \in 0 .. n /\ k \in 0 .. n /\ raw[k + 1] \in Zhida!Pieces
    BY <1>1
  <2>2. CASE k + 1 = m + 2
    BY <1>3, <1>4, <1>5, <2>1, <2>2
  <2>3. CASE m + 2 <= k
    <3>1. /\ u <= h[k].from /\ u <= Len(h[k].kept)
          /\ \A i \in 1 .. u : h[k].kept[i] = raw[i]
      BY <1>7, <2>3
    <3>2. h[k + 1] = Zhida!ReadPiece(h[k], raw[k + 1]) /\ h[k] \in Readings
      BY <1>1, <2>1
    <3>3. u \in 0 .. Len(h[k].kept)
      BY <1>3, <3>1, <3>2 DEF Readings
    <3>4. /\ u <= h[k + 1].from /\ u <= Len(h[k + 1].kept)
          /\ \A i \in 1 .. u : h[k + 1].kept[i] = h[k].kept[i]
      <4>1. \A x \in 0 .. Len(h[k].kept) : x <= h[k].from =>
              /\ x <= Zhida!ReadPiece(h[k], raw[k + 1]).from /\ x <= Len(Zhida!ReadPiece(h[k], raw[k + 1]).kept)
              /\ \A i \in 1 .. x : Zhida!ReadPiece(h[k], raw[k + 1]).kept[i] = h[k].kept[i]
        BY <2>1, <3>2, ReadPieceKeeps
      <4> QED BY <3>1, <3>2, <3>3, <4>1
    <3> QED BY <2>1, <3>1, <3>4
  <2>4. CASE k + 1 < m + 2
    BY <1>2, <2>1, <2>4
  <2> QED BY <1>1, <1>2, <2>2, <2>3, <2>4
<1>8. 0 .. n \subseteq S
  <2> HIDE DEF S
  <2> QED BY <1>1, <1>6, <1>7, SegmentInduction
<1>9. n \in S /\ m + 2 <= n /\ n \in 0 .. n
  BY <1>1, <1>2, <1>8
<1>10. Zhida!WithoutSources(raw) = h[n].kept
  BY DEF Zhida!WithoutSources, h
<1>11. h[n].kept \in Seq(Zhida!Pieces)
  BY <1>1, <1>9 DEF Readings
<1> QED BY <1>9, <1>10, <1>11 DEF u

\* What may be shown of an answer is the beginning of what is kept of it, which
\* is all of it when there is no tag.
LEMMA VisibleIsKept ==
  ASSUME NEW raw \in Seq(Zhida!Pieces)
  PROVE  /\ Zhida!IsPrefix(Zhida!VisiblePrefix(raw), Zhida!WithoutSources(raw))
         /\ (\A i \in DOMAIN raw : ~ Zhida!IsTag(raw, i)) => Zhida!WithoutSources(raw) = raw
<1>1. PICK m \in 0 .. Len(raw) :
        /\ Cut(raw, m) /\ Unfenced(raw, m) \in 0 .. m
        /\ Zhida!VisiblePrefix(raw) = SubSeq(raw, 1, Unfenced(raw, m))
  BY VisibleIsCut
<1> DEFINE u == Unfenced(raw, m)
           visible == Zhida!VisiblePrefix(raw)
           kept == Zhida!WithoutSources(raw)
<1>2. Len(raw) \in Nat /\ m \in Nat /\ u \in 0 .. Len(raw) /\ u \in Nat /\ DOMAIN raw = 1 .. Len(raw)
  BY <1>1
<1>3. visible \in Seq(Zhida!Pieces) /\ Len(visible) = u /\ \A i \in 1 .. u : visible[i] = raw[i]
  BY <1>1, <1>2, FirstPieces
<1>4. ASSUME \A i \in 1 .. Len(raw) - 1 : ~ Zhida!IsTag(raw, i) PROVE kept = raw
  <2>1. Len(raw) \in 0 .. Len(raw)
    BY <1>2
  <2>2. Zhida!Reading(raw)[Len(raw)] = Plainly(SubSeq(raw, 1, Len(raw)))
    BY <1>4, <2>1, ReadBeforeTag
  <2>3. SubSeq(raw, 1, Len(raw)) = raw
    BY SubSeqFull
  <2> QED BY <2>2, <2>3 DEF Zhida!WithoutSources, Plainly
<1>5. kept \in Seq(Zhida!Pieces) /\ u <= Len(kept) /\ \A i \in 1 .. u : kept[i] = raw[i]
  <2>1. CASE m < Len(raw) /\ Zhida!IsTag(raw, m + 1)
    BY <1>1, <2>1, ReadAfterTag DEF Cut
  <2>2. CASE ~ (m < Len(raw) /\ Zhida!IsTag(raw, m + 1))
    <3>1. \A i \in 1 .. Len(raw) - 1 : ~ Zhida!IsTag(raw, i)
      <4>1. (m = Len(raw) - 1 \/ m = Len(raw)) /\ \A i \in 1 .. m : ~ Zhida!IsTag(raw, i)
        BY <1>1, <2>2 DEF Cut
      <4>2. \A i \in 1 .. Len(raw) - 1 : i \in 1 .. m
        <5>1. Len(raw) - 1 <= m
          <6> HIDE DEF u, visible, kept
          <6>1. m = Len(raw) - 1 \/ m = Len(raw)
            BY <4>1, Zenon
          <6>2. Len(raw) \in Nat
            BY <1>2, Zenon
          <6> QED BY <6>1, <6>2
        <5> QED BY <1>2, <5>1
      <4> QED BY <4>1, <4>2
    <3>2. kept = raw
      BY <1>4, <3>1
    <3> QED BY <1>2, <3>2
  <2> QED BY <2>1, <2>2
<1> HIDE DEF u, visible, kept
<1>6. Zhida!IsPrefix(visible, kept)
  <2>1. \A i \in 1 .. Len(visible) : visible[i] = kept[i]
    BY <1>3, <1>5
  <2> QED BY <1>3, <1>5, <2>1, PrefixIs
<1>7. (\A i \in DOMAIN raw : ~ Zhida!IsTag(raw, i)) => kept = raw
  BY <1>2, <1>4
<1> QED BY <1>6, <1>7 DEF visible, kept

-----------------------------------------------------------------------------
(* What the user was shown.                                                *)

AnswerOK == answer \in Seq(Zhida!Pieces) /\ pending \in Zhida!Frames \cup {None}

\* What was shown is what may be shown of the answer, or all of an answer
\* without sources that is concluded.
ShownInv ==
  \/ shown = Zhida!VisiblePrefix(answer)
  \/ outcome # None /\ (\A i \in DOMAIN answer : ~ Zhida!IsTag(answer, i)) /\ shown = answer

\* Nothing is shown of nothing.
LEMMA InitShown == ASSUME Zhida!Init PROVE AnswerOK /\ ShownInv
<1>1. answer = <<>> /\ shown = <<>> /\ pending = None
  BY DEF Zhida!Init
<1>2. {i \in DOMAIN <<>> : Zhida!IsTag(<<>>, i)} = {}
  OBVIOUS
<1>3. Zhida!BeforeSources(<<>>) = <<>>
  BY <1>2 DEF Zhida!BeforeSources
<1>4. Zhida!VisiblePrefix(<<>>) = <<>>
  BY <1>3 DEF Zhida!VisiblePrefix, Zhida!WithoutPendingFence
<1> QED BY <1>1, <1>4 DEF AnswerOK, ShownInv

\* A piece that is accepted is added to the answer, and shown when it may be.
LEMMA AcceptShows ==
  ASSUME AnswerOK, shown = Zhida!VisiblePrefix(answer), NEW f \in Zhida!Frames, Zhida!Accept(f)
  PROVE  answer' \in Seq(Zhida!Pieces) /\ shown' = Zhida!VisiblePrefix(answer')
<1>1. CASE f \notin Zhida!Pieces
  <2>1. UNCHANGED <<answer, shown>>
    BY <1>1 DEF Zhida!Accept
  <2> QED BY <2>1 DEF AnswerOK
<1>2. CASE f \in Zhida!Pieces
  <2>1. answer' = Append(answer, f) /\ answer \in Seq(Zhida!Pieces)
    BY <1>2 DEF Zhida!Accept, AnswerOK
  <2>2. shown' = LET visible == Zhida!VisiblePrefix(answer')
                 IN  IF Len(visible) > Len(shown)
                     THEN shown \o SubSeq(visible, Len(shown) + 1, Len(visible)) ELSE shown
    BY <1>2 DEF Zhida!Accept
  <2>3. shown' = Zhida!VisiblePrefix(answer')
    BY <1>2, <2>1, <2>2, ShownGrows
  <2> QED BY <1>2, <2>1, <2>3
<1> QED BY <1>1, <1>2

\* A conclusion shows nothing more, or all of an answer without sources.
LEMMA ConcludeShows ==
  ASSUME AnswerOK, shown = Zhida!VisiblePrefix(answer), Answer # None, outcome = None,
         Zhida!Conclude, answer' = answer
  PROVE  ShownInv'
<1>1. CASE shown' = shown
  BY <1>1 DEF ShownInv
<1>2. CASE /\ Zhida!Finish(Answer) /\ \A i \in DOMAIN answer : ~ Zhida!IsTag(answer, i)
           /\ shown' = shown \o SubSeq(answer, Len(shown) + 1, Len(answer))
  <2>1. outcome' = Answer
    BY <1>2 DEF Zhida!Finish
  <2>2. PICK m \in 0 .. Len(answer) :
          /\ Cut(answer, m) /\ Unfenced(answer, m) \in 0 .. m
          /\ Zhida!VisiblePrefix(answer) = SubSeq(answer, 1, Unfenced(answer, m))
    BY VisibleIsCut DEF AnswerOK
  <2> DEFINE u == Unfenced(answer, m)
             n == Len(answer)
  <2>3. answer \in Seq(Zhida!Pieces) /\ n \in Nat /\ u \in 0 .. n /\ u \in Nat
    BY <2>2 DEF AnswerOK
  <2>4. shown = SubSeq(answer, 1, u) /\ Len(shown) = u
    BY <2>2, <2>3, FirstPieces
  <2>5. SubSeq(answer, 1, u) \o SubSeq(answer, u + 1, n) = answer
    <3>1. SubSeq(answer, 1, n) = answer
      BY <2>3, SubSeqFull
    <3>2. 1 \in 1 .. n + 1 /\ u \in 1 - 1 .. n /\ n \in u .. n
      BY <2>3
    <3> HIDE DEF u
    <3>3. SubSeq(answer, 1, u) \o SubSeq(answer, u + 1, n) = SubSeq(answer, 1, n)
      BY <2>3, <3>2, ConcatAdjacentSubSeq
    <3> QED BY <3>1, <3>3
  <2>6. shown' = answer
    BY <1>2, <2>4, <2>5
  <2> QED BY <1>2, <2>1, <2>6 DEF ShownInv
<1> QED BY <1>1, <1>2 DEF Zhida!Conclude

\* Every step keeps what was shown in line with the answer.
LEMMA NextShown ==
  ASSUME Zhida!Call!OutcomesDiffer, ZhidaInv, AnswerOK, ShownInv, [Zhida!Next]_(Zhida!vars)
  PROVE  AnswerOK' /\ ShownInv'
<1>1. Answer # None
  BY DEF Zhida!Call!OutcomesDiffer
<1>2. outcome # None => outcome' = outcome
  BY ZhidaNext DEF Zhida!Call!Next, Zhida!Call!vars, Zhida!Call!Proceed, Zhida!Call!Respond, Zhida!Call!Fail
<1>3. CASE UNCHANGED <<answer, shown>> /\ pending' \in Zhida!Frames \cup {None}
  BY <1>2, <1>3 DEF AnswerOK, ShownInv
<1>4. CASE UNCHANGED Zhida!reader
  BY <1>3, <1>4 DEF Zhida!reader, AnswerOK
<1>5. ASSUME NEW f \in Zhida!Frames, Zhida!Accept(f), outcome = None, pending' \in Zhida!Frames \cup {None}
      PROVE  AnswerOK' /\ ShownInv'
  <2>1. shown = Zhida!VisiblePrefix(answer)
    BY <1>5 DEF ShownInv
  <2> QED BY <1>5, <2>1, AcceptShows DEF AnswerOK, ShownInv
<1>6. CASE Zhida!OnStdout
  <2>1. outcome = None
    BY <1>6 DEF Zhida!OnStdout, Zhida!Alive
  <2>2. ASSUME NEW f \in Zhida!Frames, Zhida!Consume(f), pending' \in Zhida!Frames \cup {None}
        PROVE  AnswerOK' /\ ShownInv'
    <3>1. UNCHANGED <<answer, shown>> \/ Zhida!Accept(f)
      BY <2>2 DEF Zhida!Consume
    <3> QED BY <1>3, <1>5, <2>1, <2>2, <3>1
  <2>3. CASE pending # None /\ pending' = None /\ Zhida!Consume(pending)
    BY <2>2, <2>3 DEF AnswerOK
  <2>4. ASSUME NEW f \in Zhida!Frames, Zhida!Consume(f) /\ UNCHANGED pending
        PROVE  AnswerOK' /\ ShownInv'
    BY <2>2, <2>4 DEF AnswerOK
  <2>5. ASSUME NEW f \in Zhida!Frames, pending' = f, UNCHANGED <<answer, shown>>
        PROVE  AnswerOK' /\ ShownInv'
    BY <1>3, <2>5
  <2> QED BY <1>4, <1>6, <2>3, <2>4, <2>5 DEF Zhida!OnStdout
<1>7. CASE Zhida!OnClose
  <2>1. CASE outcome # None \/ failure # None
    BY <1>4, <1>7, <2>1 DEF Zhida!OnClose
  <2>2. CASE outcome = None /\ failure = None
    <3>1. Zhida!Close /\ shown = Zhida!VisiblePrefix(answer)
      BY <1>7, <2>2 DEF Zhida!OnClose, ShownInv
    <3>2. ASSUME Zhida!Conclude, answer' = answer, pending' \in Zhida!Frames \cup {None}
          PROVE  AnswerOK' /\ ShownInv'
      BY <1>1, <2>2, <3>1, <3>2, ConcludeShows DEF AnswerOK
    <3>3. CASE UNCHANGED Zhida!reader
      BY <1>4, <3>3
    <3>4. CASE pending = None /\ UNCHANGED <<pending, answer, stopped, done>> /\ Zhida!Conclude
      BY <3>2, <3>4
    <3>5. CASE pending # None /\ pending' = None
      <4>1. pending \in Zhida!Frames
        BY <3>5 DEF AnswerOK
      <4>2. \/ UNCHANGED <<answer, shown>>
            \/ Zhida!Conclude /\ UNCHANGED answer
            \/ Zhida!Accept(pending)
        BY <3>1, <3>5 DEF Zhida!Close, Zhida!reader
      <4> QED BY <1>3, <1>5, <2>2, <3>2, <3>5, <4>1, <4>2
    <3> QED BY <3>1, <3>3, <3>4, <3>5 DEF Zhida!Close
  <2> QED BY <2>1, <2>2
<1>8. CASE UNCHANGED Zhida!vars
  BY <1>4, <1>8 DEF Zhida!vars
<1> QED
  BY <1>4, <1>6, <1>7, <1>8
  DEF Zhida!Next, Zhida!Research, Zhida!Escalate, Zhida!GiveUp, Zhida!Exit, Zhida!OnStderr, Zhida!OnError, Zhida!OnTimeout, Zhida!OnAbort

\* So what was shown is the beginning of what is kept.
LEMMA ShownTells == ASSUME AnswerOK, ShownInv PROVE Zhida!ShownIsKept
<1>1. answer \in Seq(Zhida!Pieces)
  BY DEF AnswerOK
<1>2. CASE shown = Zhida!VisiblePrefix(answer)
  BY <1>1, <1>2, VisibleIsKept DEF Zhida!ShownIsKept
<1>3. CASE (\A i \in DOMAIN answer : ~ Zhida!IsTag(answer, i)) /\ shown = answer
  <2>1. Zhida!WithoutSources(answer) = answer
    BY <1>1, <1>3, VisibleIsKept
  <2>2. Zhida!IsPrefix(answer, answer)
    BY <1>1, PrefixIs
  <2> QED BY <1>3, <2>1, <2>2 DEF Zhida!ShownIsKept
<1> QED BY <1>2, <1>3 DEF ShownInv

-----------------------------------------------------------------------------
(* Roadmapper.                                                             *)

\* Who settled the call took the timer away and aborted what he did not wait
\* for; who reads the response has not gone over its limit.
Raced ==
  /\ outcome = None => ~ told
  /\ outcome \notin {None, Answer} /\ Roadmapper!Working => told
  /\ outcome # None => ~ timer
  /\ outcome = Answer => stage = "gone"
  /\ stage = "reading" => bytes \in 0 .. MaxOutput
  /\ stage \in {"none", "fetching"} => bytes = 0
  /\ stage = "none" => ~ timer

RoadmapperInv == Roadmapper!TypeOK /\ Raced

\* It holds at first.
LEMMA RoadmapperInit == ASSUME Roadmapper!Limits, Roadmapper!Call!OutcomesDiffer PROVE Roadmapper!Init => RoadmapperInv
<1> SUFFICES ASSUME Roadmapper!Init PROVE RoadmapperInv
  OBVIOUS
<1>1. bytes \in 0 .. MaxOutput + 1
  BY DEF Roadmapper!Limits, Roadmapper!Init
<1>2. outcome \notin {Answer} /\ outcome = None
  BY DEF Roadmapper!Init, Roadmapper!Call!OutcomesDiffer
<1> QED
  BY <1>1, <1>2 DEF Roadmapper!Init, RoadmapperInv, Roadmapper!TypeOK, Raced

\* Each step of the call keeps it.
LEMMA RoadmapperNext ==
  ASSUME Roadmapper!Limits, Roadmapper!Call!OutcomesDiffer, RoadmapperInv, [Roadmapper!Next]_(Roadmapper!vars)
  PROVE  RoadmapperInv'
<1> USE DEF Roadmapper!Limits, Roadmapper!Call!OutcomesDiffer, RoadmapperInv, Roadmapper!TypeOK, Raced, Roadmapper!Working, Roadmapper!Failures
<1>1. CASE Roadmapper!Generate
  BY <1>1 DEF Roadmapper!Generate
<1>2. CASE Roadmapper!OnResponse
  BY <1>2 DEF Roadmapper!OnResponse
<1>3. CASE Roadmapper!OnChunk
  <2>1. bytes \in 0 .. MaxOutput /\ bytes' = bytes + 1
    BY <1>3 DEF Roadmapper!OnChunk
  <2>2. CASE bytes' > MaxOutput
    <3>1. bytes' \in 0 .. MaxOutput + 1
      BY <2>1
    <3>2. stage' = "gone" /\ aborted' = aborted /\ Roadmapper!Race("output_limit")
      BY <1>3, <2>2 DEF Roadmapper!OnChunk
    <3> QED
      BY <3>1, <3>2 DEF Roadmapper!Race
  <2>3. CASE ~ bytes' > MaxOutput
    BY <1>3, <2>1, <2>3 DEF Roadmapper!OnChunk
  <2> QED
    BY <2>2, <2>3
<1>4. CASE Roadmapper!OnEnd
  BY <1>4 DEF Roadmapper!OnEnd, Roadmapper!Race
<1>5. CASE Roadmapper!WorkFails
  BY <1>5 DEF Roadmapper!WorkFails, Roadmapper!Race
<1>6. CASE Roadmapper!OnTimeout
  BY <1>6 DEF Roadmapper!OnTimeout, Roadmapper!Race
<1>7. CASE Roadmapper!OnAbort
  BY <1>7 DEF Roadmapper!OnAbort, Roadmapper!Race
<1>8. CASE UNCHANGED Roadmapper!vars
  BY <1>8 DEF Roadmapper!vars
<1> QED
  BY <1>1, <1>2, <1>3, <1>4, <1>5, <1>6, <1>7, <1>8 DEF Roadmapper!Next

\* The variables of a call keep their types, and a response never grows more
\* than one chunk past the limit (the reader loop of work).
THEOREM RoadmapperTypeCorrect ==
  ASSUME Roadmapper!Limits, Roadmapper!Call!OutcomesDiffer
  PROVE  Roadmapper!Spec => []Roadmapper!TypeOK
<1>1. Roadmapper!Init => RoadmapperInv
  BY RoadmapperInit
<1>2. RoadmapperInv /\ [Roadmapper!Next]_(Roadmapper!vars) => RoadmapperInv'
  BY RoadmapperNext
<1>3. RoadmapperInv => Roadmapper!TypeOK
  BY DEF RoadmapperInv
<1> QED
  BY <1>1, <1>2, <1>3, PTL DEF Roadmapper!Spec

\* Every step of the call is a step of ProviderCall or none: it settles once,
\* answers only with what its request brought to its end, and never fails and
\* leaves a request that was not aborted (generate and its race).
LEMMA RoadmapperRefines ==
  ASSUME Roadmapper!Limits, Roadmapper!Call!OutcomesDiffer, RoadmapperInv, [Roadmapper!Next]_(Roadmapper!vars)
  PROVE  [Roadmapper!Call!Next]_(Roadmapper!Call!vars)
<1> USE DEF Roadmapper!Limits, Roadmapper!Call!OutcomesDiffer, RoadmapperInv, Roadmapper!TypeOK, Raced, Roadmapper!Work, Roadmapper!Working, Roadmapper!Failures,
            Roadmapper!Call!Next, Roadmapper!Call!vars, Roadmapper!Call!Proceed, Roadmapper!Call!Respond, Roadmapper!Call!Fail, Roadmapper!Call!Later
<1>1. CASE Roadmapper!Generate
  BY <1>1 DEF Roadmapper!Generate
<1>2. CASE Roadmapper!OnResponse
  BY <1>2 DEF Roadmapper!OnResponse
<1>3. CASE Roadmapper!OnChunk
  BY <1>3 DEF Roadmapper!OnChunk, Roadmapper!Race
<1>4. CASE Roadmapper!OnEnd
  BY <1>4 DEF Roadmapper!OnEnd, Roadmapper!Race
<1>5. CASE Roadmapper!WorkFails
  BY <1>5 DEF Roadmapper!WorkFails, Roadmapper!Race
<1>6. CASE Roadmapper!OnTimeout
  BY <1>6 DEF Roadmapper!OnTimeout, Roadmapper!Race
<1>7. CASE Roadmapper!OnAbort
  BY <1>7 DEF Roadmapper!OnAbort, Roadmapper!Race
<1>8. CASE UNCHANGED Roadmapper!vars
  BY <1>8 DEF Roadmapper!vars
<1> QED
  BY <1>1, <1>2, <1>3, <1>4, <1>5, <1>6, <1>7, <1>8 DEF Roadmapper!Next

\* A call of the Roadmapper provider keeps every promise of ProviderCall but
\* the one that it settles in the end: the safety half of CallSettles.
THEOREM RoadmapperKeepsItsPromise ==
  ASSUME Roadmapper!Limits, Roadmapper!Call!OutcomesDiffer
  PROVE  Roadmapper!Spec => Roadmapper!Call!Init /\ [][Roadmapper!Call!Next]_(Roadmapper!Call!vars)
<1>1. Roadmapper!Init => RoadmapperInv
  BY RoadmapperInit
<1>2. RoadmapperInv /\ [Roadmapper!Next]_(Roadmapper!vars) => RoadmapperInv'
  BY RoadmapperNext
<1>3. Roadmapper!Init => Roadmapper!Call!Init
  BY DEF Roadmapper!Init, Roadmapper!Call!Init, Roadmapper!Work, Roadmapper!Working
<1>4. RoadmapperInv /\ [Roadmapper!Next]_(Roadmapper!vars) => [Roadmapper!Call!Next]_(Roadmapper!Call!vars)
  BY RoadmapperRefines
<1> QED
  BY <1>1, <1>2, <1>3, <1>4, PTL DEF Roadmapper!Spec

-----------------------------------------------------------------------------
(* The provider that is asked.                                             *)

\* The provider that is asked is in its invariant; the others are at rest.
ProvidersInv ==
  \/ provider = "Zhihu" /\ ZhihuInv /\ Heard /\ Zhida!ShownIsKept
  \/ provider = "Zhida" /\ ZhidaInv /\ AnswerOK /\ ShownInv /\ Zhihu!DiagnosisIsFromOneLine
  \/ provider = "Roadmapper" /\ RoadmapperInv /\ Zhihu!DiagnosisIsFromOneLine /\ Zhida!ShownIsKept

\* What the constants are.
LEMMA Settings ==
  ZhihuSetting /\ Zhida!Call!OutcomesDiffer /\ Roadmapper!Limits /\ Roadmapper!Call!OutcomesDiffer
BY ProviderLimits
DEF ZhihuSetting, Call!OutcomesDiffer, Zhihu!Call!OutcomesDiffer, Zhida!Call!OutcomesDiffer,
    Roadmapper!Call!OutcomesDiffer

\* Whichever provider is asked starts in its invariant.
LEMMA ProvidersInit == Init => ProvidersInv
<1> SUFFICES ASSUME Init PROVE ProvidersInv
  OBVIOUS
<1>1. ZhihuInv /\ Heard /\ Zhihu!DiagnosisIsFromOneLine
  BY Settings, ZhihuInit, InitHeard, HeardTells DEF Init
<1>2. ZhidaInv /\ AnswerOK /\ ShownInv /\ Zhida!ShownIsKept
  BY Settings, ZhidaInit, InitShown, ShownTells DEF Init
<1>3. RoadmapperInv
  BY Settings, RoadmapperInit DEF Init
<1> QED
  BY <1>1, <1>2, <1>3 DEF Init, ProvidersInv

\* Who is not asked does not move.
LEMMA AtRest ==
  /\ UNCHANGED zhihuOwn => (Zhihu!DiagnosisIsFromOneLine => Zhihu!DiagnosisIsFromOneLine')
  /\ UNCHANGED zhidaOwn => (Zhida!ShownIsKept => Zhida!ShownIsKept')
<1>1. UNCHANGED zhihuOwn => (Zhihu!DiagnosisIsFromOneLine => Zhihu!DiagnosisIsFromOneLine')
  <2> SUFFICES ASSUME UNCHANGED zhihuOwn, Zhihu!DiagnosisIsFromOneLine
               PROVE  Zhihu!DiagnosisIsFromOneLine'
    OBVIOUS
  <2>1. Zhihu!DiagnosticLines' = Zhihu!DiagnosticLines
    BY DEF zhihuOwn, Zhihu!DiagnosticLines
  <2>2. Zhihu!Cardinality(Zhihu!DiagnosticLines)' = Zhihu!Cardinality(Zhihu!DiagnosticLines)
    BY <2>1, ZhihuCounts
  <2> QED
    BY <2>2 DEF zhihuOwn, Zhihu!DiagnosisIsFromOneLine
<1>2. UNCHANGED zhidaOwn => (Zhida!ShownIsKept => Zhida!ShownIsKept')
  BY DEF zhidaOwn, Zhida!ShownIsKept
<1> QED BY <1>1, <1>2

\* Each step is one of the provider that is asked.
LEMMA ProvidersNext == ASSUME ProvidersInv, [Next]_vars PROVE ProvidersInv'
<1>1. CASE provider = "Zhihu" /\ [Zhihu!Next]_(Zhihu!vars) /\ UNCHANGED <<provider, zhidaOwn>>
  <2>1. ZhihuInv' /\ Heard'
    BY <1>1, Settings, ZhihuNext, NextHeard DEF ProvidersInv, ZhihuInv
  <2> QED
    BY <1>1, <2>1, AtRest DEF ProvidersInv
<1>2. CASE provider = "Zhida" /\ [Zhida!Next]_(Zhida!vars) /\ UNCHANGED <<provider, zhihuOwn>>
  <2>1. ZhidaInv' /\ AnswerOK' /\ ShownInv'
    BY <1>2, Settings, ZhidaNext, NextShown DEF ProvidersInv
  <2> QED
    BY <1>2, <2>1, AtRest DEF ProvidersInv
<1>3. CASE provider = "Roadmapper" /\ [Roadmapper!Next]_(Roadmapper!vars)
           /\ UNCHANGED <<provider, zhihuOwn, zhidaOwn>>
  <2>1. RoadmapperInv'
    BY <1>3, Settings, RoadmapperNext DEF ProvidersInv
  <2> QED
    BY <1>3, <2>1, AtRest DEF ProvidersInv
<1>4. CASE UNCHANGED vars
  <2>1. UNCHANGED <<provider, Zhihu!vars, Zhida!vars, Roadmapper!vars, zhihuOwn, zhidaOwn>>
    BY <1>4 DEF vars, zhihuOwn, zhidaOwn, roadmapperOwn, Zhihu!vars, Zhihu!promise, Zhihu!streams,
                Zhida!vars, Zhida!promise, Zhida!reader, Roadmapper!vars
  <2> QED
    BY <1>1, <1>2, <1>3, <2>1 DEF ProvidersInv
<1> QED
  BY <1>1, <1>2, <1>3, <1>4 DEF Next

\* So the call is always in its provider's invariant.
LEMMA ProvidersInvariant == Spec => []ProvidersInv
BY ProvidersInit, ProvidersNext, PTL DEF Spec

\* A call that is over and left a child running says so, whichever provider was
\* asked and in every order of its child's events, timers and signals
\* (terminateTree of the Zhihu provider, cleanupTimer of the Zhida provider).
THEOREM LeftoversAreReported == Spec => []LeftoverIsReported
<1>1. ProvidersInv => LeftoverIsReported
  BY DEF ProvidersInv, LeftoverIsReported, ZhihuInv, Promised, Reported, Zhihu!LeftoverIsReported,
         ZhidaInv, Stopping, Zhida!LeftoverIsReported
<1> QED
  BY <1>1, ProvidersInvariant, PTL

\* For every limit and whatever the child writes, the diagnosis of an error is
\* that of the only line of stderr that is one (onStderr, processFailure).
THEOREM DiagnosesAreFromOneLine == Spec => []DiagnosisIsFromOneLine
<1>1. ProvidersInv => DiagnosisIsFromOneLine
  BY HeardTells DEF ProvidersInv, DiagnosisIsFromOneLine
<1> QED
  BY <1>1, ProvidersInvariant, PTL

\* Whatever the client sends, what the user was shown is the beginning of the
\* answer without its sources (visiblePrefix against parseAnswer).
THEOREM ShownIsAlwaysKept == Spec => []ShownIsKept
<1>1. ProvidersInv => ShownIsKept
  BY ShownTells DEF ProvidersInv, ShownIsKept
<1> QED
  BY <1>1, ProvidersInvariant, PTL

\* A call of any provider keeps every promise of ProviderCall but the one that
\* it settles in the end: the safety half of CallSettles.
THEOREM CallsKeepTheirPromise == Spec => Call!Init /\ [][Call!Next]_(Call!vars)
<1>1. Init => Call!Init
  BY DEF Init, Call!Init, Zhihu!Init, Zhida!Init, Roadmapper!Init, Zhihu!Work, Zhida!Work,
         Roadmapper!Work, Roadmapper!Working
<1>2. ASSUME ProvidersInv, [Next]_vars PROVE [Call!Next]_(Call!vars)
  <2> USE DEF Call!Next, Call!vars, Call!Proceed, Call!Respond, Call!Fail, Call!Later
  <2>1. CASE provider = "Zhihu" /\ Zhihu!Next /\ UNCHANGED provider
    <3>1. [Zhihu!Call!Next]_(Zhihu!Call!vars)
      BY <1>2, <2>1, Settings, ZhihuRefines DEF ProvidersInv
    <3> QED
      BY <2>1, <3>1
      DEF Zhihu!Call!Next, Zhihu!Call!vars, Zhihu!Call!Proceed, Zhihu!Call!Respond, Zhihu!Call!Fail,
          Zhihu!Call!Later
  <2>2. CASE provider = "Zhida" /\ Zhida!Next /\ UNCHANGED provider
    <3>1. [Zhida!Call!Next]_(Zhida!Call!vars)
      BY <1>2, <2>2, Settings, ZhidaNext DEF ProvidersInv
    <3> QED
      BY <2>2, <3>1
      DEF Zhida!Call!Next, Zhida!Call!vars, Zhida!Call!Proceed, Zhida!Call!Respond, Zhida!Call!Fail,
          Zhida!Call!Later
  <2>3. CASE provider = "Roadmapper" /\ Roadmapper!Next /\ UNCHANGED provider
    <3>1. [Roadmapper!Call!Next]_(Roadmapper!Call!vars)
      BY <1>2, <2>3, Settings, RoadmapperRefines DEF ProvidersInv
    <3> QED
      BY <2>3, <3>1
      DEF Roadmapper!Call!Next, Roadmapper!Call!vars, Roadmapper!Call!Proceed, Roadmapper!Call!Respond,
          Roadmapper!Call!Fail, Roadmapper!Call!Later
  <2>4. CASE UNCHANGED vars
    BY <2>4 DEF vars, zhihuOwn, zhidaOwn, roadmapperOwn, Zhihu!Work, Zhida!Work, Roadmapper!Work,
                Roadmapper!Working
  <2> QED
    BY <1>2, <2>1, <2>2, <2>3, <2>4 DEF Next
<1> QED
  BY <1>1, <1>2, ProvidersInvariant, PTL DEF Spec
=============================================================================
