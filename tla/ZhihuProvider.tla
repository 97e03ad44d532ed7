---------------------------- MODULE ZhihuProvider ----------------------------
(***************************************************************************)
(* One call of the Zhihu provider: a Python process that is given a        *)
(* request on stdin, answers with JSON on stdout, may leave a diagnostic   *)
(* line on stderr, and is killed with its children when the call cannot    *)
(* wait for it any longer.                                                 *)
(*                                                                         *)
(* The events of the child, of the timers and of the caller's signal come  *)
(* in any order; each event handler is one action.  Data arrives one atom  *)
(* at a time: the framing is by bytes, so a chunk is its atoms in turn.    *)
(***************************************************************************)
EXTENDS Naturals, Sequences, FiniteSets

CONSTANTS
  StdoutLimit, StderrLimit,   \* atoms the child may write
  MaxLine,                    \* atoms of a stderr line that is kept
  Answer, None

Failures == {"timeout", "invalid_request", "startup_failed", "stdin_failed", "process_failed",
             "output_limit", "invalid_response"}

\* A line of stderr is a diagnostic when it is exactly Diagnostic.
Atoms      == {"head", "tail", "newline"}
Diagnostic == <<"head", "tail">>

\* What a finish that waits for the child holds on to.
Endings == [error : Failures, success : BOOLEAN]

\* What the proofs and the runs assume of the constants.
Limits ==
  /\ StdoutLimit \in Nat /\ StderrLimit \in Nat
  /\ MaxLine \in Nat /\ Len(Diagnostic) <= MaxLine
  /\ None \notin Endings

VARIABLES
  outcome,      \* of the promise
  aborted,      \* the caller's signal
  child,        \* "none", "unborn" (spawn reports its failure later), "running", "exited", "closed"
  told,         \* the process group was killed
  timer,        \* the call's timer is armed
  settled,      \* finish has begun
  ending,       \* finish waits for the child: its error, and whether the kill worked
  cleanup,      \* the error says that processes may be left
  upstream,     \* the error carries the child's own diagnosis
  stdoutBytes,
  stderrLine, discardStderrLine, diagnosticsSeen, diagnostic,
  said          \* history: all of stderr

promise == <<outcome, told, timer, settled, ending, cleanup, upstream>>
streams == <<stdoutBytes, stderrLine, discardStderrLine, diagnosticsSeen, diagnostic, said>>
vars    == <<promise, aborted, child, streams>>

Init ==
  /\ outcome = None /\ aborted \in BOOLEAN /\ child = "none" /\ told = FALSE
  /\ timer = FALSE /\ settled = FALSE /\ ending = None /\ cleanup = FALSE /\ upstream = FALSE
  /\ stdoutBytes = 0 /\ stderrLine = <<>> /\ discardStderrLine = FALSE
  /\ diagnosticsSeen = 0 /\ diagnostic = FALSE /\ said = <<>>

\* The promise settles once: what is said to it later is lost.
Settle(o, left, diagnosed) ==
  IF outcome = None
  THEN outcome' = o /\ cleanup' = left /\ upstream' = diagnosed
  ELSE UNCHANGED <<outcome, cleanup, upstream>>

-----------------------------------------------------------------------------
(* finish and terminateTree.                                               *)

\* finish without terminate, when nothing finished before.
FinishNow(o, diagnosed) ==
  /\ settled' = TRUE /\ timer' = FALSE
  /\ Settle(o, FALSE, diagnosed)
  /\ UNCHANGED <<told, ending>>

\* terminateTree kills the group, which may be refused, and waits for the
\* child's exit.  Without a pid there is nothing to kill.
FinishKilling(error) ==
  /\ settled' = TRUE /\ timer' = FALSE
  /\ IF child = "unborn"
     THEN Settle(error, FALSE, FALSE) /\ UNCHANGED <<told, ending>>
     ELSE /\ told' = TRUE
          /\ \E success \in BOOLEAN :
               IF child = "running"
               THEN ending' = [error |-> error, success |-> success]
                    /\ UNCHANGED <<outcome, cleanup, upstream>>
               ELSE Settle(error, ~ success, FALSE) /\ UNCHANGED ending

Kill(error) == IF settled THEN UNCHANGED promise ELSE FinishKilling(error)

\* Faulty variant: a child that did not exit in time counts as killed.
KillTimeoutTrusted ==
  /\ ending # None /\ ending' = None
  /\ Settle(ending.error, ~ ending.success, FALSE)
  /\ UNCHANGED <<aborted, child, told, timer, settled, streams>>

\* waitForTermination gives up after two seconds.
KillTimeout ==
  /\ ending # None /\ ending' = None
  /\ Settle(ending.error, TRUE, FALSE)
  /\ UNCHANGED <<aborted, child, told, timer, settled, streams>>

\* The child exits, by itself or killed; a kill that waits for it is over.
Exit ==
  /\ child = "running" /\ child' = "exited"
  /\ IF ending # None
     THEN Settle(ending.error, ~ ending.success, FALSE) /\ ending' = None
     ELSE UNCHANGED <<outcome, cleanup, upstream, ending>>
  /\ UNCHANGED <<aborted, told, timer, settled, streams>>

-----------------------------------------------------------------------------
(* The call and its listeners, which are taken off when it is settled.     *)

\* execute, up to the listeners.  spawn throws, or its child starts or not.
Execute ==
  /\ child = "none" /\ ~ settled
  /\ \/ aborted /\ FinishNow("timeout", FALSE) /\ UNCHANGED child
     \/ /\ ~ aborted /\ UNCHANGED child
        /\ \E error \in {"invalid_request", "startup_failed"} : FinishNow(error, FALSE)
     \/ /\ ~ aborted /\ child' \in {"unborn", "running"} /\ timer' = TRUE
        /\ UNCHANGED <<outcome, told, settled, ending, cleanup, upstream>>
  /\ UNCHANGED <<aborted, streams>>

Attached == child \in {"unborn", "running", "exited"} /\ outcome = None

\* What comes beyond the limit is not told apart.
OnStdout ==
  /\ Attached /\ child # "unborn" /\ stdoutBytes <= StdoutLimit
  /\ stdoutBytes' = stdoutBytes + 1
  /\ IF stdoutBytes' > StdoutLimit THEN Kill("output_limit") ELSE UNCHANGED promise
  /\ UNCHANGED <<aborted, child, stderrLine, discardStderrLine, diagnosticsSeen, diagnostic, said>>

\* A line is complete: two diagnostics are as good as none.
TakeLine ==
  IF stderrLine = Diagnostic
  THEN diagnosticsSeen' = diagnosticsSeen + 1 /\ diagnostic' = (diagnosticsSeen' = 1)
  ELSE UNCHANGED <<diagnosticsSeen, diagnostic>>

\* Faulty variant: the rest of an oversized line counts as a line.
TakeAtomResuming(a) ==
  IF a = "newline"
  THEN TakeLine /\ stderrLine' = <<>> /\ UNCHANGED discardStderrLine
  ELSE /\ stderrLine' = IF Len(stderrLine) = MaxLine THEN <<>> ELSE Append(stderrLine, a)
       /\ UNCHANGED <<discardStderrLine, diagnosticsSeen, diagnostic>>

\* The loop of onStderr over the bytes of a chunk.
TakeAtom(a) ==
  \/ /\ a = "newline" /\ stderrLine' = <<>> /\ discardStderrLine' = FALSE
     /\ IF discardStderrLine THEN UNCHANGED <<diagnosticsSeen, diagnostic>> ELSE TakeLine
  \/ /\ a # "newline" /\ ~ discardStderrLine
     /\ discardStderrLine' = (Len(stderrLine) = MaxLine)
     /\ stderrLine' = IF discardStderrLine' THEN <<>> ELSE Append(stderrLine, a)
     /\ UNCHANGED <<diagnosticsSeen, diagnostic>>
  \/ /\ a # "newline" /\ discardStderrLine
     /\ UNCHANGED <<stderrLine, discardStderrLine, diagnosticsSeen, diagnostic>>

OnStderr ==
  /\ Attached /\ child # "unborn" /\ Len(said) <= StderrLimit
  /\ \E a \in Atoms :
       /\ said' = Append(said, a)
       /\ IF Len(said') > StderrLimit
          THEN /\ Kill("output_limit")
               /\ UNCHANGED <<stderrLine, discardStderrLine, diagnosticsSeen, diagnostic>>
          ELSE TakeAtom(a) /\ UNCHANGED promise
  /\ UNCHANGED <<aborted, child, stdoutBytes>>

\* The error events of the child and of its stdin.
OnError ==
  /\ Attached
  /\ \E error \in {"startup_failed", "stdin_failed"} : Kill(error)
  /\ UNCHANGED <<aborted, child, streams>>

OnTimeout ==
  /\ timer /\ Kill("timeout")
  /\ UNCHANGED <<aborted, child, streams>>

\* The caller gives up.
OnAbort ==
  /\ ~ aborted /\ aborted' = TRUE
  /\ IF Attached THEN Kill("timeout") ELSE UNCHANGED promise
  /\ UNCHANGED <<child, streams>>

\* processFailure: the child's own diagnosis counts when it wrote nothing else.
ProcessFailure ==
  IF diagnostic /\ stdoutBytes = 0
  THEN \E code \in {"timeout", "process_failed"} : FinishNow(code, TRUE)
  ELSE FinishNow("process_failed", FALSE)

\* checked: the output is a result, reports a failure, or neither.
Checked(says, exitCode) ==
  CASE says = "result" /\ exitCode = 0  -> FinishNow(Answer, FALSE)
    [] says = "failure" /\ exitCode # 0 -> \E code \in {"timeout", "process_failed"} : FinishNow(code, FALSE)
    [] OTHER                            -> FinishNow("invalid_response", FALSE)

\* What onClose makes of the child's end: a signal, output that does not
\* parse, or output that does.
Close ==
  \/ ProcessFailure
  \/ \E exitCode \in {0, 1} : IF exitCode # 0 /\ stdoutBytes = 0
                              THEN ProcessFailure ELSE FinishNow("invalid_response", FALSE)
  \/ /\ stdoutBytes > 0
     /\ \E exitCode \in {0, 1}, says \in {"result", "failure", "neither"} : Checked(says, exitCode)

OnClose ==
  /\ child = "exited" /\ child' = "closed"
  /\ IF settled THEN UNCHANGED promise ELSE Close
  /\ UNCHANGED <<aborted, streams>>

Next ==
  \/ Execute \/ Exit \/ KillTimeout
  \/ OnStdout \/ OnStderr \/ OnError \/ OnTimeout \/ OnAbort \/ OnClose

\* The call is made, and timers fire.
Fairness == WF_vars(Execute) /\ WF_vars(OnTimeout) /\ WF_vars(KillTimeout)

Spec == Init /\ [][Next]_vars /\ Fairness

-----------------------------------------------------------------------------

PromiseOK ==
  /\ outcome \in Failures \cup {Answer, None} /\ aborted \in BOOLEAN
  /\ child \in {"none", "unborn", "running", "exited", "closed"}
  /\ told \in BOOLEAN /\ timer \in BOOLEAN /\ settled \in BOOLEAN
  /\ cleanup \in BOOLEAN /\ upstream \in BOOLEAN
  /\ ending \in Endings \cup {None}

StreamsOK ==
  /\ stdoutBytes \in 0 .. StdoutLimit + 1
  /\ said \in Seq(Atoms) /\ Len(said) <= StderrLimit + 1
  /\ stderrLine \in Seq(Atoms) /\ Len(stderrLine) <= MaxLine
  /\ discardStderrLine \in BOOLEAN /\ diagnostic \in BOOLEAN /\ diagnosticsSeen \in Nat

TypeOK == PromiseOK /\ StreamsOK

\* A call that is over and left its child running says so: the handler that
\* waits for it frees the project's lock (terminateTree, cleanupError).
LeftoverIsReported == outcome # None /\ child = "running" => cleanup

\* However stderr is cut into chunks and oversized lines, the diagnosis is that
\* of the only line that is one, and an error carries it only when the child
\* wrote nothing on stdout (onStderr, processFailure).
DiagnosticLines ==
  {i \in 1 .. Len(said) - 2 : /\ SubSeq(said, i, i + 2) = Append(Diagnostic, "newline")
                              /\ i = 1 \/ said[i - 1] = "newline"}

DiagnosisIsFromOneLine ==
  /\ Len(said) <= StderrLimit => (diagnostic <=> Cardinality(DiagnosticLines) = 1)
  /\ upstream => diagnostic /\ stdoutBytes = 0

\* The call as its caller sees it.
Work ==
  CASE child \in {"none", "unborn"}   -> "none"
    [] child = "running"              -> "running"
    [] child \in {"exited", "closed"} -> "gone"

Call == INSTANCE ProviderCall WITH work <- Work

\* Whatever order the child's output, its end, the timers and the signal come
\* in, the call settles once and for good, answers only from a child that ended
\* by itself, and fails only after the child has ended or was killed (execute).
CallSettles == Call!Spec
=============================================================================
