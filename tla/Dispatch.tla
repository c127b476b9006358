------------------------------ MODULE Dispatch ------------------------------
(***************************************************************************)
(* What the abstract class dispatch (incl/dispatch.h) promises to a caller *)
(* that fans tasks out and waits for them: a task that was accepted        *)
(* finishes at most once, waitForCompletion returns only when every task   *)
(* of the batch has finished, and it reports exactly the tasks of that     *)
(* batch that failed.  threadPool and nwDispatch are the two               *)
(* implementations; ThreadPool and NwDispatch are shown to refine this.    *)
(***************************************************************************)
CONSTANT
  Task        \* the identifiers a task can be given

VARIABLES
  phase,      \* "open"; "waiting" inside waitForCompletion; "over" at the end
  issued,     \* every identifier handed out so far
  batch,      \* tasks dispatched since the last waitForCompletion returned
  finished,   \* tasks of the batch whose result is known
  failed,     \* the finished tasks that failed
  reported    \* the failedIds of the last waitForCompletion

vars == <<phase, issued, batch, finished, failed, reported>>

TypeOK ==
  /\ phase \in {"open", "waiting", "over"}
  /\ issued \subseteq Task
  /\ batch \subseteq issued
  /\ finished \subseteq batch
  /\ failed \subseteq finished
  /\ reported \subseteq issued

Init ==
  /\ phase = "open"
  /\ issued = {} /\ batch = {} /\ finished = {} /\ failed = {}
  /\ reported = {}

\* dispatchTask: the task gets an identifier never used before.
DispatchTask(t) ==
  /\ phase = "open"
  /\ t \notin issued
  /\ issued' = issued \cup {t}
  /\ batch' = batch \cup {t}
  /\ UNCHANGED <<phase, finished, failed, reported>>

\* A task that cannot run at all is accepted and has failed at once.
RejectTask(t) ==
  /\ phase = "open"
  /\ t \notin issued
  /\ issued' = issued \cup {t}
  /\ batch' = batch \cup {t}
  /\ finished' = finished \cup {t}
  /\ failed' = failed \cup {t}
  /\ UNCHANGED <<phase, reported>>

\* The result of a task arrives, once.
Finish(t) ==
  /\ phase # "over"
  /\ t \in batch \ finished
  /\ finished' = finished \cup {t}
  /\ failed' \in {failed, failed \cup {t}}
  /\ UNCHANGED <<phase, issued, batch, reported>>

\* waitForCompletion is called.
Wait ==
  /\ phase = "open"
  /\ phase' = "waiting"
  /\ UNCHANGED <<issued, batch, finished, failed, reported>>

\* waitForCompletion returns: nothing is outstanding, and the failures of
\* this batch, all of them and no others, are reported.
Return ==
  /\ phase = "waiting"
  /\ finished = batch
  /\ phase' = "open"
  /\ reported' = failed
  /\ batch' = {} /\ finished' = {} /\ failed' = {}
  /\ UNCHANGED issued

\* terminate is called, or the process dies: nothing more is promised.
End ==
  /\ phase # "over"
  /\ phase' = "over"
  /\ UNCHANGED <<issued, batch, finished, failed, reported>>

Next ==
  \/ \E t \in Task : DispatchTask(t) \/ RejectTask(t) \/ Finish(t)
  \/ Wait
  \/ Return
  \/ End

Spec == Init /\ [][Next]_vars
=============================================================================
