------------------------------- MODULE ProcessRun -------------------------------
(***************************************************************************)
(* One call of runner.RunProtocol (tui/internal/runner/process.go): the    *)
(* core, an agent or a validator is started, its output is collected up to *)
(* a limit, a deadline or a cancellation kills it, and what it wrote is    *)
(* taken as the answer or refused.  The program owes nothing: it may hang, *)
(* write without end, die, or leave another process behind that holds its  *)
(* output open.                                                            *)
(*                                                                         *)
(* What os/exec does is modelled as Run uses it: Kill, ObserveExit,        *)
(* DelayOver and Drained are its Wait.  Output comes in chunks; the first  *)
(* and the last part of an answer to this request are told from any other. *)
(* No caller discloses secrets, so Sanitize changes nothing.               *)
(*                                                                         *)
(* The names of the specification begin with Run, so that a module can     *)
(* extend this one and AgentRevision.                                      *)
(***************************************************************************)
EXTENDS Naturals, Sequences

CONSTANTS
  Capacity,  \* bound: chunks a pipe holds
  Limit      \* StdoutLimit and StderrLimit, in chunks

ASSUME RunAssumption == Capacity \in Nat \ {0} /\ Limit \in Nat \ {0}

Stream == {"stdout", "stderr"}
Chunk == [stdout |-> {"first", "last", "other"}, stderr |-> {"other"}]
Verdicts == {"answer", "invalid", "limit", "canceled", "timeout", "failed"}

VARIABLES
  limited,   \* the caller set StdoutLimit, and does not rely on the default
  pc,
  child,     \* the process: running, or exited with 0 ("ok") or otherwise ("bad")
  heir,      \* a process it left behind has its output open
  pipe,      \* written and not read yet
  kept,      \* boundedBuffer.Buffer
  exceeded,  \* the streams whose boundedBuffer.exceeded is set
  expired, canceled,  \* the deadline passed, the caller gave up
  killed,
  delay,     \* the WaitDelay timer runs
  closed,    \* it ran out and Wait closed the pipes
  waitError, \* cmd.Run will return an error
  result,    \* None until RunProtocol returns
  written    \* history: chunks written, counted up to one more than the limit

None == "none"
buffers == <<pipe, kept, exceeded, written>>
context == <<limited, expired, canceled>>
waiting == <<killed, delay, closed, waitError>>
runVars == <<pc, child, heir, buffers, context, waiting, result>>

RunInit ==
  /\ limited \in BOOLEAN
  /\ pc = "start" /\ result = None
  /\ child = "running" /\ heir = FALSE
  /\ pipe = [s \in Stream |-> <<>>] /\ kept = [s \in Stream |-> <<>>]
  /\ exceeded = {} /\ written = [s \in Stream |-> 0]
  /\ expired = FALSE /\ canceled = FALSE
  /\ killed = FALSE /\ delay = FALSE /\ closed = FALSE /\ waitError = FALSE

Started == pc \in {"wait", "drain", "verdict"}

-------------------------------------------------------------------------------
\* The program and what it leaves behind.
Write(s) ==
  /\ Started /\ ~closed /\ (child = "running" \/ heir)
  /\ Len(pipe[s]) < Capacity
  /\ \E chunk \in Chunk[s] : pipe' = [pipe EXCEPT ![s] = Append(@, chunk)]
  /\ written' = [written EXCEPT ![s] = IF @ > Limit THEN @ ELSE @ + 1]
  /\ UNCHANGED <<pc, child, heir, kept, exceeded, context, waiting, result>>

LeaveHeir ==
  /\ Started /\ child = "running" /\ ~heir
  /\ heir' = TRUE
  /\ UNCHANGED <<pc, child, buffers, context, waiting, result>>

HeirExits ==
  /\ heir
  /\ heir' = FALSE
  /\ UNCHANGED <<pc, child, buffers, context, waiting, result>>

Exit ==
  /\ Started /\ child = "running"
  /\ child' \in {"ok", "bad"}
  /\ UNCHANGED <<pc, heir, buffers, context, waiting, result>>

\* Nobody ignores a kill.
Die ==
  /\ killed /\ child = "running"
  /\ child' = "bad"
  /\ UNCHANGED <<pc, heir, buffers, context, waiting, result>>

-------------------------------------------------------------------------------
FitsBelow(s) == Len(kept[s]) + 1 < Limit

FitsAbove(s) == Len(kept[s]) <= Limit

Fits(s) == Len(kept[s]) + 1 <= Limit

CopyQuietly(s) ==
  /\ pc \in {"wait", "drain"} /\ ~closed /\ pipe[s] # <<>>
  /\ pipe' = [pipe EXCEPT ![s] = Tail(@)]
  /\ IF Fits(s)
       THEN kept' = [kept EXCEPT ![s] = Append(@, Head(pipe[s]))]
       ELSE UNCHANGED kept
  /\ UNCHANGED <<pc, child, heir, exceeded, written, context, waiting, result>>

\* boundedBuffer.Write: what is past the limit is read and dropped, so that the
\* program never has to wait for room.
Copy(s) ==
  /\ pc \in {"wait", "drain"} /\ ~closed /\ pipe[s] # <<>>
  /\ pipe' = [pipe EXCEPT ![s] = Tail(@)]
  /\ IF Fits(s)
       THEN /\ kept' = [kept EXCEPT ![s] = Append(@, Head(pipe[s]))]
            /\ UNCHANGED exceeded
       ELSE /\ exceeded' = exceeded \cup {s}
            /\ UNCHANGED kept
  /\ UNCHANGED <<pc, child, heir, written, context, waiting, result>>

\* The program is started, or cannot be.
Start ==
  /\ pc = "start"
  /\ \/ pc' = "wait" /\ UNCHANGED result
     \/ pc' = "returned" /\ result' = "failed"
  /\ UNCHANGED <<child, heir, buffers, context, waiting>>

Deadline ==
  /\ Started /\ ~expired
  /\ expired' = TRUE
  /\ UNCHANGED <<limited, pc, child, heir, buffers, canceled, waiting, result>>

Cancel ==
  /\ Started /\ ~canceled
  /\ canceled' = TRUE
  /\ UNCHANGED <<limited, pc, child, heir, buffers, expired, waiting, result>>

\* The context ends before the process does: it is killed and the delay begins.
Kill ==
  /\ pc = "wait" /\ (expired \/ canceled) /\ ~killed
  /\ killed' = TRUE /\ delay' = TRUE
  /\ UNCHANGED <<pc, child, heir, buffers, context, closed, waitError, result>>

ObserveWithoutDelay ==
  /\ pc = "wait" /\ child # "running"
  /\ pc' = "drain"
  /\ waitError' = (waitError \/ killed \/ child = "bad")
  /\ UNCHANGED <<child, heir, buffers, context, killed, delay, closed, result>>

\* The process has ended; its output need not have.
ObserveExit ==
  /\ pc = "wait" /\ child # "running"
  /\ pc' = "drain" /\ delay' = TRUE
  /\ waitError' = (waitError \/ killed \/ child = "bad")
  /\ UNCHANGED <<child, heir, buffers, context, killed, closed, result>>

\* WaitDelay is over: no more output is waited for.
DelayOver ==
  /\ pc \in {"wait", "drain"} /\ delay /\ ~closed
  /\ closed' = TRUE /\ waitError' = TRUE
  /\ UNCHANGED <<pc, child, heir, buffers, context, killed, delay, result>>

EndOfOutput == ~heir /\ \A s \in Stream : pipe[s] = <<>>

Drained ==
  /\ pc = "drain" /\ (closed \/ EndOfOutput)
  /\ pc' = "verdict"
  /\ UNCHANGED <<child, heir, buffers, context, waiting, result>>

\* DecodeResponse: one message, complete, about this request, and nothing else.
IsAnswer(output) == output = <<"first", "last">>

\* RunProtocol decodes the output of a command without an error.  What it cannot
\* decode it takes for cut off if it fills a limit the caller set.
Decoded ==
  IF IsAnswer(kept["stdout"]) THEN "answer"
  ELSE IF limited /\ Len(kept["stdout"]) >= Limit THEN "limit" ELSE "invalid"

\* Run looks at the buffers, the contexts and the error of the command, in this
\* order.
Verdict ==
  /\ pc = "verdict"
  /\ result' = CASE exceeded # {} -> "limit"
                 [] exceeded = {} /\ canceled -> "canceled"
                 [] exceeded = {} /\ ~canceled /\ expired -> "timeout"
                 [] OTHER -> IF waitError THEN "failed" ELSE Decoded
  /\ pc' = "returned"
  /\ UNCHANGED <<child, heir, buffers, context, waiting>>

Program == LeaveHeir \/ HeirExits \/ Exit \/ \E s \in Stream : Write(s)
Wait == Kill \/ ObserveExit \/ DelayOver \/ Drained

RunNext ==
  \/ Program \/ Die
  \/ \E s \in Stream : Copy(s)
  \/ Start \/ Deadline \/ Cancel
  \/ Wait \/ Verdict

RunSpec == RunInit /\ [][RunNext]_runVars

\* Timers run out, killed processes die, and Run's own steps are taken.  The
\* program owes nothing, and nobody has to cancel.
FairSpec ==
  /\ RunSpec
  /\ WF_runVars(Start) /\ WF_runVars(Deadline) /\ WF_runVars(Kill) /\ WF_runVars(Die)
  /\ WF_runVars(ObserveExit) /\ WF_runVars(DelayOver) /\ WF_runVars(Drained) /\ WF_runVars(Verdict)

-------------------------------------------------------------------------------
\* What each variable holds.
RunTypeOK ==
  /\ pc \in {"start", "wait", "drain", "verdict", "returned"}
  /\ child \in {"running", "ok", "bad"}
  /\ \A s \in Stream :
       /\ pipe[s] \in Seq(Chunk[s]) /\ Len(pipe[s]) <= Capacity
       /\ kept[s] \in Seq(Chunk[s]) /\ Len(kept[s]) <= Limit
  /\ exceeded \subseteq Stream /\ written \in [Stream -> 0 .. Limit + 1]
  /\ {limited, heir, expired, canceled, killed, delay, closed, waitError} \subseteq BOOLEAN
  /\ result \in Verdicts \cup {None}

\* What is taken as the answer is everything the program and whatever it left
\* behind have written and will ever write: nothing was cut off at the limit or
\* left in a pipe, nobody holds the output, and the program ended by itself.
AcceptedIsComplete ==
  result = "answer" =>
    /\ IsAnswer(kept["stdout"])
    /\ \A s \in Stream : written[s] = Len(kept[s])
    /\ child = "ok" /\ ~heir /\ ~killed

\* No call is refused without a reason: a program that gives its answer, exits
\* with 0 and leaves nobody behind fails only if it cannot be started, the deadline
\* passes, the caller gives up, it writes more than the limit, or its output is
\* still coming when the delay is over.  A limit that was only just reached is a
\* reason when the caller set it and what fills it is no answer.
RefusalHasReason ==
  /\ result = "limit" =>
       \/ \E s \in Stream : written[s] > Limit
       \/ limited /\ written["stdout"] = Limit /\ ~IsAnswer(kept["stdout"])
  /\ result = "canceled" => canceled
  /\ result = "timeout" => expired
  /\ result = "failed" => child \in {"running", "bad"} \/ closed
  /\ result = "invalid" => /\ child = "ok" /\ ~IsAnswer(kept["stdout"])
                           /\ \A s \in Stream : written[s] = Len(kept[s])
                           /\ limited => written["stdout"] < Limit

\* A call that was made returns, whatever the program does or leaves behind.
RunReturns == pc = "start" ~> pc = "returned"
===============================================================================
