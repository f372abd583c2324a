------------------------------- MODULE Logger -------------------------------
(***************************************************************************)
(* The native logger (logger/native/native.go): Log puts an entry into a   *)
(* buffered channel and waits when it is full; one worker writes entries   *)
(* to the file, and after Stop what is left of them.  Rotate is called     *)
(* from nowhere and left out.  Reports composes this with its callers.     *)
(***************************************************************************)
EXTENDS Integers, Sequences

CONSTANTS Entry,        \* what is logged
          LogCap        \* capacity of the channel

ASSUME LoggerAssumption == LogCap \in Nat \ {0}

VARIABLES logs,         \* the channel
          cancelled,    \* is the worker's context done?
          worker,       \* run, drain, ended; failed: a write failed, which panics
          logFile       \* the entries on disk, in order

loggerVars == <<logs, cancelled, worker, logFile>>

LoggerInit == logs = <<>> /\ cancelled = FALSE /\ worker = "run" /\ logFile = <<>>

\* Mutant of Log: it does not wait for room.
LogAtOnce(entry) ==
    /\ logs' = Append(logs, entry)
    /\ UNCHANGED <<cancelled, worker, logFile>>

Log(entry) ==
    /\ Len(logs) < LogCap
    /\ logs' = Append(logs, entry)
    /\ UNCHANGED <<cancelled, worker, logFile>>

\* processLog of the next entry; an error ends the program.
ProcessLog ==
    /\ logs # <<>> /\ logs' = Tail(logs)
    /\ \/ logFile' = Append(logFile, Head(logs)) /\ UNCHANGED worker
       \/ worker' = "failed" /\ UNCHANGED logFile
    /\ UNCHANGED cancelled

\* The first loop: when both can be received, select takes either.
WorkerRun ==
    /\ worker = "run"
    /\ \/ ProcessLog
       \/ cancelled /\ worker' = "drain" /\ UNCHANGED <<logs, cancelled, logFile>>

\* Mutant of WorkerDrain: the worker ends as soon as it is told to.
WorkerLeaves ==
    /\ worker = "drain"
    /\ worker' = "ended" /\ UNCHANGED <<logs, cancelled, logFile>>

\* The second loop: until the channel is empty.
WorkerDrain ==
    /\ worker = "drain"
    /\ \/ ProcessLog
       \/ logs = <<>> /\ worker' = "ended" /\ UNCHANGED <<logs, cancelled, logFile>>

\* Mutant of Stop: the context is not cancelled.
StopWaiting == UNCHANGED loggerVars

\* Stop cancels the context and waits until the worker has ended.
Stop    == cancelled' = TRUE /\ UNCHANGED <<logs, worker, logFile>>
Stopped == worker = "ended"

LoggerTypeOK ==
    /\ logs \in Seq(Entry) /\ Len(logs) <= LogCap
    /\ cancelled \in BOOLEAN /\ worker \in {"run", "drain", "ended", "failed"}
    /\ logFile \in Seq(Entry)
=============================================================================
