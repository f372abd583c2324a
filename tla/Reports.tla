------------------------------- MODULE Reports -------------------------------
(***************************************************************************)
(* How the goroutines of a stage report: each carries out an operation     *)
(* (an upload, a download, a deletion, a refresh, a login, a creation) and *)
(* on the way sets the status line, logs what failed (emitErr) and sets    *)
(* the error line.  Every setting of a line waits for the event loop,      *)
(* every entry for room in the logger's channel.  main ends the event      *)
(* loop, stops the logger and with it the program, under whatever runs.    *)
(*                                                                         *)
(* The work between the reports is left out; an operation is the sequence  *)
(* of reports it makes.  The progress lines of an upload come from a       *)
(* goroutine that ManageUpload does not wait for.                          *)
(***************************************************************************)
EXTENDS Logger, StatusLine

CONSTANT MaxProgress    \* progress lines of an upload (a bound)

ASSUME ReportsAssumption == MaxProgress \in Nat /\ Entry = Author

Goroutine == Author

VARIABLES stage,        \* whose lines these are
          rest,         \* per goroutine: the reports it has still to make
          kind,         \* per goroutine: its operation
          progress,     \* per goroutine: progress lines its upload has still to set
          main,         \* main.go: in the event loop, after it, in logger.Stop, gone
          told,         \* history: whose logged error the error line showed
          late          \* history: a progress line was set after the upload's last

vars == <<loggerVars, lineVars, stage, rest, kind, progress, main, told, late>>

-----------------------------------------------------------------------------
(* The operations as sequences of reports. *)

Show(l, stays) == [do |-> "text", line |-> l, stays |-> stays]
Clear          == [do |-> "clear", line |-> "status", stays |-> TRUE]
EmitErr        == [do |-> "log", line |-> "error", stays |-> TRUE]

Begin   == Show("status", TRUE)         \* delay -1: "Opening ...", "Deleting ..."
Success == Show("status", FALSE)        \* delay 0: "Downloaded: ..."
Failure == Show("error", FALSE)         \* delay 0

\* The error of a failed upload, or of a download that got as far as its
\* deferred removal, is logged, lost, and reported as a success.
Upload   == {<<Success>>, <<EmitErr, Success>>}
Download == {<<Begin, Success>>, <<Begin, EmitErr, Success>>, <<EmitErr, Failure, Clear>>}
\* Mutant of Delete: a failure leaves the status line as it is.
DeleteUncleared == {<<Begin, Success>>, <<Begin, EmitErr, Failure>>}

Delete   == {<<Begin, Success>>, <<Begin, EmitErr, Failure, Clear>>}
Refresh  == {<<>>, <<EmitErr, Failure>>}
Login    == {<<Begin, Clear>>, <<Begin, EmitErr, Failure, Clear>>}
\* A password or a box that createBucket refuses: an error with delay -1.
Create   == Login \cup {<<Begin, Show("error", TRUE), Clear>>}

Operations ==
    IF stage = "entry" THEN [login |-> Login, create |-> Create]
    ELSE [upload |-> Upload, download |-> Download, delete |-> Delete, refresh |-> Refresh]

Init ==
    /\ LoggerInit /\ LineInit
    /\ stage \in {"entry", "interaction"}
    /\ rest = [g \in Goroutine |-> <<>>]
    /\ kind = [g \in Goroutine |-> "none"]
    /\ progress = [g \in Goroutine |-> 0]
    /\ main = "loop" /\ told = {} /\ late = FALSE

-----------------------------------------------------------------------------

Running == main # "gone" /\ worker # "failed"

\* A key, or a page that is built, starts an operation.
Start(g) ==
    /\ main = "loop" /\ kind[g] = "none"
    /\ \E k \in DOMAIN Operations :
        /\ kind' = [kind EXCEPT ![g] = k]
        /\ \E reports \in Operations[k] : rest' = [rest EXCEPT ![g] = reports]
        /\ progress' = [progress EXCEPT ![g] = IF k = "upload" THEN MaxProgress ELSE 0]
    /\ UNCHANGED <<loggerVars, lineVars, stage, main, told, late>>

NextReport(g) == Head(rest[g])
Made(g) == rest' = [rest EXCEPT ![g] = Tail(rest[g])]

\* emitErr
LogError(g) ==
    /\ rest[g] # <<>> /\ NextReport(g).do = "log"
    /\ Log(g) /\ Made(g)
    /\ UNCHANGED <<lineVars, stage, kind, progress, main, told, late>>

\* setStatus and setError, run by the event loop: without it they wait for ever.
SetLine(g) ==
    /\ main = "loop" /\ rest[g] # <<>> /\ NextReport(g).do \in {"text", "clear"}
    /\ LET r == NextReport(g)
       IN  /\ SetText(r.line, IF r.do = "clear" THEN Empty
                              ELSE [by |-> g, step |-> Len(rest[g]), stays |-> r.stays])
           /\ told' = IF r = Failure THEN told \cup {g} ELSE told
    /\ Made(g)
    /\ UNCHANGED <<loggerVars, stage, kind, progress, main, late>>

\* A progress line, from the goroutine ManageUpload started.
SetProgress(g) ==
    /\ main = "loop" /\ progress[g] > 0
    /\ SetText("status", [by |-> g, step |-> 0, stays |-> TRUE])
    /\ progress' = [progress EXCEPT ![g] = @ - 1]
    /\ late' = (late \/ rest[g] = <<>>)
    /\ UNCHANGED <<loggerVars, stage, rest, kind, main, told>>

Timer(timer) ==
    /\ main = "loop" /\ timer \in timers
    /\ TimerFires(timer)
    /\ UNCHANGED <<loggerVars, stage, rest, kind, progress, main, told, late>>

Worker ==
    /\ WorkerRun \/ WorkerDrain
    /\ UNCHANGED <<lineVars, stage, rest, kind, progress, main, told, late>>

\* Ctrl-C ends the event loop.
Quit ==
    /\ main = "loop" /\ main' = "left"
    /\ UNCHANGED <<loggerVars, lineVars, stage, rest, kind, progress, told, late>>

\* The deferred logger.Stop, and then the end of the process.
StopLogger ==
    /\ main = "left" /\ main' = "stop"
    /\ Stop
    /\ UNCHANGED <<lineVars, stage, rest, kind, progress, told, late>>

Exit ==
    /\ main = "stop" /\ Stopped /\ main' = "gone"
    /\ UNCHANGED <<loggerVars, lineVars, stage, rest, kind, progress, told, late>>

Report(g) == LogError(g) \/ SetLine(g)

Main == StopLogger \/ Exit

Next ==
    \/ /\ Running
       /\ \/ \E g \in Goroutine : Start(g) \/ Report(g) \/ SetProgress(g)
          \/ \E timer \in timers : Timer(timer)
          \/ Worker \/ Quit \/ Main
    \/ ~Running /\ UNCHANGED vars

Spec == Init /\ [][Next]_vars

\* Goroutines that can run do, timers fire, and the event loop takes what is
\* queued; nobody has to start an operation or to leave.
FairSpec ==
    /\ Spec
    /\ \A g \in Goroutine : WF_vars(Running /\ Report(g)) /\ WF_vars(Running /\ SetProgress(g))
    /\ WF_vars(Running /\ \E timer \in timers : Timer(timer))
    /\ WF_vars(Running /\ Worker)
    /\ WF_vars(Running /\ Main)

-----------------------------------------------------------------------------
(* Properties. *)

AnyReport == {Begin, Success, Failure, Clear, EmitErr, Show("error", TRUE)}

TypeOK ==
    /\ LoggerTypeOK /\ LineTypeOK
    /\ stage \in {"entry", "interaction"}
    /\ rest \in [Goroutine -> Seq(AnyReport)]
    /\ kind \in [Goroutine -> DOMAIN Operations \cup {"none"}]
    /\ progress \in [Goroutine -> 0 .. MaxProgress]
    /\ main \in {"loop", "left", "stop", "gone"}
    /\ told \subseteq Goroutine /\ late \in BOOLEAN

RangeOf(seq) == {seq[i] : i \in DOMAIN seq}

\* An error that the user was shown is in the log when the program is gone, or
\* before that on its way there: Log comes before setError, and Stop writes
\* what is left.  (A write that fails ends the program at once.)
ShownErrorsAreLogged ==
    worker # "failed" =>
        told \subseteq RangeOf(logFile) \cup (IF main = "gone" THEN {} ELSE RangeOf(logs))

\* The status line is empty again and again: no operation, however it ends and
\* whichever others run with it, leaves its text there.  (An upload's progress
\* line that comes after its last report may.)
StatusLineEmpties ==
    []<>(line["status"] = Empty \/ late \/ main # "loop" \/ ~Running)

\* The program ends when it is told to, with goroutines waiting on the event
\* loop that is gone and on the channel of the logger.
ProgramEnds == main = "left" ~> ~Running

\* "delay = -1: not time out" (stages/interaction/tui/tui.go:113): no timer ends
\* a text that is not to time out.
StickyTextsStay ==
    [][\A l \in Line : line[l] # Empty /\ line[l].stays /\ line'[l] = Empty
                       => timers' = timers]_vars
=============================================================================
