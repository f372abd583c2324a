----------------------------- MODULE StatusLine -----------------------------
(***************************************************************************)
(* The status and error lines of a stage (SetStatus and SetError in        *)
(* stages/interaction/tui/tui.go and stages/entry/tui/tui.go).  A text is  *)
(* shown by the event loop; one with a delay of 0 or more gets a timer     *)
(* goroutine that empties the line when it is over, whatever the line      *)
(* shows then.  How long a delay is, is left out: a timer fires at any     *)
(* later time.  Reports composes this with the callers.                    *)
(***************************************************************************)
EXTENDS Integers

CONSTANT Author         \* whoever sets texts

VARIABLES line,         \* what each line shows
          timers        \* the timers started and not over: line and text

lineVars == <<line, timers>>

Line  == {"status", "error"}
Text  == [by : Author, step : Nat, stays : BOOLEAN]
Empty == [stays |-> TRUE]

LineInit == line = [l \in Line |-> Empty] /\ timers = {}

\* The queued function has run, which SetStatus and SetError wait for; then the
\* timer is started, unless the text is empty or its delay -1.
SetText(l, text) ==
    /\ line' = [line EXCEPT ![l] = text]
    /\ timers' = IF text.stays THEN timers ELSE timers \cup {[line |-> l, text |-> text]}

TimerFires(timer) ==
    /\ line' = [line EXCEPT ![timer.line] = Empty]
    /\ timers' = timers \ {timer}

LineTypeOK ==
    /\ line \in [Line -> Text \cup {Empty}]
    /\ timers \subseteq [line : Line, text : Text]
    /\ \A timer \in timers : ~timer.text.stays
=============================================================================
