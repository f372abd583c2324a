---------------------------- MODULE ReportsProofs ----------------------------
(***************************************************************************)
(* Proofs about Reports, for any number of goroutines, any capacity of the *)
(* logger's channel and any number of progress lines: what the user was    *)
(* shown as an error is in the log.                                        *)
(*                                                                         *)
(* An operation logs before it shows (LogsFirst), so what was shown is in  *)
(* the channel or in the file; and the channel is empty when the program   *)
(* ends, because the worker, once the event loop is gone and nothing more  *)
(* can be shown, ends only on an empty channel (EndInv).                   *)
(***************************************************************************)
EXTENDS Reports, TLAPS

Logged == RangeOf(logFile) \cup RangeOf(logs)

\* Nobody has a failure to show that is not in the log or, before it, to log.
LogsFirst ==
    \A g \in Goroutine : \A i \in DOMAIN rest[g] :
        rest[g][i] = Failure => g \in Logged \/ \E j \in 1 .. i - 1 : rest[g][j] = EmitErr

\* The end of the program in its order.
EndInv ==
    /\ worker \in {"drain", "ended"} => cancelled
    /\ cancelled => main \in {"stop", "gone"}
    /\ main = "gone" => worker = "ended"
    /\ worker = "ended" => told \subseteq RangeOf(logFile)

IInv ==
    /\ TypeOK
    /\ EndInv
    /\ worker # "failed" => LogsFirst /\ told \subseteq Logged

-----------------------------------------------------------------------------
(* Sequences. *)

\* An entry that is appended is in the sequence.
LEMMA RangeAppend ==
    ASSUME NEW S, NEW s \in Seq(S), NEW e \in S
    PROVE  RangeOf(Append(s, e)) = RangeOf(s) \cup {e}
<1>1. /\ DOMAIN Append(s, e) = 1 .. Len(s) + 1
      /\ DOMAIN s = 1 .. Len(s) /\ Len(s) \in Nat
      /\ \A i \in 1 .. Len(s) : Append(s, e)[i] = s[i]
      /\ Append(s, e)[Len(s) + 1] = e
    OBVIOUS
<1>2. RangeOf(Append(s, e)) \subseteq RangeOf(s) \cup {e}
    BY <1>1 DEF RangeOf
<1>3. RangeOf(s) \cup {e} \subseteq RangeOf(Append(s, e))
    BY <1>1 DEF RangeOf
<1> QED
    BY <1>2, <1>3

\* The first entry and the others are all there are.
LEMMA RangeHeadTail ==
    ASSUME NEW S, NEW s \in Seq(S), s # <<>>
    PROVE  /\ Head(s) \in S /\ Tail(s) \in Seq(S) /\ Len(Tail(s)) = Len(s) - 1
           /\ RangeOf(s) = {Head(s)} \cup RangeOf(Tail(s))
<1>1. /\ Len(s) \in Nat \ {0} /\ DOMAIN s = 1 .. Len(s) /\ Head(s) = s[1]
      /\ Tail(s) \in Seq(S) /\ DOMAIN Tail(s) = 1 .. Len(s) - 1 /\ Len(Tail(s)) = Len(s) - 1
      /\ \A i \in 1 .. Len(s) - 1 : Tail(s)[i] = s[i + 1]
    OBVIOUS
<1>2. Head(s) \in S
    BY <1>1
<1>3. RangeOf(s) \subseteq {Head(s)} \cup RangeOf(Tail(s))
  <2> SUFFICES ASSUME NEW i \in 1 .. Len(s), i # 1
               PROVE  s[i] \in RangeOf(Tail(s))
      BY <1>1 DEF RangeOf
  <2>1. i - 1 \in 1 .. Len(s) - 1 /\ Tail(s)[i - 1] = s[i]
      BY <1>1
  <2> QED
      BY <1>1, <2>1 DEF RangeOf
<1>4. {Head(s)} \cup RangeOf(Tail(s)) \subseteq RangeOf(s)
    BY <1>1 DEF RangeOf
<1> QED
    BY <1>1, <1>2, <1>3, <1>4

-----------------------------------------------------------------------------
(* Operations. *)

\* A failure is a report of its own.
LEMMA FailureDiffers ==
    /\ Failure # Success /\ Failure # Begin /\ Failure # Clear /\ Failure # EmitErr
    /\ Failure # Show("error", TRUE)
    BY DEF Failure, Success, Begin, Clear, EmitErr, Show

\* Every operation logs what it shows as a failure, before it shows it.
LEMMA OperationLogsFirst ==
    ASSUME stage \in {"entry", "interaction"},
           NEW k \in DOMAIN Operations, NEW reports \in Operations[k]
    PROVE  /\ reports \in Seq(AnyReport)
           /\ \A i \in DOMAIN reports :
                reports[i] = Failure => \E j \in 1 .. i - 1 : reports[j] = EmitErr
<1>0. PICK refusal : refusal = Show("error", TRUE)
    OBVIOUS
<1>1. Operations[k] \in {Upload, Download, Delete, Refresh, Login, Create}
    BY DEF Operations
<1>2. reports \in {<<>>, <<Success>>, <<EmitErr, Success>>, <<Begin, Success>>,
                   <<Begin, EmitErr, Success>>, <<EmitErr, Failure, Clear>>,
                   <<Begin, EmitErr, Failure, Clear>>, <<EmitErr, Failure>>, <<Begin, Clear>>,
                   <<Begin, refusal, Clear>>}
    BY <1>0, <1>1 DEF Upload, Download, Delete, Refresh, Login, Create
<1>3. {Success, EmitErr, Begin, Failure, Clear, refusal} \subseteq AnyReport
    BY <1>0 DEF AnyReport
<1>a. refusal # Failure
    BY <1>0, FailureDiffers
<1>4. ASSUME reports \in {<<>>, <<Success>>, <<EmitErr, Success>>, <<Begin, Success>>,
                           <<Begin, EmitErr, Success>>, <<Begin, Clear>>,
                           <<Begin, refusal, Clear>>}
      PROVE  reports \in Seq(AnyReport) /\ \A i \in DOMAIN reports : reports[i] # Failure
  <2>1. CASE reports = <<>>
      BY <2>1
  <2>2. CASE reports = <<Success>>
      BY <2>2, <1>3, FailureDiffers
  <2>3. CASE reports = <<EmitErr, Success>>
      BY <2>3, <1>3, FailureDiffers
  <2>4. CASE reports = <<Begin, Success>>
      BY <2>4, <1>3, FailureDiffers
  <2>5. CASE reports = <<Begin, EmitErr, Success>>
      BY <2>5, <1>3, FailureDiffers
  <2>6. CASE reports = <<Begin, Clear>>
      BY <2>6, <1>3, FailureDiffers
  <2>7. CASE reports = <<Begin, refusal, Clear>>
      BY <2>7, <1>3, <1>a, FailureDiffers
  <2> QED
      BY <1>4, <2>1, <2>2, <2>3, <2>4, <2>5, <2>6, <2>7
<1>5. CASE reports \in {<<EmitErr, Failure, Clear>>, <<EmitErr, Failure>>}
  <2>1. reports \in Seq(AnyReport) /\ reports[1] = EmitErr /\ DOMAIN reports \subseteq 1 .. 3
    <3>1. CASE reports = <<EmitErr, Failure, Clear>>
        BY <1>3, <3>1
    <3>2. CASE reports = <<EmitErr, Failure>>
        BY <1>3, <3>2
    <3> QED
        BY <1>5, <3>1, <3>2
  <2> SUFFICES ASSUME NEW i \in DOMAIN reports, reports[i] = Failure
               PROVE  1 \in 1 .. i - 1
      BY <2>1
  <2> QED
      BY <2>1, FailureDiffers
<1>6. CASE reports = <<Begin, EmitErr, Failure, Clear>>
  <2>1. /\ reports \in Seq(AnyReport) /\ DOMAIN reports = 1 .. 4
        /\ reports[1] = Begin /\ reports[2] = EmitErr
      BY <1>3, <1>6
  <2> SUFFICES ASSUME NEW i \in DOMAIN reports, reports[i] = Failure
               PROVE  2 \in 1 .. i - 1
      BY <2>1
  <2> QED
      BY <2>1, FailureDiffers
<1> QED
    BY <1>2, <1>4, <1>5, <1>6

\* What a report tells of its line.
LEMMA ReportType ==
    ASSUME NEW r \in AnyReport
    PROVE  r.line \in Line /\ r.stays \in BOOLEAN
<1>1. CASE r \in {Begin, Success, Failure, Show("error", TRUE)}
  <2>1. PICK l \in {"status", "error"}, b \in BOOLEAN : r = [do |-> "text", line |-> l, stays |-> b]
      BY <1>1 DEF Begin, Success, Failure, Show
  <2> QED
      BY <2>1 DEF Line
<1>2. CASE r = Clear
    BY <1>2 DEF Clear, Line
<1>3. CASE r = EmitErr
    BY <1>3 DEF EmitErr, Line
<1> QED
    BY <1>1, <1>2, <1>3 DEF AnyReport

-----------------------------------------------------------------------------
(* Steps. *)

LEMMA InitIInv == Init => IInv
<1> SUFFICES ASSUME Init PROVE IInv
    OBVIOUS
<1> USE DEF Init, LoggerInit, LineInit
<1>1. LoggerTypeOK
  <2>1. <<>> \in Seq(Entry) /\ Len(<<>>) <= LogCap
      BY LoggerAssumption
  <2>2. cancelled \in BOOLEAN /\ worker \in {"run", "drain", "ended", "failed"}
      OBVIOUS
  <2> QED
      BY <2>1, <2>2 DEF LoggerTypeOK
<1>2. LineTypeOK
    BY DEF LineTypeOK
<1>3. TypeOK
  <2>1. rest \in [Goroutine -> Seq(AnyReport)]
    <3>1. <<>> \in Seq(AnyReport)
        OBVIOUS
    <3> QED
        BY <3>1
  <2>2. kind \in [Goroutine -> DOMAIN Operations \cup {"none"}]
      OBVIOUS
  <2>3. progress \in [Goroutine -> 0 .. MaxProgress]
      BY ReportsAssumption
  <2> QED
      BY <1>1, <1>2, <2>1, <2>2, <2>3 DEF TypeOK
<1>4. EndInv
    BY DEF EndInv
<1>5. LogsFirst /\ told \subseteq Logged
    BY DEF LogsFirst
<1> QED
    BY <1>3, <1>4, <1>5 DEF IInv

LEMMA StartIInv ==
    ASSUME IInv, Running, NEW g \in Goroutine, Start(g)
    PROVE  IInv'
<1>0. PICK k \in DOMAIN Operations :
        /\ kind' = [kind EXCEPT ![g] = k]
        /\ \E reports \in Operations[k] : rest' = [rest EXCEPT ![g] = reports]
        /\ progress' = [progress EXCEPT ![g] = IF k = "upload" THEN MaxProgress ELSE 0]
    BY DEF Start
<1>1. PICK reports \in Operations[k] :
        /\ kind' = [kind EXCEPT ![g] = k]
        /\ rest' = [rest EXCEPT ![g] = reports]
        /\ progress' = [progress EXCEPT ![g] = IF k = "upload" THEN MaxProgress ELSE 0]
    BY <1>0
<1>2. UNCHANGED <<loggerVars, lineVars, stage, main, told, late>>
    BY DEF Start
<1>3. /\ reports \in Seq(AnyReport)
      /\ \A i \in DOMAIN reports :
            reports[i] = Failure => \E j \in 1 .. i - 1 : reports[j] = EmitErr
    BY OperationLogsFirst DEF IInv, TypeOK
<1>4. TypeOK'
  <2>1. LoggerTypeOK' /\ LineTypeOK'
      BY <1>2 DEF IInv, TypeOK, LoggerTypeOK, LineTypeOK, loggerVars, lineVars
  <2>2. Operations' = Operations
      BY <1>2 DEF Operations
  <2>3. rest' \in [Goroutine -> Seq(AnyReport)]
      BY <1>1, <1>3 DEF IInv, TypeOK
  <2>4. kind' \in [Goroutine -> DOMAIN Operations \cup {"none"}]
      BY <1>1 DEF IInv, TypeOK
  <2>5. progress' \in [Goroutine -> 0 .. MaxProgress]
      BY <1>1, ReportsAssumption DEF IInv, TypeOK
  <2> QED
      BY <1>2, <2>1, <2>2, <2>3, <2>4, <2>5 DEF IInv, TypeOK
<1>5. EndInv'
    BY <1>2 DEF IInv, EndInv, loggerVars, RangeOf
<1>6. Logged' = Logged
    BY <1>2 DEF Logged, RangeOf, loggerVars
<1>7. LogsFirst'
    BY <1>1, <1>3, <1>6 DEF IInv, LogsFirst, TypeOK, Running
<1> QED
    BY <1>2, <1>4, <1>5, <1>6, <1>7 DEF IInv, Running, loggerVars

\* What every step but Start leaves of the operations.
LEMMA MadeType ==
    ASSUME IInv, NEW g \in Goroutine, rest[g] # <<>>, Made(g)
    PROVE  /\ rest' \in [Goroutine -> Seq(AnyReport)]
           /\ \A h \in Goroutine \ {g} : rest'[h] = rest[h]
           /\ rest'[g] = Tail(rest[g])
           /\ rest[g] \in Seq(AnyReport) /\ NextReport(g) \in AnyReport
<1>1. rest[g] \in Seq(AnyReport) /\ rest \in [Goroutine -> Seq(AnyReport)]
    BY DEF IInv, TypeOK
<1>2. Tail(rest[g]) \in Seq(AnyReport) /\ Head(rest[g]) \in AnyReport
    BY <1>1, RangeHeadTail
<1> QED
    BY <1>1, <1>2 DEF Made, NextReport

LEMMA LogErrorIInv ==
    ASSUME IInv, Running, NEW g \in Goroutine, LogError(g)
    PROVE  IInv'
<1> USE DEF IInv
<1>1. /\ rest[g] # <<>> /\ Made(g) /\ Len(logs) < LogCap
      /\ logs' = Append(logs, g) /\ UNCHANGED <<cancelled, worker, logFile>>
      /\ UNCHANGED <<lineVars, stage, kind, progress, main, told, late>>
    BY DEF LogError, Log
<1>2. g \in Entry /\ logs \in Seq(Entry) /\ Len(logs) \in Nat
    BY ReportsAssumption DEF Goroutine, TypeOK, LoggerTypeOK
<1>3. TypeOK'
  <2>1. LoggerTypeOK'
      BY <1>1, <1>2, LoggerAssumption DEF TypeOK, LoggerTypeOK
  <2>2. LineTypeOK'
      BY <1>1 DEF TypeOK, LineTypeOK, lineVars
  <2>3. Operations' = Operations
      BY <1>1 DEF Operations
  <2> QED
      BY <1>1, <2>1, <2>2, <2>3, MadeType DEF TypeOK
<1>4. EndInv'
    BY <1>1 DEF EndInv, RangeOf
<1>5. Logged' = Logged \cup {g}
    BY <1>1, <1>2, RangeAppend DEF Logged, RangeOf
<1>6. LogsFirst'
  <2> SUFFICES ASSUME NEW h \in Goroutine, h # g,
                      NEW i \in DOMAIN rest'[h], rest'[h][i] = Failure
               PROVE  h \in Logged' \/ \E j \in 1 .. i - 1 : rest'[h][j] = EmitErr
      BY <1>5 DEF LogsFirst
  <2> QED
    <3>1. rest'[h] = rest[h]
        BY <1>1, MadeType
    <3>2. LogsFirst
        BY DEF Running
    <3>3. h \in Logged \/ \E j \in 1 .. i - 1 : rest[h][j] = EmitErr
        BY <3>1, <3>2 DEF LogsFirst
    <3> QED
        BY <1>5, <3>1, <3>3
<1> QED
    BY <1>1, <1>3, <1>4, <1>5, <1>6 DEF Running

\* A text that is set, with its timer.
LEMMA SetTextType ==
    ASSUME LineTypeOK, NEW l \in Line, NEW text \in Text \cup {Empty}, SetText(l, text)
    PROVE  LineTypeOK'
<1>1. line' \in [Line -> Text \cup {Empty}]
    BY DEF LineTypeOK, SetText
<1>2. CASE text.stays
    BY <1>1, <1>2 DEF LineTypeOK, SetText
<1>3. CASE ~text.stays
  <2>1. text \in Text
      BY <1>3 DEF Empty
  <2>2. timers' = timers \cup {[line |-> l, text |-> text]}
      BY <1>3 DEF SetText
  <2> QED
      BY <1>1, <1>3, <2>1, <2>2 DEF LineTypeOK
<1> QED
    BY <1>2, <1>3

LEMMA SetLineIInv ==
    ASSUME IInv, Running, NEW g \in Goroutine, SetLine(g)
    PROVE  IInv'
<1> USE DEF IInv
<1> DEFINE r == NextReport(g)
           text == IF r.do = "clear" THEN Empty
                   ELSE [by |-> g, step |-> Len(rest[g]), stays |-> r.stays]
<1>1. /\ main = "loop" /\ rest[g] # <<>> /\ r.do \in {"text", "clear"} /\ Made(g)
      /\ SetText(r.line, text)
      /\ told' = IF r = Failure THEN told \cup {g} ELSE told
      /\ UNCHANGED <<loggerVars, stage, kind, progress, main, late>>
    BY DEF SetLine
<1>2. r \in AnyReport /\ rest[g] \in Seq(AnyReport) /\ rest'[g] = Tail(rest[g])
    BY <1>1, MadeType
<1>3. TypeOK'
  <2>1. r.line \in Line /\ text \in Text \cup {Empty}
      BY <1>2, ReportType DEF Text, Goroutine
  <2>2. LineTypeOK'
      BY <1>1, <2>1, SetTextType DEF TypeOK
  <2>3. LoggerTypeOK' /\ Operations' = Operations
      BY <1>1 DEF TypeOK, LoggerTypeOK, loggerVars, Operations
  <2> QED
      BY <1>1, <2>2, <2>3, MadeType DEF TypeOK
<1>4. EndInv'
    BY <1>1 DEF EndInv, loggerVars, RangeOf
<1>5. Logged' = Logged /\ LogsFirst /\ told \subseteq Logged
    BY <1>1 DEF Logged, RangeOf, loggerVars, Running
<1>6. /\ Len(rest[g]) \in Nat \ {0} /\ r = rest[g][1] /\ DOMAIN rest[g] = 1 .. Len(rest[g])
      /\ DOMAIN rest'[g] = 1 .. Len(rest[g]) - 1
      /\ \A i \in 1 .. Len(rest[g]) - 1 : rest'[g][i] = rest[g][i + 1]
    BY <1>1, <1>2 DEF NextReport
<1>7. r # EmitErr
    BY <1>1 DEF EmitErr
<1>8. r = Failure => g \in Logged
  <2>1. ASSUME r = Failure
        PROVE  g \in Logged \/ \E j \in 1 .. 1 - 1 : rest[g][j] = EmitErr
    <3>1. 1 \in DOMAIN rest[g] /\ rest[g][1] = Failure
        BY <1>6, <2>1
    <3> QED
        BY <1>5, <3>1 DEF LogsFirst
  <2> QED
      BY <2>1
<1>9. LogsFirst'
  <2> SUFFICES ASSUME NEW h \in Goroutine, NEW i \in DOMAIN rest'[h], rest'[h][i] = Failure
               PROVE  h \in Logged \/ \E j \in 1 .. i - 1 : rest'[h][j] = EmitErr
      BY <1>5 DEF LogsFirst
  <2>1. CASE h # g
      BY <1>1, <1>5, <2>1, MadeType DEF LogsFirst
  <2>2. CASE h = g
    <3>1. /\ i \in 1 .. Len(rest[g]) - 1 /\ i + 1 \in DOMAIN rest[g]
          /\ rest[g][i + 1] = Failure
        BY <1>6, <2>2
    <3>2. g \in Logged \/ \E j \in 1 .. i : rest[g][j] = EmitErr
        BY <1>5, <3>1 DEF LogsFirst
    <3>3. ASSUME NEW j \in 1 .. i, rest[g][j] = EmitErr
          PROVE  j - 1 \in 1 .. i - 1 /\ rest'[g][j - 1] = EmitErr
      <4>1. j # 1
          BY <1>6, <1>7, <3>3
      <4>2. j - 1 \in 1 .. i - 1 /\ j - 1 \in 1 .. Len(rest[g]) - 1 /\ (j - 1) + 1 = j
          BY <1>6, <3>1, <4>1
      <4> HIDE DEF r
      <4>3. rest'[g][j - 1] = rest[g][(j - 1) + 1]
          BY <1>6, <4>2
      <4> QED
          BY <3>3, <4>2, <4>3
    <3> QED
        BY <2>2, <3>2, <3>3
  <2> QED
      BY <2>1, <2>2
<1> QED
    BY <1>1, <1>3, <1>4, <1>5, <1>8, <1>9

\* A step that leaves the logger and the reports, and does not end main.
LEMMA FrameIInv ==
    ASSUME IInv, TypeOK', UNCHANGED <<logs, logFile, rest, told>>,
           worker' = worker, EndInv'
    PROVE  IInv'
<1>1. Logged' = Logged
    BY DEF Logged, RangeOf
<1>2. LogsFirst => LogsFirst'
    BY <1>1 DEF LogsFirst
<1> QED
    BY <1>1, <1>2 DEF IInv

LEMMA SetProgressIInv ==
    ASSUME IInv, Running, NEW g \in Goroutine, SetProgress(g)
    PROVE  IInv'
<1>1. /\ main = "loop" /\ progress[g] > 0
      /\ SetText("status", [by |-> g, step |-> 0, stays |-> TRUE])
      /\ progress' = [progress EXCEPT ![g] = @ - 1]
      /\ late' = (late \/ rest[g] = <<>>)
      /\ UNCHANGED <<loggerVars, stage, rest, kind, main, told>>
    BY DEF SetProgress
<1>2. TypeOK'
  <2>1. LineTypeOK'
    <3>1. "status" \in Line /\ [by |-> g, step |-> 0, stays |-> TRUE] \in Text
        BY DEF Line, Text, Goroutine
    <3> QED
        BY <1>1, <3>1, SetTextType DEF IInv, TypeOK
  <2>2. LoggerTypeOK' /\ Operations' = Operations
      BY <1>1 DEF IInv, TypeOK, LoggerTypeOK, loggerVars, Operations
  <2>3. progress' \in [Goroutine -> 0 .. MaxProgress]
      BY <1>1, ReportsAssumption DEF IInv, TypeOK
  <2>4. late' \in BOOLEAN
      BY <1>1 DEF IInv, TypeOK
  <2> QED
      BY <1>1, <2>1, <2>2, <2>3, <2>4 DEF IInv, TypeOK
<1>3. EndInv'
    BY <1>1 DEF IInv, EndInv, loggerVars, RangeOf
<1> QED
    BY <1>1, <1>2, <1>3, FrameIInv DEF loggerVars

LEMMA TimerIInv ==
    ASSUME IInv, Running, NEW timer \in timers, Timer(timer)
    PROVE  IInv'
<1>1. /\ line' = [line EXCEPT ![timer.line] = Empty] /\ timers' = timers \ {timer}
      /\ UNCHANGED <<loggerVars, stage, rest, kind, progress, main, told, late>>
    BY DEF Timer, TimerFires
<1>2. TypeOK'
  <2>1. LineTypeOK'
      BY <1>1 DEF IInv, TypeOK, LineTypeOK
  <2>2. LoggerTypeOK' /\ Operations' = Operations
      BY <1>1 DEF IInv, TypeOK, LoggerTypeOK, loggerVars, Operations
  <2> QED
      BY <1>1, <2>1, <2>2 DEF IInv, TypeOK
<1>3. EndInv'
    BY <1>1 DEF IInv, EndInv, loggerVars, RangeOf
<1> QED
    BY <1>1, <1>2, <1>3, FrameIInv DEF loggerVars

\* The worker of the logger writes an entry, or its writing fails.
LEMMA ProcessLogIInv ==
    ASSUME IInv, Running, worker \in {"run", "drain"}, ProcessLog,
           UNCHANGED <<lineVars, stage, rest, kind, progress, main, told, late>>
    PROVE  IInv'
<1> USE DEF IInv
<1>1. /\ logs \in Seq(Entry) /\ logFile \in Seq(Entry) /\ logs # <<>> /\ logs' = Tail(logs)
      /\ cancelled' = cancelled
    BY DEF ProcessLog, TypeOK, LoggerTypeOK
<1>2. /\ Head(logs) \in Entry /\ Tail(logs) \in Seq(Entry) /\ Len(Tail(logs)) = Len(logs) - 1
      /\ RangeOf(logs) = {Head(logs)} \cup RangeOf(Tail(logs))
    BY <1>1, RangeHeadTail
<1>3. LineTypeOK' /\ Operations' = Operations
    BY DEF TypeOK, LineTypeOK, lineVars, Operations
<1>4. CASE logFile' = Append(logFile, Head(logs)) /\ UNCHANGED worker
  <2>1. TypeOK'
    <3>1. LoggerTypeOK'
        BY <1>1, <1>2, <1>4, LoggerAssumption DEF TypeOK, LoggerTypeOK
    <3> QED
        BY <1>3, <3>1 DEF TypeOK
  <2>2. EndInv'
      BY <1>1, <1>4 DEF EndInv
  <2>3. Logged' = Logged
    <3>1. RangeOf(logFile') = RangeOf(logFile) \cup {Head(logs)}
        BY <1>1, <1>2, <1>4, RangeAppend
    <3>2. Logged' = RangeOf(logFile') \cup RangeOf(Tail(logs))
        BY <1>1 DEF Logged, RangeOf
    <3> QED
        BY <1>2, <3>1, <3>2 DEF Logged
  <2>4. LogsFirst'
      BY <2>3 DEF LogsFirst, Running
  <2> QED
      BY <2>1, <2>2, <2>3, <2>4, <1>4 DEF Running
<1>5. CASE worker' = "failed" /\ UNCHANGED logFile
  <2>1. TypeOK'
    <3>1. LoggerTypeOK'
        BY <1>1, <1>2, <1>5, LoggerAssumption DEF TypeOK, LoggerTypeOK
    <3> QED
        BY <1>3, <3>1 DEF TypeOK
  <2>2. EndInv'
      BY <1>1, <1>5 DEF EndInv, Running
  <2> QED
      BY <1>5, <2>1, <2>2
<1> QED
    BY <1>4, <1>5 DEF ProcessLog

LEMMA WorkerIInv ==
    ASSUME IInv, Running, Worker
    PROVE  IInv'
<1> USE DEF IInv
<1>1. UNCHANGED <<lineVars, stage, rest, kind, progress, main, told, late>>
    BY DEF Worker
<1>2. CASE worker \in {"run", "drain"} /\ ProcessLog
    BY <1>1, <1>2, ProcessLogIInv
<1>3. CASE /\ UNCHANGED <<logs, cancelled, logFile>>
           /\ \/ worker = "run" /\ cancelled /\ worker' = "drain"
              \/ worker = "drain" /\ logs = <<>> /\ worker' = "ended"
  <2>1. LineTypeOK' /\ Operations' = Operations
      BY <1>1 DEF TypeOK, LineTypeOK, lineVars, Operations
  <2>2. LoggerTypeOK'
      BY <1>3 DEF TypeOK, LoggerTypeOK
  <2>3. TypeOK'
      BY <1>1, <2>1, <2>2 DEF TypeOK
  <2>4. Logged' = Logged /\ RangeOf(logFile)' = RangeOf(logFile)
      BY <1>3 DEF Logged, RangeOf
  <2>5. logs = <<>> => Logged = RangeOf(logFile)
      BY DEF Logged, RangeOf
  <2>6. EndInv'
      BY <1>1, <1>3, <2>4, <2>5 DEF EndInv
  <2>7. LogsFirst'
      BY <1>1, <1>3, <2>4 DEF LogsFirst
  <2> QED
      BY <1>1, <1>3, <2>3, <2>4, <2>6, <2>7
<1> QED
    BY <1>2, <1>3 DEF Worker, WorkerRun, WorkerDrain

LEMMA MainIInv ==
    ASSUME IInv, Running, Quit \/ Main
    PROVE  IInv'
<1> USE DEF IInv
<1>1. /\ UNCHANGED <<logs, worker, logFile, lineVars, stage, rest, kind, progress, told, late>>
      /\ \/ main = "loop" /\ main' = "left" /\ cancelled' = cancelled
         \/ main = "left" /\ main' = "stop" /\ cancelled' = TRUE
         \/ main = "stop" /\ main' = "gone" /\ worker = "ended" /\ cancelled' = cancelled
    BY DEF Quit, Main, StopLogger, Exit, Stop, Stopped, loggerVars
<1>2. TypeOK'
  <2>1. LineTypeOK' /\ LoggerTypeOK' /\ Operations' = Operations
      BY <1>1 DEF TypeOK, LineTypeOK, lineVars, LoggerTypeOK, Operations
  <2> QED
      BY <1>1, <2>1 DEF TypeOK
<1>3. EndInv'
    BY <1>1 DEF EndInv, RangeOf
<1> QED
    BY <1>1, <1>2, <1>3, FrameIInv

LEMMA StutterIInv ==
    ASSUME IInv, UNCHANGED vars
    PROVE  IInv'
<1>1. TypeOK' /\ EndInv'
  <2>1. LineTypeOK' /\ LoggerTypeOK' /\ Operations' = Operations
      BY DEF vars, IInv, TypeOK, LineTypeOK, lineVars, LoggerTypeOK, loggerVars, Operations
  <2> QED
      BY <2>1 DEF vars, IInv, TypeOK, EndInv, loggerVars, RangeOf
<1> QED
    BY <1>1, FrameIInv DEF vars, loggerVars

-----------------------------------------------------------------------------
(* The theorems. *)

LEMMA NextIInv == IInv /\ [Next]_vars => IInv'
<1> SUFFICES ASSUME IInv, [Next]_vars PROVE IInv'
    OBVIOUS
<1>1. ASSUME Running, NEW g \in Goroutine, Start(g) \/ Report(g) \/ SetProgress(g)
      PROVE  IInv'
    BY <1>1, StartIInv, LogErrorIInv, SetLineIInv, SetProgressIInv DEF Report
<1>2. ASSUME Running, NEW timer \in timers, Timer(timer)
      PROVE  IInv'
    BY <1>2, TimerIInv
<1>3. ASSUME Running, Worker \/ Quit \/ Main
      PROVE  IInv'
    BY <1>3, WorkerIInv, MainIInv
<1> QED
    BY <1>1, <1>2, <1>3, StutterIInv DEF Next

\* The inductive invariant holds throughout.
THEOREM Inductive == Spec => []IInv
    BY InitIInv, NextIInv, PTL DEF Spec

\* Every state is well typed, whatever the goroutines report and in whatever
\* order (SetStatus, SetError, emitErr, Log, Stop).
THEOREM ReportsTypeCorrect == Spec => []TypeOK
<1>1. IInv => TypeOK
    BY DEF IInv
<1> QED
    BY <1>1, Inductive, PTL

\* What the user was shown as a failure is on its way to the log, and in it
\* when the program has ended (Log before setError, Stop's drain).
THEOREM ShownLogged == Spec => []ShownErrorsAreLogged
<1>1. IInv => ShownErrorsAreLogged
  <2> SUFFICES ASSUME IInv, worker # "failed"
               PROVE  told \subseteq RangeOf(logFile) \cup
                                     (IF main = "gone" THEN {} ELSE RangeOf(logs))
      BY DEF ShownErrorsAreLogged
  <2>1. CASE main = "gone"
      BY <2>1 DEF IInv, EndInv
  <2>2. CASE main # "gone"
      BY <2>2 DEF IInv, Logged
  <2> QED
      BY <2>1, <2>2
<1> QED
    BY <1>1, Inductive, PTL
-----------------------------------------------------------------------------
(* The status line. *)

Wipe == {Success, Clear}

\* Every operation but a refresh ends by emptying the status line, at once or by a
\* timer; a refresh does not use it.
EndsWell(k, reports) ==
    reports # <<>> =>
        IF k = "refresh" THEN \A i \in DOMAIN reports : reports[i].line = "error"
        ELSE reports[Len(reports)] \in Wipe

ShapeInv ==
    \A g \in Goroutine :
        /\ kind[g] = "none" => rest[g] = <<>>
        /\ EndsWell(kind[g], rest[g])
        /\ progress[g] > 0 => kind[g] = "upload"

\* Somebody is still to empty the line.
Coming ==
    \/ \E timer \in timers : timer.line = "status"
    \/ \E g \in Goroutine : rest[g] # <<>> /\ kind[g] # "refresh"

LineInv == line["status"] = Empty \/ late \/ Coming

LEMMA OperationEndsWell ==
    ASSUME stage \in {"entry", "interaction"},
           NEW k \in DOMAIN Operations, NEW reports \in Operations[k]
    PROVE  EndsWell(k, reports) /\ k # "none"
<1>1. k \in {"login", "create", "upload", "download", "delete", "refresh"}
    BY DEF Operations
<1>2. CASE k = "refresh"
  <2>1. reports \in {<<>>, <<EmitErr, Failure>>}
      BY <1>2 DEF Operations, Refresh
  <2>2. EmitErr.line = "error" /\ Failure.line = "error"
      BY DEF EmitErr, Failure, Show
  <2>3. CASE reports = <<EmitErr, Failure>>
      BY <1>2, <2>2, <2>3 DEF EndsWell
  <2> QED
      BY <1>2, <2>1, <2>3 DEF EndsWell
<1>3. CASE k # "refresh"
  <2>0. PICK refusal : refusal = Show("error", TRUE)
      OBVIOUS
  <2>1. Operations[k] \in {Upload, Download, Delete, Login, Create}
      BY <1>3 DEF Operations
  <2>2. reports \in {<<Success>>, <<EmitErr, Success>>, <<Begin, Success>>, <<Begin, Clear>>,
                     <<Begin, EmitErr, Success>>, <<EmitErr, Failure, Clear>>,
                     <<Begin, refusal, Clear>>, <<Begin, EmitErr, Failure, Clear>>}
      BY <2>0, <2>1 DEF Upload, Download, Delete, Login, Create
  <2>3. CASE reports = <<Success>>
    <3>1. Len(reports) = 1 /\ reports[1] = Success
        BY <2>3
    <3> QED
        BY <1>1, <1>3, <3>1 DEF EndsWell, Wipe
  <2>4. CASE reports \in {<<EmitErr, Success>>, <<Begin, Success>>, <<Begin, Clear>>}
    <3>1. Len(reports) = 2 /\ reports[2] \in {Success, Clear}
        BY <2>4
    <3> QED
        BY <1>1, <1>3, <3>1 DEF EndsWell, Wipe
  <2>5. CASE reports \in {<<Begin, EmitErr, Success>>, <<EmitErr, Failure, Clear>>,
                          <<Begin, refusal, Clear>>}
    <3>1. Len(reports) = 3 /\ reports[3] \in {Success, Clear}
        BY <2>5
    <3> QED
        BY <1>1, <1>3, <3>1 DEF EndsWell, Wipe
  <2>6. CASE reports = <<Begin, EmitErr, Failure, Clear>>
    <3>1. Len(reports) = 4 /\ reports[4] = Clear
        BY <2>6
    <3> QED
        BY <1>1, <1>3, <3>1 DEF EndsWell, Wipe
  <2> QED
      BY <2>2, <2>3, <2>4, <2>5, <2>6
<1> QED
    BY <1>1, <1>2, <1>3

\* What is left of an operation ends as the operation does; only its last report
\* leaves nothing.
LEMMA TailEndsWell ==
    ASSUME NEW k, NEW reports \in Seq(AnyReport), reports # <<>>, EndsWell(k, reports)
    PROVE  /\ EndsWell(k, Tail(reports))
           /\ Tail(reports) = <<>> /\ k # "refresh" => Head(reports) \in Wipe
           /\ k = "refresh" => Head(reports).line = "error"
<1>1. /\ Len(reports) \in Nat \ {0} /\ DOMAIN reports = 1 .. Len(reports)
      /\ Head(reports) = reports[1]
      /\ Len(Tail(reports)) = Len(reports) - 1 /\ DOMAIN Tail(reports) = 1 .. Len(reports) - 1
      /\ \A i \in 1 .. Len(reports) - 1 : Tail(reports)[i] = reports[i + 1]
    OBVIOUS
<1>2. CASE k = "refresh"
    BY <1>1, <1>2 DEF EndsWell
<1>3. CASE k # "refresh"
  <2>1. reports[Len(reports)] \in Wipe
      BY <1>3 DEF EndsWell
  <2>2. CASE Len(reports) = 1
      BY <1>1, <1>3, <2>1, <2>2 DEF EndsWell
  <2>3. CASE Len(reports) # 1
    <3>1. Len(reports) - 1 \in 1 .. Len(reports) - 1 /\ (Len(reports) - 1) + 1 = Len(reports)
        BY <1>1, <2>3
    <3>2. Tail(reports)[Len(Tail(reports))] = reports[Len(reports)]
        BY <1>1, <3>1
    <3>3. Tail(reports) # <<>>
      <4>1. Len(Tail(reports)) # Len(<<>>)
          BY <1>1, <2>3
      <4> QED
          BY <4>1
    <3> QED
        BY <1>3, <2>1, <3>2, <3>3 DEF EndsWell
  <2> QED
      BY <2>2, <2>3
<1> QED
    BY <1>2, <1>3

\* A report that is made, and what is to come after it.
LEMMA ReportShape ==
    ASSUME IInv, ShapeInv, NEW g \in Goroutine, rest[g] # <<>>, Made(g),
           UNCHANGED <<kind, progress>>
    PROVE  /\ ShapeInv'
           /\ \A h \in Goroutine \ {g} : rest'[h] = rest[h]
           /\ rest'[g] = <<>> /\ kind[g] # "refresh" => NextReport(g) \in Wipe
           /\ kind[g] = "refresh" => NextReport(g).line = "error"
<1>1. /\ rest' \in [Goroutine -> Seq(AnyReport)] /\ rest[g] \in Seq(AnyReport)
      /\ \A h \in Goroutine \ {g} : rest'[h] = rest[h]
      /\ rest'[g] = Tail(rest[g])
    BY MadeType
<1>2. EndsWell(kind[g], rest[g]) /\ kind[g] # "none"
    BY DEF ShapeInv
<1>3. /\ EndsWell(kind[g], Tail(rest[g]))
      /\ Tail(rest[g]) = <<>> /\ kind[g] # "refresh" => Head(rest[g]) \in Wipe
      /\ kind[g] = "refresh" => Head(rest[g]).line = "error"
    BY <1>1, <1>2, TailEndsWell
<1>4. ASSUME NEW h \in Goroutine
      PROVE  /\ kind[h] = "none" => rest'[h] = <<>>
             /\ EndsWell(kind[h], rest'[h])
             /\ progress[h] > 0 => kind[h] = "upload"
  <2>1. CASE h = g
      BY <1>1, <1>2, <1>3, <2>1 DEF ShapeInv
  <2>2. CASE h # g
      BY <1>1, <2>2 DEF ShapeInv
  <2> QED
      BY <2>1, <2>2
<1> QED
    BY <1>1, <1>3, <1>4 DEF ShapeInv, NextReport, EndsWell

LEMMA StartLine ==
    ASSUME IInv, ShapeInv, LineInv, NEW g \in Goroutine, Start(g)
    PROVE  ShapeInv' /\ LineInv'
<1>1. PICK k \in DOMAIN Operations : \E reports \in Operations[k] :
        /\ kind' = [kind EXCEPT ![g] = k]
        /\ rest' = [rest EXCEPT ![g] = reports]
        /\ progress' = [progress EXCEPT ![g] = IF k = "upload" THEN MaxProgress ELSE 0]
    BY DEF Start
<1>2. PICK reports \in Operations[k] :
        /\ kind' = [kind EXCEPT ![g] = k]
        /\ rest' = [rest EXCEPT ![g] = reports]
        /\ progress' = [progress EXCEPT ![g] = IF k = "upload" THEN MaxProgress ELSE 0]
    BY <1>1
<1>3. EndsWell(k, reports) /\ k # "none"
    BY OperationEndsWell DEF IInv, TypeOK
<1>4. /\ kind'[g] = k /\ rest'[g] = reports /\ (progress'[g] > 0 => k = "upload")
      /\ \A h \in Goroutine \ {g} :
            kind'[h] = kind[h] /\ rest'[h] = rest[h] /\ progress'[h] = progress[h]
    BY <1>2 DEF IInv, TypeOK
<1>5. ShapeInv'
    BY <1>3, <1>4 DEF ShapeInv, EndsWell
<1>6. kind[g] = "none" /\ rest[g] = <<>> /\ UNCHANGED <<line, timers, late>>
    BY DEF Start, ShapeInv, lineVars
<1>7. Coming => Coming'
    BY <1>4, <1>6 DEF Coming
<1> QED
    BY <1>5, <1>6, <1>7 DEF LineInv

LEMMA LogLine ==
    ASSUME IInv, ShapeInv, LineInv, NEW g \in Goroutine, LogError(g)
    PROVE  ShapeInv' /\ LineInv'
<1>1. /\ rest[g] # <<>> /\ NextReport(g).do = "log" /\ Made(g)
      /\ UNCHANGED <<kind, progress, line, timers, late>>
    BY DEF LogError, lineVars
<1>2. NextReport(g) \notin Wipe
    BY <1>1 DEF Wipe, Success, Clear, Show
<1>3. /\ ShapeInv' /\ (\A h \in Goroutine \ {g} : rest'[h] = rest[h])
      /\ rest'[g] = <<>> => kind[g] = "refresh"
    BY <1>1, <1>2, ReportShape
<1>4. Coming => Coming'
    BY <1>1, <1>3 DEF Coming
<1> QED
    BY <1>1, <1>3, <1>4 DEF LineInv

\* A text is followed by another report, is a timer's, or is none.
LEMMA SetLineLine ==
    ASSUME IInv, ShapeInv, LineInv, NEW g \in Goroutine, SetLine(g)
    PROVE  ShapeInv' /\ LineInv'
<1> DEFINE r == NextReport(g)
           text == IF r.do = "clear" THEN Empty
                   ELSE [by |-> g, step |-> Len(rest[g]), stays |-> r.stays]
<1>1. /\ rest[g] # <<>> /\ Made(g) /\ SetText(r.line, text)
      /\ UNCHANGED <<kind, progress, late>>
    BY DEF SetLine
<1>2. /\ ShapeInv' /\ (\A h \in Goroutine \ {g} : rest'[h] = rest[h])
      /\ rest'[g] = <<>> /\ kind[g] # "refresh" => r \in Wipe
      /\ kind[g] = "refresh" => r.line = "error"
    BY <1>1, ReportShape
<1>3. r.line \in Line /\ line \in [Line -> Text \cup {Empty}]
    BY <1>1, MadeType, ReportType DEF IInv, TypeOK, LineTypeOK
<1>4. line' = [line EXCEPT ![r.line] = text] /\ timers \subseteq timers'
    BY <1>1 DEF SetText
<1>5. CASE rest'[g] # <<>> /\ kind[g] # "refresh"
    BY <1>1, <1>2, <1>5 DEF LineInv, Coming
<1>6. CASE kind[g] = "refresh"
  <2>1. line'["status"] = line["status"]
      BY <1>2, <1>3, <1>4, <1>6 DEF Line
  <2>2. Coming => Coming'
      BY <1>1, <1>2, <1>4, <1>6 DEF Coming
  <2> QED
      BY <1>1, <1>2, <2>1, <2>2 DEF LineInv
<1>7. CASE r = Clear
  <2>1. text = Empty /\ r.line = "status"
      BY <1>7 DEF Clear
  <2>2. line'["status"] = Empty
      BY <1>3, <1>4, <2>1
  <2> QED
      BY <1>2, <2>2 DEF LineInv
<1>8. CASE r = Success
  <2>1. r.line = "status" /\ text.stays = FALSE
      BY <1>8 DEF Success, Show
  <2>2. [line |-> "status", text |-> text] \in timers'
      BY <1>1, <2>1 DEF SetText
  <2> QED
      BY <1>2, <2>2 DEF LineInv, Coming
<1> QED
    BY <1>2, <1>5, <1>6, <1>7, <1>8 DEF Wipe

\* Progress is of an upload, which still has its last text to come, or is late.
LEMMA ProgressLine ==
    ASSUME IInv, ShapeInv, LineInv, NEW g \in Goroutine, SetProgress(g)
    PROVE  ShapeInv' /\ LineInv'
<1>1. /\ progress[g] > 0 /\ progress' = [progress EXCEPT ![g] = @ - 1]
      /\ late' = (late \/ rest[g] = <<>>)
      /\ UNCHANGED <<rest, kind>>
    BY DEF SetProgress
<1>2. \A h \in Goroutine : progress'[h] > 0 => progress[h] > 0
    BY <1>1 DEF IInv, TypeOK
<1>3. kind[g] # "refresh"
    BY <1>1 DEF ShapeInv
<1> QED
    BY <1>1, <1>2, <1>3 DEF ShapeInv, LineInv, Coming

LEMMA TimerLine ==
    ASSUME IInv, ShapeInv, LineInv, NEW timer \in timers, Timer(timer)
    PROVE  ShapeInv' /\ LineInv'
<1>1. /\ line' = [line EXCEPT ![timer.line] = Empty] /\ timers' = timers \ {timer}
      /\ UNCHANGED <<rest, kind, progress, late>>
    BY DEF Timer, TimerFires
<1>2. timer.line \in Line /\ line \in [Line -> Text \cup {Empty}]
    BY DEF IInv, TypeOK, LineTypeOK
<1>3. ShapeInv'
    BY <1>1 DEF ShapeInv
<1>4. CASE timer.line = "status"
    BY <1>1, <1>2, <1>3, <1>4 DEF LineInv
<1>5. CASE timer.line # "status"
  <2>1. line'["status"] = line["status"] /\ (Coming => Coming')
      BY <1>1, <1>2, <1>5 DEF Line, Coming
  <2> QED
      BY <1>1, <1>3, <2>1 DEF LineInv
<1> QED
    BY <1>4, <1>5

LEMMA NextLine == IInv /\ ShapeInv /\ LineInv /\ [Next]_vars => ShapeInv' /\ LineInv'
<1> SUFFICES ASSUME IInv, ShapeInv, LineInv, [Next]_vars PROVE ShapeInv' /\ LineInv'
    OBVIOUS
<1>1. ASSUME NEW g \in Goroutine, Start(g) \/ Report(g) \/ SetProgress(g)
      PROVE  ShapeInv' /\ LineInv'
    BY <1>1, StartLine, LogLine, SetLineLine, ProgressLine DEF Report
<1>2. ASSUME NEW timer \in timers, Timer(timer) PROVE ShapeInv' /\ LineInv'
    BY <1>2, TimerLine
<1>3. CASE Worker \/ Quit \/ Main \/ UNCHANGED vars
  <2>1. UNCHANGED <<line, timers, rest, kind, progress, late>>
      BY <1>3 DEF Worker, Quit, Main, StopLogger, Exit, vars, lineVars
  <2> QED
      BY <2>1 DEF ShapeInv, LineInv, Coming
<1> QED
    BY <1>1, <1>2, <1>3 DEF Next

\* With every operation over and every timer fired, the status line is empty,
\* however the operations ended and their texts and timers met.  (An upload's
\* progress line that comes after its last report may stay.)
QuietLineIsEmpty ==
    (\A g \in Goroutine : rest[g] = <<>>) /\ timers = {} /\ ~late => line["status"] = Empty

\* When every operation is over and every timer has fired, the status line is
\* empty, for any number of goroutines, whoever's timer fired under whose text.
THEOREM QuietLine == Spec => []QuietLineIsEmpty
<1>1. LineInv => QuietLineIsEmpty
    BY DEF LineInv, Coming, QuietLineIsEmpty
<1>2. Init => ShapeInv /\ LineInv
    BY ReportsAssumption DEF Init, LineInit, ShapeInv, LineInv, EndsWell, Line
<1>3. Spec => [](ShapeInv /\ LineInv)
    BY <1>2, NextLine, Inductive, PTL DEF Spec
<1> QED
    BY <1>1, <1>3, PTL
=============================================================================
