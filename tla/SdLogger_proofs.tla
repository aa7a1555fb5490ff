--------------------------- MODULE SdLogger_proofs ---------------------------
(***************************************************************************)
(* Proofs about SdLogger, for any interval, any modulus of millis(), any   *)
(* number of lines and any number of power cuts and exchanges of the card. *)
(***************************************************************************)
EXTENDS LoggedLoop, TLAPS

\* A header is only ever written to a file without lines; a row to a file that
\* has room for it.
StageInv ==
  /\ pc = "header" => file = << >>
  /\ pc = "row" => file # NoFile /\ ~Full

\* The unsigned difference is the time since the last attempt, until that time
\* is longer than the properties ask.
TimerInv == quiet < MaxLag => SinceAttempt = quiet

IInv == TypeOK /\ StageInv /\ TimerInv /\ HeaderOnlyFirst

-----------------------------------------------------------------------------
\* A file without lines is a file.
LEMMA EmptyIsFile == << >> \in Seq(Lines) /\ << >> # NoFile
<1>1. << >> \in Seq(Lines)
  OBVIOUS
<1> QED
  BY <1>1, NoFileAssumption

\* A line at the end of a file leaves the lines before it.
LEMMA AppendKeeps ==
  ASSUME NEW f \in Seq(Lines), NEW x \in Lines
  PROVE  /\ Append(f, x) \in Seq(Lines)
         /\ Append(f, x) # NoFile
         /\ Len(Append(f, x)) = Len(f) + 1
         /\ SubSeq(Append(f, x), 1, Len(f)) = f
         /\ SubSeq(f, 1, Len(f)) = f
<1>1. Append(f, x) \in Seq(Lines) /\ Len(Append(f, x)) = Len(f) + 1
  OBVIOUS
<1>2. SubSeq(Append(f, x), 1, Len(f)) = f
  OBVIOUS
<1>3. SubSeq(f, 1, Len(f)) = f
  OBVIOUS
<1> QED
  BY <1>1, <1>2, <1>3, NoFileAssumption

-----------------------------------------------------------------------------
\* The board as it leaves the factory, with a blank card.
LEMMA InitIInv == Init => IInv
<1> SUFFICES ASSUME Init PROVE IInv
  OBVIOUS
<1> USE LoggerAssumption DEF Init
<1>1. TypeOK
  <2>1. 0 \in 0..MaxBoots /\ 0 \in 0..(MillisMod - 1) /\ 0 \in 0..MaxLag
    OBVIOUS
  <2>2. "card" \in Steps
    BY DEF Steps
  <2> QED
    BY <2>1, <2>2 DEF TypeOK
<1>2. StageInv /\ TimerInv /\ HeaderOnlyFirst
  BY DEF StageInv, TimerInv, SinceAttempt, HeaderOnlyFirst, Content
<1> QED
  BY <1>1, <1>2 DEF IInv

\* A power cut takes everything but the file.
LEMMA PowerCutIInv ==
  ASSUME IInv, PowerCut
  PROVE  IInv'
<1> USE LoggerAssumption DEF IInv, PowerCut
<1>1. TypeOK'
  <2>1. events' \in 0..MaxBoots /\ 0 \in 0..(MillisMod - 1) /\ 0 \in 0..MaxLag
    BY DEF TypeOK
  <2>2. pc' \in Steps
    BY DEF Steps
  <2> QED
    BY <2>1, <2>2 DEF TypeOK
<1>2. (StageInv /\ TimerInv)'
  BY DEF StageInv, TimerInv, SinceAttempt, Full
<1>3. HeaderOnlyFirst'
  BY DEF HeaderOnlyFirst, Content
<1> QED
  BY <1>1, <1>2, <1>3

\* A blank card has no file, and nothing is being written to it.
LEMMA CardExchangedIInv ==
  ASSUME IInv, CardExchanged
  PROVE  IInv'
<1> USE LoggerAssumption DEF IInv, CardExchanged, volatile
<1>1. TypeOK'
  BY DEF TypeOK
<1>2. (StageInv /\ TimerInv)'
  BY DEF StageInv, TimerInv, SinceAttempt, Full
<1>3. HeaderOnlyFirst'
  BY DEF HeaderOnlyFirst, Content
<1> QED
  BY <1>1, <1>2, <1>3

\* A tick lengthens the unsigned difference by one, also across the wrap.
LEMMA TickIInv ==
  ASSUME IInv, Tick
  PROVE  IInv'
<1> USE LoggerAssumption DEF IInv, Tick
<1>1. TypeOK'
  BY DEF TypeOK
<1>2. TimerInv'
  BY DEF TypeOK, TimerInv, SinceAttempt
<1>3. (StageInv /\ HeaderOnlyFirst)'
  BY DEF StageInv, HeaderOnlyFirst, Content, Full
<1> QED
  BY <1>1, <1>2, <1>3

\* The steps that leave the file and the clock alone.
LEMMA PollOrCardIInv ==
  ASSUME IInv, PollSucceeds \/ setup_sd_card
  PROVE  IInv'
<1> USE LoggerAssumption DEF IInv, PollSucceeds, setup_sd_card
<1>1. TypeOK'
  BY DEF TypeOK, Steps
<1>2. (StageInv /\ TimerInv)'
  BY DEF StageInv, TimerInv, SinceAttempt, Full
<1>3. HeaderOnlyFirst'
  BY DEF HeaderOnlyFirst, Content
<1> QED
  BY <1>1, <1>2, <1>3

\* A header is due only on a file that was made in this step.
LEMMA setup_solark_csv_logIInv ==
  ASSUME IInv, setup_solark_csv_log
  PROVE  IInv'
<1> USE LoggerAssumption DEF IInv, setup_solark_csv_log
<1>1. \/ file' = file /\ pc' = "loop"
      \/ file = NoFile /\ file' = << >> /\ pc' = "header"
  BY DEF Creates
<1>2. TypeOK'
  BY <1>1, EmptyIsFile DEF TypeOK, Steps
<1>3. (StageInv /\ TimerInv)'
  BY <1>1 DEF StageInv, TimerInv, SinceAttempt
<1>4. HeaderOnlyFirst'
  BY <1>1 DEF HeaderOnlyFirst, Content
<1> QED
  BY <1>2, <1>3, <1>4

\* The header is the first line.
LEMMA PrintHeaderIInv ==
  ASSUME IInv, PrintHeader
  PROVE  IInv'
<1> USE LoggerAssumption DEF IInv, PrintHeader
<1>1. file = << >> /\ file' = << "header" >>
  BY DEF StageInv
<1>2. TypeOK'
  BY <1>1 DEF TypeOK, Steps, Lines
<1>3. (StageInv /\ TimerInv)'
  BY DEF StageInv, TimerInv, SinceAttempt
<1>4. HeaderOnlyFirst'
  BY <1>1 DEF HeaderOnlyFirst, Content
<1> QED
  BY <1>2, <1>3, <1>4

\* An attempt is stamped; the file it makes has no lines.
LEMMA LogDueIInv ==
  ASSUME IInv, LogDue
  PROVE  IInv'
<1> USE LoggerAssumption DEF IInv, LogDue
<1>1. \/ file' = file
      \/ file = NoFile /\ file' = << >>
  OBVIOUS
<1>2. pc' = "loop" \/ (pc' = "row" /\ file' # NoFile /\ Len(file') # MaxLines)
  BY EmptyIsFile DEF Full
<1>3. TypeOK'
  BY <1>1, <1>2, EmptyIsFile DEF TypeOK, Steps
<1>4. (StageInv /\ TimerInv)'
  BY <1>2 DEF StageInv, TimerInv, SinceAttempt, TypeOK, Full
<1>5. HeaderOnlyFirst'
  BY <1>1 DEF HeaderOnlyFirst, Content
<1> QED
  BY <1>3, <1>4, <1>5

\* A row at the end is no header.
LEMMA PrintRowIInv ==
  ASSUME IInv, PrintRow
  PROVE  IInv'
<1> USE LoggerAssumption DEF IInv, PrintRow
<1>1. file \in Seq(Lines) /\ file # NoFile /\ Len(file) < MaxLines
  <2>1. file # NoFile /\ Len(file) # MaxLines
    BY DEF StageInv, Full
  <2>2. file \in Seq(Lines) /\ Len(file) <= MaxLines
    BY <2>1 DEF TypeOK
  <2>3. Len(file) \in Nat
    BY <2>2
  <2> QED
    BY <2>1, <2>2, <2>3
<1>2. file' \in Seq(Lines) /\ file' # NoFile /\ Len(file') = Len(file) + 1
  BY <1>1, AppendKeeps DEF Lines
<1>3. TypeOK'
  <2>1. Len(file) \in Nat
    BY <1>1
  <2>2. Len(file') <= MaxLines
    BY <1>1, <1>2, <2>1
  <2> QED
    BY <1>2, <2>2 DEF TypeOK, Steps
<1>4. (StageInv /\ TimerInv)'
  BY DEF StageInv, TimerInv, SinceAttempt
<1>5. HeaderOnlyFirst'
  <2>1. \A i \in DOMAIN file : file[i] = "header" => i = 1
    BY <1>1 DEF HeaderOnlyFirst, Content
  <2>2. \A i \in DOMAIN file' : file'[i] = "header" => i \in DOMAIN file /\ file[i] = "header"
    BY <1>1
  <2> QED
    BY <1>2, <2>1, <2>2 DEF HeaderOnlyFirst, Content
<1> QED
  BY <1>3, <1>4, <1>5
-----------------------------------------------------------------------------
\* Every step keeps the invariant.
LEMMA StepIInv ==
  ASSUME IInv, [Next]_vars
  PROVE  IInv'
<1>1. CASE PowerCut
  BY <1>1, PowerCutIInv
<1>2. CASE CardExchanged
  BY <1>2, CardExchangedIInv
<1>3. CASE Tick
  BY <1>3, TickIInv
<1>4. CASE PollSucceeds \/ setup_sd_card
  BY <1>4, PollOrCardIInv
<1>5. CASE setup_solark_csv_log
  BY <1>5, setup_solark_csv_logIInv
<1>6. CASE PrintHeader
  BY <1>6, PrintHeaderIInv
<1>7. CASE LogDue
  BY <1>7, LogDueIInv
<1>8. CASE PrintRow
  BY <1>8, PrintRowIInv
<1>9. CASE UNCHANGED vars
  BY <1>9 DEF vars, volatile, IInv, TypeOK, StageInv, TimerInv, SinceAttempt,
              HeaderOnlyFirst, Content, Full
<1> QED
  BY <1>1, <1>2, <1>3, <1>4, <1>5, <1>6, <1>7, <1>8, <1>9 DEF Next

\* The invariant holds in every reachable state.
THEOREM Inductive == Spec => []IInv
<1> QED
  BY InitIInv, StepIInv, PTL DEF Spec

\* The variables keep the values the code gives them.
THEOREM TypeCorrect == Spec => []TypeOK
<1>1. IInv => TypeOK
  BY DEF IInv
<1> QED
  BY <1>1, Inductive, PTL

\* However boots, power cuts and failed opens fall, setup_solark_csv_log never
\* writes a header after another line.
THEOREM HeadersFirst == Spec => []HeaderOnlyFirst
<1>1. IInv => HeaderOnlyFirst
  BY DEF IInv
<1> QED
  BY <1>1, Inductive, PTL

\* A step leaves the file as it is, adds a line at its end, or makes or takes it.
LEMMA StepKeepsLines ==
  ASSUME IInv, [Next]_vars, file # NoFile, file' # NoFile
  PROVE  Len(file') >= Len(file) /\ SubSeq(file', 1, Len(file)) = file
<1>1. file \in Seq(Lines)
  BY DEF IInv, TypeOK
<1>2. CASE file' = file
  BY <1>1, <1>2, AppendKeeps DEF Lines
<1>3. CASE \E x \in Lines : file' = Append(file, x)
  BY <1>1, <1>3, AppendKeeps
<1>4. file' = file \/ \E x \in Lines : file' = Append(file, x)
  <2>1. CASE PrintHeader \/ PrintRow
    BY <2>1 DEF PrintHeader, PrintRow, Lines
  <2>2. CASE setup_solark_csv_log \/ LogDue
    BY <2>2 DEF setup_solark_csv_log, Creates, LogDue
  <2>3. CASE CardExchanged
    BY <2>3 DEF CardExchanged
  <2>4. CASE PowerCut \/ Tick \/ PollSucceeds \/ setup_sd_card
    BY <2>4 DEF PowerCut, Tick, PollSucceeds, setup_sd_card
  <2>5. CASE UNCHANGED vars
    BY <2>5 DEF vars
  <2> QED
    BY <2>1, <2>2, <2>3, <2>4, <2>5 DEF Next
<1> QED
  BY <1>2, <1>3, <1>4

\* No boot, power cut or failed open costs a line that is already on the card.
THEOREM LinesKept == Spec => LinesSurvive
<1>1. IInv /\ [Next]_vars =>
        [file # NoFile /\ file' # NoFile
           => Len(file') >= Len(file) /\ SubSeq(file', 1, Len(file)) = file]_vars
  BY StepKeepsLines
<1> QED
  BY <1>1, Inductive, PTL DEF Spec, LinesSurvive

\* Attempts to log are an interval apart in one boot, across the wrap of millis().
THEOREM AttemptsApart == Spec => AttemptsSpaced
<1>1. IInv /\ [Next]_vars => [LogDue => quiet >= Interval]_vars
  BY LoggerAssumption DEF IInv, TypeOK, TimerInv, LogDue, Due, Elapsed
<1> QED
  BY <1>1, Inductive, PTL DEF Spec, AttemptsSpaced

-----------------------------------------------------------------------------
(* The logger inside loop().                                               *)

Proved == INSTANCE SolArkPoll_proofs WITH pc <- step

\* How the logger and the poller stand to each other: the log's turn comes
\* between two cycles, and the file is open only in it.
TurnInv ==
  /\ polled \in BOOLEAN
  /\ polled <=> solark_success_count > 0
  /\ turn \in {"master", "log"}
  /\ turn = "master" => pc # "row"
  /\ turn = "log" => step = "gate" /\ pc \in {"loop", "row"}
  /\ pc = "row" => polled

\* No row is ahead of the inverter, nor of what has been read since boot, nor of
\* what is being read.
RowInv ==
  /\ rows \in Seq([RowBlocks -> 0 .. MaxGen])
  /\ \A i \in DOMAIN rows : \A b \in RowBlocks :
       /\ rows[i][b] <= inverter[b]
       /\ cache[b] = 0 \/ rows[i][b] <= cache[b]
       /\ step = "process" /\ Poll!CurrentBlock = b => rows[i][b] <= response
  /\ RowsNeverGoBack

LoopIInv == Proved!IInv /\ TurnInv /\ RowInv

\* A step of loop_solark is a step of the poller.
LEMMA MasterStepsAgree == Poll!MasterStep => Proved!Next
<1>1. Poll!PassGate => Proved!PassGate
  BY DEF Poll!PassGate, Proved!PassGate, Poll!PollDue, Proved!PollDue, Poll!UnsignedMinus,
         Proved!UnsignedMinus, Poll!timerVars, Proved!timerVars
<1>2. Poll!StartPoll => Proved!StartPoll
  BY DEF Poll!StartPoll, Proved!StartPoll
<1>3. Poll!Reply => Proved!Reply
  BY DEF Poll!Reply, Proved!Reply, Poll!CurrentBlock, Proved!CurrentBlock,
         Poll!timerVars, Proved!timerVars
<1>4. Poll!NoReply => Proved!NoReply
  BY DEF Poll!NoReply, Proved!NoReply, Poll!NextBlock, Proved!NextBlock,
         Poll!timerVars, Proved!timerVars
<1>5. Poll!processBlock => Proved!processBlock
  BY DEF Poll!processBlock, Proved!processBlock, Poll!NextBlock, Proved!NextBlock,
         Poll!CurrentBlock, Proved!CurrentBlock, Poll!timerVars, Proved!timerVars
<1>6. Poll!FinishPoll => Proved!FinishPoll
  BY DEF Poll!FinishPoll, Proved!FinishPoll, Poll!PollResult, Proved!PollResult,
         Poll!timerVars, Proved!timerVars
<1> QED
  BY <1>1, <1>2, <1>3, <1>4, <1>5, <1>6 DEF Poll!MasterStep, Proved!MasterStep, Proved!Next

\* The assumptions of the poller follow from those of the loop.
LEMMA PollerAssumptions ==
  /\ ReadBlocks \in Seq(Blocks) /\ Len(ReadBlocks) > 0
  /\ MillisMod \in Nat /\ PollRate \in Nat /\ MaxLag \in Nat
  /\ PollRate < MaxLag /\ MaxLag < MillisMod
  /\ MaxGen \in Nat \ {0} /\ MaxCount \in Nat \ {0}
BY LoggerAssumption, PollAssumption

\* What the loop needs of the poller.
LEMMA PollerFacts ==
  ASSUME Proved!IInv
  PROVE  /\ Poll!TypeOK
         /\ \A b \in Blocks : cache[b] <= inverter[b]
         /\ \A b \in got : cache[b] >= floor[b]
         /\ solark_success_count > 0 => \E b \in Blocks : cache[b] # 0
         /\ step \in {"request", "process"} => Poll!CurrentBlock \in Blocks
<1>1. /\ Poll!TypeOK
      /\ \A b \in Blocks : cache[b] <= inverter[b]
      /\ \A b \in got : cache[b] >= floor[b]
      /\ solark_success_count > 0 => \E b \in Blocks : cache[b] # 0
  BY DEF Proved!IInv, Proved!TypeOK, Poll!TypeOK, Poll!Steps, Poll!Results, Proved!Steps,
         Proved!Results, Proved!CacheFromInverter, Proved!CycleIsFresh, Proved!CountMeansData
<1>2. step \in {"request", "process"} => index \in 1 .. Len(ReadBlocks)
  BY PollerAssumptions DEF Proved!IInv, Proved!TypeOK, Proved!LoopInv
<1>3. index \in 1 .. Len(ReadBlocks) => Poll!CurrentBlock \in Blocks
  BY PollerAssumptions DEF Poll!CurrentBlock
<1> QED
  BY <1>1, <1>2, <1>3

\* Without power the poller is as its theorems assume it at boot, whatever the
\* inverter has come to meanwhile.
LEMMA PowerFailsPoller ==
  ASSUME Proved!IInv, PowerFails
  PROVE  Proved!IInv'
<1> USE PollerAssumptions DEF PowerFails, PowerCut
<1>1. inverter \in [Blocks -> 1 .. MaxGen]
  BY DEF Proved!IInv, Proved!TypeOK
<1>2. Proved!TypeOK'
  <2>1. inverter' \in [Blocks -> 1 .. MaxGen] /\ cache' \in [Blocks -> 0 .. MaxGen]
    BY <1>1
  <2>2. index' \in 1 .. Len(ReadBlocks) + 1
    OBVIOUS
  <2>3. floor' \in [Blocks -> 0 .. MaxGen] /\ got' \in SUBSET Blocks
    OBVIOUS
  <2>4. /\ response' \in 0 .. MaxGen /\ solark_success_count' \in 0 .. MaxCount
        /\ millis' \in 0 .. MillisMod - 1 /\ lastSolArkMillis' \in 0 .. MillisMod - 1
        /\ sincePoll' \in 0 .. MaxLag
    OBVIOUS
  <2> QED
    BY <2>1, <2>2, <2>3, <2>4 DEF Proved!TypeOK, Proved!Steps, Proved!Results
<1>3. (Proved!CacheFromInverter /\ Proved!CycleIsFresh /\ Proved!CountMeansData)'
  BY <1>1 DEF Proved!CacheFromInverter, Proved!CycleIsFresh, Proved!CountMeansData
<1>4. Proved!LoopInv' /\ Proved!CycleInv'
  BY <1>1 DEF Proved!LoopInv, Proved!CycleInv
<1>5. Proved!TimerInv'
  BY DEF Proved!TimerInv, Proved!UnsignedMinus
<1> QED
  BY <1>2, <1>3, <1>4, <1>5 DEF Proved!IInv

\* Every step of the loop keeps what is proved of the poller.
LEMMA PollerStep ==
  ASSUME Proved!IInv, [LoopNext]_loopVars
  PROVE  Proved!IInv'
<1>1. [Proved!Next]_(Proved!vars) => Proved!IInv'
  BY PollerAssumptions, Proved!NextIInv
<1>2. UNCHANGED << masterSide, millis >> => Proved!IInv'
  BY <1>1 DEF masterSide, Proved!vars, Proved!pollVars, Proved!timerVars
<1>3. CASE Master
  BY <1>1, <1>3, MasterStepsAgree DEF Master
<1>4. CASE Setup \/ MasterIdle \/ Log
  BY <1>2, <1>4 DEF Setup, setup_sd_card, setup_solark_csv_log, PrintHeader, MasterIdle, Log,
                    LogDue, PrintRow, vars, volatile
<1>5. CASE PowerFails
  BY <1>5, PowerFailsPoller
<1>6. CASE CardExchanged /\ rows' = << >> /\ UNCHANGED << masterSide, turn >>
  BY <1>2, <1>6 DEF CardExchanged, volatile
<1>7. CASE Tick /\ Poll!Tick
  <2>1. Proved!Tick
    BY <1>7 DEF Poll!Tick, Proved!Tick, Poll!pollVars, Proved!pollVars
  <2> QED
    BY <1>1, <2>1 DEF Proved!Next
<1>8. ASSUME NEW b \in Blocks, Poll!InverterChanges(b) PROVE Proved!IInv'
  <2>1. Proved!InverterChanges(b)
    BY <1>8 DEF Poll!InverterChanges, Proved!InverterChanges, Poll!pollVars, Proved!pollVars,
                Poll!timerVars, Proved!timerVars
  <2> QED
    BY <1>1, <2>1 DEF Proved!Next
<1>9. CASE UNCHANGED loopVars
  BY <1>2, <1>9 DEF loopVars, vars, volatile
<1> QED
  BY <1>3, <1>4, <1>5, <1>6, <1>7, <1>8, <1>9 DEF LoopNext, Environment

-----------------------------------------------------------------------------
\* The success count never falls while there is power, and no step of the
\* poller touches the clock.
LEMMA CountGrows ==
  ASSUME Proved!IInv, Poll!MasterStep
  PROVE  /\ solark_success_count \in Nat /\ solark_success_count' \in Nat
         /\ solark_success_count' >= solark_success_count
         /\ millis' = millis
<1>1. solark_success_count \in Nat
  BY PollerFacts, PollerAssumptions DEF Poll!TypeOK
<1>2. CASE Poll!FinishPoll
  BY <1>1, <1>2 DEF Poll!FinishPoll, Poll!timerVars
<1>3. CASE Poll!PassGate \/ Poll!StartPoll \/ Poll!Reply \/ Poll!NoReply \/ Poll!processBlock
  BY <1>1, <1>3 DEF Poll!PassGate, Poll!StartPoll, Poll!Reply, Poll!NoReply, Poll!processBlock,
                    Poll!timerVars
<1> QED
  BY <1>2, <1>3 DEF Poll!MasterStep

\* Every step of the loop keeps master and log to their turns.
LEMMA TurnStep ==
  ASSUME Proved!IInv, TurnInv, [LoopNext]_loopVars
  PROVE  TurnInv'
<1> USE DEF TurnInv
<1>1. CASE Setup
  BY <1>1 DEF Setup, setup_sd_card, setup_solark_csv_log, PrintHeader, masterSide
<1>2. CASE Master
  <2>1. polled' \in BOOLEAN /\ (polled' <=> solark_success_count' > 0)
    <3>1. polled' = (solark_success_count' > 0) /\ solark_success_count' \in Nat
      BY <1>2, CountGrows DEF Master
    <3>2. polled' \in BOOLEAN
      BY <3>1, SMT
    <3>3. polled' <=> solark_success_count' > 0
      BY <3>1, Zenon
    <3> QED
      BY <3>2, <3>3
  <2>2. pc = "loop" /\ pc' = pc /\ turn' = IF step' = "gate" THEN "log" ELSE "master"
    BY <1>2 DEF Master, logSide
  <2> QED
    BY <2>1, <2>2
<1>3. CASE MasterIdle
  BY <1>3 DEF MasterIdle, vars, volatile, masterSide
<1>4. CASE Log
  <2>1. UNCHANGED << solark_success_count, step >> /\ step = "gate"
    BY <1>4 DEF Log, masterSide
  <2>2. CASE LogDue /\ turn' = (IF pc' = "row" THEN "log" ELSE "master")
    <3>1. polled /\ UNCHANGED polled /\ pc' \in {"loop", "row"}
      BY <2>2 DEF LogDue, Due
    <3> QED
      BY <2>1, <2>2, <3>1
  <2>3. CASE PrintRow /\ turn' = "master"
    BY <2>1, <2>3 DEF PrintRow
  <2>4. CASE pc = "loop" /\ turn' = "master" /\ UNCHANGED vars
    BY <2>1, <2>4 DEF vars, volatile
  <2> QED
    BY <1>4, <2>2, <2>3, <2>4 DEF Log
<1>5. CASE PowerFails
  <2>1. ~polled' /\ polled' \in BOOLEAN
    BY <1>5 DEF PowerFails, PowerCut
  <2>2. ~(solark_success_count' > 0)
    BY <1>5 DEF PowerFails
  <2>3. turn' = "master" /\ pc' # "row"
    BY <1>5 DEF PowerFails, PowerCut
  <2> QED
    BY <2>1, <2>2, <2>3
<1>6. CASE Environment /\ ~PowerFails
  <2>1. UNCHANGED << polled, pc, solark_success_count, step, turn >>
    BY <1>6 DEF Environment, CardExchanged, volatile, masterSide, Tick, Poll!Tick,
                Poll!InverterChanges, Poll!pollVars, vars
  <2> QED
    BY <2>1
<1>7. CASE UNCHANGED loopVars
  BY <1>7 DEF loopVars, vars, volatile, masterSide
<1> QED
  BY <1>1, <1>2, <1>3, <1>4, <1>5, <1>6, <1>7 DEF LoopNext

-----------------------------------------------------------------------------
\* What a row is held against does not fall behind: the inverter only moves on,
\* the cache only to what has just been read.
Behind(i, b) ==
  /\ rows[i][b] <= inverter[b]
  /\ cache[b] = 0 \/ rows[i][b] <= cache[b]
  /\ step = "process" /\ Poll!CurrentBlock = b => rows[i][b] <= response

LEMMA RowsAre ==
  ASSUME rows \in Seq([RowBlocks -> 0 .. MaxGen]), NEW i \in DOMAIN rows, NEW b \in RowBlocks
  PROVE  rows[i][b] \in 0 .. MaxGen
OBVIOUS

\* While no row is added, the rows stay behind.
LEMMA BehindKept ==
  ASSUME Proved!IInv, TurnInv, RowInv, [LoopNext]_loopVars, rows' = rows
  PROVE  RowInv'
<1>1. \A i \in DOMAIN rows, b \in RowBlocks : Behind(i, b)
  BY DEF RowInv, Behind
<1>2. RowBlocks \subseteq Blocks
  BY PollAssumption
<1>3. ASSUME NEW i \in DOMAIN rows, NEW b \in RowBlocks PROVE Behind(i, b)'
  <2>1. Behind(i, b) /\ b \in Blocks /\ rows[i][b] \in Nat
    BY <1>1, <1>2, RowsAre, PollAssumption DEF RowInv
  <2>2. /\ inverter \in [Blocks -> 1 .. MaxGen] /\ cache \in [Blocks -> 0 .. MaxGen]
        /\ cache[b] <= inverter[b]
    BY <2>1, PollerFacts DEF Poll!TypeOK
  <2>3. ASSUME UNCHANGED << inverter, cache, response, index, step >> PROVE Behind(i, b)'
    BY <2>1, <2>3 DEF Behind, Poll!CurrentBlock
  <2>4. CASE Poll!Reply
    <3>1. /\ UNCHANGED << inverter, cache, index >> /\ step' = "process"
          /\ response' = inverter[Poll!CurrentBlock]
      BY <2>4 DEF Poll!Reply
    <3> QED
      BY <2>1, <3>1 DEF Behind, Poll!CurrentBlock
  <2>5. CASE Poll!processBlock
    <3>1. /\ step = "process" /\ step' # "process" /\ UNCHANGED inverter
          /\ cache' = [cache EXCEPT ![Poll!CurrentBlock] = response]
      BY <2>5 DEF Poll!processBlock, Poll!NextBlock
    <3> QED
      BY <2>1, <2>2, <3>1 DEF Behind
  <2>6. CASE Poll!PassGate \/ Poll!StartPoll \/ Poll!NoReply \/ Poll!FinishPoll
    <3>1. UNCHANGED << inverter, cache >> /\ step' # "process"
      BY <2>6 DEF Poll!PassGate, Poll!StartPoll, Poll!NoReply, Poll!NextBlock, Poll!FinishPoll
    <3> QED
      BY <2>1, <3>1 DEF Behind
  <2>7. CASE PowerFails
    <3>1. UNCHANGED inverter /\ step' = "gate" /\ cache'[b] = 0
      BY <2>1, <2>7 DEF PowerFails
    <3> QED
      BY <2>1, <3>1 DEF Behind
  <2>8. ASSUME NEW c \in Blocks, Poll!InverterChanges(c) PROVE Behind(i, b)'
    <3>1. UNCHANGED << cache, response, index, step >> /\ inverter'[b] >= inverter[b]
          /\ inverter'[b] \in Nat /\ inverter[b] \in Nat
      BY <2>1, <2>2, <2>8 DEF Poll!InverterChanges, Poll!pollVars
    <3> QED
      BY <2>1, <3>1 DEF Behind, Poll!CurrentBlock
  <2>9. CASE UNCHANGED masterSide
    BY <2>3, <2>9 DEF masterSide
  <2>10. CASE Poll!Tick
    BY <2>3, <2>10 DEF Poll!Tick, Poll!pollVars
  <2>11. CASE Master
    BY <2>4, <2>5, <2>6, <2>11 DEF Master, Poll!MasterStep
  <2>12. CASE Environment
    BY <2>7, <2>8, <2>9, <2>10, <2>12 DEF Environment
  <2>13. CASE Setup \/ MasterIdle \/ Log \/ UNCHANGED loopVars
    BY <2>9, <2>13 DEF Setup, MasterIdle, Log, loopVars
  <2> QED
    BY <2>11, <2>12, <2>13 DEF LoopNext
<1>4. RowsNeverGoBack'
  BY DEF RowInv, RowsNeverGoBack
<1> QED
  BY <1>3, <1>4 DEF RowInv, Behind

\* A new row shows the cache, which the rows before it are behind.
LEMMA RowAdded ==
  ASSUME Proved!IInv, TurnInv, RowInv, Log, PrintRow,
         rows' = Append(rows, [b \in RowBlocks |-> cache[b]])
  PROVE  RowInv'
<1> DEFINE row == [b \in RowBlocks |-> cache[b]]
<1>1. RowBlocks \subseteq Blocks
  BY PollAssumption
<1>2. /\ cache \in [Blocks -> 0 .. MaxGen]
      /\ \A b \in Blocks : cache[b] <= inverter[b]
  BY PollerFacts DEF Poll!TypeOK
<1>3. row \in [RowBlocks -> 0 .. MaxGen]
  BY <1>1, <1>2
<1>4. /\ UNCHANGED << inverter, cache, response, index, step >>
      /\ step = "gate"
  BY DEF Log, masterSide, TurnInv, PrintRow
<1>5. rows \in Seq([RowBlocks -> 0 .. MaxGen])
  BY DEF RowInv
<1> HIDE DEF row
<1>6. /\ rows' \in Seq([RowBlocks -> 0 .. MaxGen])
      /\ Len(rows') = Len(rows) + 1 /\ Len(rows) \in Nat
      /\ \A i \in 1 .. Len(rows) : rows'[i] = rows[i]
      /\ rows'[Len(rows) + 1] = row
  BY <1>3, <1>5 DEF row
<1>7. DOMAIN rows = 1 .. Len(rows) /\ DOMAIN rows' = 1 .. Len(rows) + 1
  BY <1>5, <1>6
<1>8. \A b \in RowBlocks : row[b] = cache[b] /\ row[b] <= inverter[b] /\ cache[b] <= cache[b]
  BY <1>1, <1>2 DEF row
<1>9. \A i \in DOMAIN rows', b \in RowBlocks :
        rows'[i][b] <= inverter[b] /\ (cache[b] = 0 \/ rows'[i][b] <= cache[b])
  BY <1>6, <1>7, <1>8 DEF RowInv
<1>10. RowsNeverGoBack'
  <2> SUFFICES ASSUME NEW j \in DOMAIN rows', NEW i \in 1 .. j - 1, NEW b \in RowBlocks
               PROVE  rows'[j][b] = 0 \/ rows'[j][b] >= rows'[i][b]
    BY DEF RowsNeverGoBack
  <2>1. i \in 1 .. Len(rows) /\ rows'[i] = rows[i]
    BY <1>6, <1>7
  <2>2. CASE j \in 1 .. Len(rows)
    BY <1>6, <1>7, <2>1, <2>2 DEF RowInv, RowsNeverGoBack
  <2>3. CASE j = Len(rows) + 1
    <3>1. rows'[j][b] = cache[b]
      BY <1>6, <1>8, <2>3
    <3>2. cache[b] = 0 \/ rows[i][b] <= cache[b]
      BY <1>7, <2>1 DEF RowInv
    <3>3. rows[i][b] \in Nat /\ cache[b] \in Nat
      BY <1>1, <1>2, <1>5, <1>7, <2>1, RowsAre, PollAssumption
    <3> QED
      BY <2>1, <3>1, <3>2, <3>3
  <2> QED
    BY <1>6, <1>7, <2>2, <2>3
<1> QED
  BY <1>4, <1>6, <1>9, <1>10 DEF RowInv

\* A blank card has no rows.
LEMMA NoRows ==
  ASSUME rows' = << >>
  PROVE  RowInv'
<1>1. rows' \in Seq([RowBlocks -> 0 .. MaxGen]) /\ DOMAIN rows' = {}
  OBVIOUS
<1> QED
  BY <1>1 DEF RowInv, RowsNeverGoBack

\* Every step of the loop keeps the rows in order.
LEMMA RowStep ==
  ASSUME Proved!IInv, TurnInv, RowInv, [LoopNext]_loopVars
  PROVE  RowInv'
<1>1. CASE rows' = rows
  BY <1>1, BehindKept
<1>2. CASE Log /\ PrintRow /\ rows' = Append(rows, [b \in RowBlocks |-> cache[b]])
  BY <1>2, RowAdded
<1>3. CASE rows' = << >>
  BY <1>3, NoRows
<1>4. \/ rows' = rows \/ rows' = << >>
      \/ Log /\ PrintRow /\ rows' = Append(rows, [b \in RowBlocks |-> cache[b]])
  BY DEF LoopNext, Setup, Master, logSide, MasterIdle, Log, Environment, PowerFails, loopVars
<1> QED
  BY <1>1, <1>2, <1>3, <1>4

-----------------------------------------------------------------------------
\* The loop's own invariant holds in every reachable state.
THEOREM LoopInductive == LoopSpec => []LoopIInv
<1>1. LoopInit => LoopIInv
  <2> SUFFICES ASSUME LoopInit PROVE LoopIInv
    OBVIOUS
  <2>1. Proved!Init
    BY DEF LoopInit, Poll!Init, Proved!Init
  <2>2. Proved!IInv
    BY <2>1, PollerAssumptions, Proved!InitIInv
  <2>3. TurnInv
    <3>1. ~polled /\ polled \in BOOLEAN
      BY DEF LoopInit, Init
    <3>2. ~(solark_success_count > 0)
      BY DEF LoopInit, Poll!Init
    <3>3. turn = "master" /\ pc = "card"
      BY DEF LoopInit, Init
    <3> QED
      BY <3>1, <3>2, <3>3 DEF TurnInv
  <2>4. RowInv
    <3>1. rows \in Seq([RowBlocks -> 0 .. MaxGen]) /\ DOMAIN rows = {}
      BY DEF LoopInit
    <3> QED
      BY <3>1 DEF RowInv, RowsNeverGoBack
  <2> QED
    BY <2>2, <2>3, <2>4 DEF LoopIInv
<1>2. LoopIInv /\ [LoopNext]_loopVars => LoopIInv'
  BY PollerStep, TurnStep, RowStep DEF LoopIInv
<1> QED
  BY <1>1, <1>2, PTL DEF LoopSpec

\* Every step of the loop is a step of the logger or leaves it alone.
LEMMA LoggerStep ==
  ASSUME LoopIInv, [LoopNext]_loopVars
  PROVE  [Next]_vars
<1>1. CASE Master
  <2>1. pc = "loop" /\ UNCHANGED << file, events, pc, _sd_available, millis, _lastLogMillis, quiet >>
    <3>1. millis' = millis
      BY <1>1, CountGrows DEF Master, LoopIInv
    <3> QED
      BY <1>1, <3>1 DEF Master, logSide
  <2>2. polled' = polled \/ polled' = TRUE
    <3>1. /\ polled \in BOOLEAN /\ (polled <=> solark_success_count > 0)
          /\ polled' \in BOOLEAN /\ (polled' <=> solark_success_count' > 0)
      BY TurnStep DEF LoopIInv, TurnInv
    <3>2. solark_success_count > 0 => solark_success_count' > 0
      BY <1>1, CountGrows DEF Master, LoopIInv
    <3> QED
      BY <3>1, <3>2
  <2>3. CASE polled' = polled
    BY <2>1, <2>3 DEF vars, volatile
  <2>4. CASE polled' = TRUE
    BY <2>1, <2>4 DEF PollSucceeds, Next
  <2> QED
    BY <2>2, <2>3, <2>4
<1>2. CASE Setup \/ MasterIdle \/ Log
  BY <1>2 DEF Setup, MasterIdle, Log, Next
<1>3. CASE Environment
  BY <1>3 DEF Environment, PowerFails, Next
<1>4. CASE UNCHANGED loopVars
  BY <1>4 DEF loopVars
<1> QED
  BY <1>1, <1>2, <1>3, <1>4 DEF LoopNext

\* The logger under loop() is the logger by itself: all that is proved of it
\* holds of the firmware, with the poller's success count as its gate.
THEOREM LogRefinement == LoopSpec => LoggerInLoop
<1>1. LoopInit => Init
  BY DEF LoopInit
<1>2. LoopIInv /\ [LoopNext]_loopVars => [Next]_vars
  BY LoggerStep
<1> QED
  BY <1>1, <1>2, LoopInductive, PTL DEF LoopSpec, LoggerInLoop, Spec

\* The variables of the composed loop keep the values the code gives them.
THEOREM LoopTypeCorrect == LoopSpec => []LoopTypeOK
<1>1. LoopIInv /\ TypeOK => LoopTypeOK
  BY PollerFacts DEF LoopIInv, TurnInv, RowInv, LoopTypeOK
<1> QED
  BY <1>1, LoopInductive, LogRefinement, TypeCorrect, PTL DEF LoggerInLoop

\* The log of a block never runs backwards, through any number of failed reads,
\* power cuts and reboots.
THEOREM LogNeverBack == LoopSpec => []RowsNeverGoBack
<1>1. LoopIInv => RowsNeverGoBack
  BY DEF LoopIInv, RowInv
<1> QED
  BY <1>1, LoopInductive, PTL

\* The file is never opened before some block has been read since boot.
THEOREM DataFirst == LoopSpec => []RowsFollowData
<1>1. LoopIInv => RowsFollowData
  BY PollerFacts DEF LoopIInv, TurnInv, RowsFollowData
<1> QED
  BY <1>1, LoopInductive, PTL

\* A row is made between two cycles, and what the last one read is in it.
LEMMA RowStepIsFresh ==
  ASSUME LoopIInv, [LoopNext]_loopVars, Len(rows') > Len(rows)
  PROVE  /\ step = "gate"
         /\ \A b \in RowBlocks \cap got : rows'[Len(rows')][b] >= floor[b]
<1>1. rows \in Seq([RowBlocks -> 0 .. MaxGen]) /\ Len(rows) \in Nat
  BY DEF LoopIInv, RowInv
<1>2. \/ rows' = rows \/ rows' = << >>
      \/ Log /\ PrintRow /\ rows' = Append(rows, [b \in RowBlocks |-> cache[b]])
  BY DEF LoopNext, Setup, Master, logSide, MasterIdle, Log, Environment, PowerFails, loopVars
<1>3. Log /\ PrintRow /\ rows' = Append(rows, [b \in RowBlocks |-> cache[b]])
  BY <1>1, <1>2
<1>4. step = "gate"
  BY <1>3 DEF Log, LoopIInv, TurnInv
<1>5. rows'[Len(rows')] = [b \in RowBlocks |-> cache[b]]
  BY <1>1, <1>3
<1>6. \A b \in got : cache[b] >= floor[b]
  BY PollerFacts DEF LoopIInv
<1> QED
  BY <1>4, <1>5, <1>6

\* Every row is as fresh as the last cycle, block by block.
THEOREM RowsCurrent == LoopSpec => RowsAreFresh
<1>1. LoopIInv /\ [LoopNext]_loopVars =>
        [Len(rows') > Len(rows) =>
           /\ step = "gate"
           /\ \A b \in RowBlocks \cap got : rows'[Len(rows')][b] >= floor[b]]_loopVars
  BY RowStepIsFresh
<1> QED
  BY <1>1, LoopInductive, PTL DEF LoopSpec, RowsAreFresh
=============================================================================
