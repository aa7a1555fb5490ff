--------------------------- MODULE Firmware_proofs ---------------------------
(***************************************************************************)
(* Proofs about Firmware, for any set of builds, any modulus of millis(),  *)
(* any intervals, any time the stages of loop() may take and any lines     *)
(* that other code hands to the console.                                   *)
(***************************************************************************)
EXTENDS Firmware, SequenceTheorems, TLAPS

-----------------------------------------------------------------------------
(* The stages.                                                             *)

\* A function on 1 .. n is a sequence.
LEMMA FunctionIsSeq ==
  ASSUME NEW n \in Nat, NEW S, NEW f \in [1 .. n -> S]
  PROVE  f \in Seq(S)
OBVIOUS

\* The stages by their place.
LEMMA StageNames ==
  /\ Len(SetupStages) = 14 /\ Len(LoopStages) = 4
  /\ Len(Stages) = 18 /\ DOMAIN Stages = 1 .. 18 /\ FirstOfLoop = 15
  /\ Stages[1] = "spi" /\ Stages[2] = "panel" /\ Stages[3] = "rick" /\ Stages[4] = "logo"
  /\ Stages[5] = "starting" /\ Stages[6] = "wifi" /\ Stages[7] = "w5500" /\ Stages[8] = "link"
  /\ Stages[9] = "address" /\ Stages[10] = "sd" /\ Stages[11] = "ready"
  /\ Stages[12] = "sunspec" /\ Stages[13] = "models" /\ Stages[14] = "ip"
  /\ Stages[15] = "rest" /\ Stages[16] = "ethernet" /\ Stages[17] = "display"
  /\ Stages[18] = "counter"
<1> DEFINE Names == {SetupStages[i] : i \in 1 .. 14} \cup {LoopStages[i] : i \in 1 .. 4}
<1>1. Len(SetupStages) = 14 /\ Len(LoopStages) = 4
  BY DEF SetupStages, LoopStages
<1>2. SetupStages \in Seq(Names) /\ LoopStages \in Seq(Names)
  <2>1. SetupStages = [i \in 1 .. 14 |-> SetupStages[i]]
    BY DEF SetupStages
  <2>2. LoopStages = [i \in 1 .. 4 |-> LoopStages[i]]
    BY DEF LoopStages
  <2>3. SetupStages \in [1 .. 14 -> Names]
    BY <2>1
  <2>4. LoopStages \in [1 .. 4 -> Names]
    BY <2>2
  <2> HIDE DEF Names
  <2> QED
    BY <2>3, <2>4, FunctionIsSeq
<1> HIDE DEF Names
<1>3. /\ Stages \in Seq(Names) /\ Len(Stages) = 18
      /\ \A i \in 1 .. 18 : Stages[i] = IF i <= 14 THEN SetupStages[i] ELSE LoopStages[i - 14]
  <2>1. Len(SetupStages) + Len(LoopStages) = 18
    BY <1>1, <1>2
  <2>2. /\ Stages \in Seq(Names)
        /\ Len(Stages) = Len(SetupStages) + Len(LoopStages)
        /\ \A i \in 1 .. Len(SetupStages) + Len(LoopStages) :
             Stages[i] = IF i <= Len(SetupStages) THEN SetupStages[i]
                                                  ELSE LoopStages[i - Len(SetupStages)]
    BY <1>2, ConcatProperties DEF Stages
  <2> QED
    BY <1>1, <2>1, <2>2
<1>4. DOMAIN Stages = 1 .. 18 /\ FirstOfLoop = 15
  BY <1>1, <1>3 DEF FirstOfLoop
<1>5. /\ Stages[1] = "spi" /\ Stages[2] = "panel" /\ Stages[3] = "rick" /\ Stages[4] = "logo"
      /\ Stages[5] = "starting" /\ Stages[6] = "wifi" /\ Stages[7] = "w5500"
  BY <1>3 DEF SetupStages
<1>6. /\ Stages[8] = "link" /\ Stages[9] = "address" /\ Stages[10] = "sd"
      /\ Stages[11] = "ready" /\ Stages[12] = "sunspec" /\ Stages[13] = "models"
      /\ Stages[14] = "ip"
  BY <1>3 DEF SetupStages
<1>7. /\ Stages[15] = "rest" /\ Stages[16] = "ethernet" /\ Stages[17] = "display"
      /\ Stages[18] = "counter"
  <2>1. \A i \in 15 .. 18 : Stages[i] = LoopStages[i - 14]
    BY <1>3
  <2> QED
    BY <2>1 DEF LoopStages
<1> QED
  BY <1>1, <1>2, <1>3, <1>4, <1>5, <1>6, <1>7

\* What the modulus and the intervals satisfy.
LEMMA Bounds ==
  /\ MillisMod \in Nat \ {0} /\ UpdateInterval \in Nat \ {0} /\ SecondInterval \in Nat
  /\ TicksPerFrame \in Nat \ {0}
BY PanelAssumption

\* The unsigned difference of two readings of millis().
LEMMA ElapsedIs ==
  ASSUME NEW a \in Times, NEW b \in Times
  PROVE  Elapsed(a, b) = IF a >= b THEN a - b ELSE a - b + MillisMod
BY Bounds DEF Elapsed, Times

\* A tick later the difference is one more, or has gone round to 0.
LEMMA ElapsedTick ==
  ASSUME NEW a \in Times, NEW b \in Times
  PROVE  /\ (a + 1) % MillisMod \in Times
         /\ Elapsed((a + 1) % MillisMod, b) =
              IF Elapsed(a, b) = MillisMod - 1 THEN 0 ELSE Elapsed(a, b) + 1
<1> DEFINE c == (a + 1) % MillisMod
<1>1. c = IF a = MillisMod - 1 THEN 0 ELSE a + 1
  BY Bounds DEF Times
<1> HIDE DEF c
<1>2. c \in Times
  BY <1>1, Bounds DEF Times
<1>3. Elapsed(c, b) = IF c >= b THEN c - b ELSE c - b + MillisMod
  BY <1>2, ElapsedIs
<1>4. Elapsed(a, b) = IF a >= b THEN a - b ELSE a - b + MillisMod
  BY ElapsedIs
<1>5. Elapsed(c, b) = IF Elapsed(a, b) = MillisMod - 1 THEN 0 ELSE Elapsed(a, b) + 1
  BY <1>1, <1>3, <1>4, Bounds DEF Times
<1> QED
  BY <1>2, <1>5 DEF c

\* Elapsed is a time.
LEMMA ElapsedType ==
  ASSUME NEW a \in Times, NEW b \in Times
  PROVE  Elapsed(a, b) \in Times /\ Elapsed(a, a) = 0
BY ElapsedIs, Bounds DEF Times

\* What Proceed does to the place: on to the first stage that the build has.
LEMMA ProceedPlace ==
  ASSUME build \in Builds, at \in 1 .. 18, Proceed
  PROVE  /\ at' \in 1 .. 18 /\ held' = 0
         /\ Compiled(build, Stages[at'])
         /\ at < 15 => at' > at /\ at' <= 15
         /\ at >= 15 => at' >= 15
         /\ at = 15 /\ build.oled => at' \in {16, 17}
         /\ at = 16 /\ build.oled => at' = 17
         /\ at = 15 => at' # 18
         /\ at = 16 => at' # 18
         /\ at = 17 /\ build.oled => at' = 18
         /\ at = 18 => at' = 15
<1> DEFINE U == {j \in 1 .. 18 : j > at /\ Compiled(build, Stages[j])}
<1>1. Upcoming[build][at] = U
  BY StageNames DEF Upcoming
<1>2. Compiled(build, Stages[15])
  BY StageNames DEF Compiled
<1>3. build.oled => Compiled(build, Stages[17]) /\ Compiled(build, Stages[18])
  BY StageNames DEF Compiled
<1>3a. ~build.oled => ~Compiled(build, Stages[18])
  BY StageNames DEF Compiled
<1>4. \/ U = {} /\ at' = 15
      \/ at' \in U /\ \A k \in U : at' <= k
  BY <1>1, StageNames DEF Proceed, Follows
<1>5. at < 15 => 15 \in U
  BY <1>2
<1>6. build.oled /\ at < 17 => 17 \in U
  BY <1>3
<1>7. build.oled /\ at < 18 => 18 \in U
  BY <1>3
<1>8. ~build.oled => 18 \notin U
  BY <1>3a
<1>9. held' = 0
  BY DEF Proceed
<1>10. at' \in 1 .. 18 /\ Compiled(build, Stages[at'])
  BY <1>4, <1>2
<1>11. /\ at < 15 => at' > at /\ at' <= 15
       /\ at >= 15 => at' >= 15
  BY <1>4, <1>5
<1>12. /\ at = 15 /\ build.oled => at' \in {16, 17}
       /\ at = 16 /\ build.oled => at' = 17
       /\ at = 17 /\ build.oled => at' = 18
  BY <1>4, <1>6, <1>7
<1>13. at \in {15, 16} => at' # 18
  BY <1>4, <1>6, <1>8
<1>14. at = 18 => at' = 15
  BY <1>4
<1> QED
  BY <1>9, <1>10, <1>11, <1>12, <1>13, <1>14

-----------------------------------------------------------------------------
(* The console and what is drawn of it.                                    *)

\* The pieces that lines are made of; a line has at least one, and is not one of
\* the counter's texts.
Pieces ==
  MoreLines \cup
  { "Starting Gateway", "EMS Gateway Ready!", "Sol-Ark -> SunSpec", "Model 1, 701, 713 Active",
    "IP", "Not Connected", "No IP", "appended" }

Lines == {line \in Seq(Pieces) : Len(line) > 0}

\* How many of the lines handed over are on the console, which those are, and
\* where they are drawn.
Newest(lines) == IF Len(lines) > 5 THEN 5 ELSE Len(lines)

Console(lines) ==
  [i \in LineNumbers |->
     IF i < Newest(lines) THEN lines[Len(lines) - Newest(lines) + i + 1] ELSE NoText]

Drawn(lines) ==
  { << 10 * (i - (Len(lines) - Newest(lines))), lines[i] >> :
      i \in Len(lines) - Newest(lines) + 1 .. Len(lines) }

\* No line is empty or a text of the counter.
LEMMA LinesDiffer ==
  ASSUME NEW line \in Lines
  PROVE  line # NoText /\ line \notin CounterTexts
<1>1. line \in Seq(Pieces) /\ Len(line) > 0
  BY DEF Lines
<1>2. line # NoText
  BY <1>1 DEF NoText
<1>3. Pieces \cap {"t0", "t1", "t2"} = {}
  BY FirmwareAssumption DEF Pieces
<1>4. line[1] \in Pieces
  BY <1>1
<1>5. line \notin CounterTexts
  BY <1>3, <1>4 DEF CounterTexts
<1> QED
  BY <1>2, <1>5

\* A text of one piece is a line.
LEMMA OnePiece ==
  ASSUME NEW piece \in Pieces
  PROVE  << piece >> \in Lines
BY DEF Lines

\* The console's five lines, by number.
LEMMA ConsoleIs ==
  ASSUME NEW lines
  PROVE  Console(lines) =
           [i \in 0 .. 4 |->
              IF i < Newest(lines) THEN lines[Len(lines) - Newest(lines) + i + 1] ELSE NoText]
BY DEF Console, LineNumbers, NUM_LINES

\* From five lines on the console is full.
LEMMA FiveOrMore ==
  ASSUME NEW lines, Len(lines) \in Nat, Len(lines) >= 5
  PROVE  Newest(lines) = 5
<1> DEFINE n == Len(lines)
<1>1. n \in Nat /\ n >= 5 /\ Newest(lines) = IF n > 5 THEN 5 ELSE n
  BY DEF Newest
<1> HIDE DEF n
<1> QED
  BY <1>1

\* A piece appended to a line gives a line.
LEMMA OneMore ==
  ASSUME NEW line \in Lines, NEW piece \in Pieces
  PROVE  Append(line, piece) \in Lines
BY DEF Lines

\* Handing over a line: Position keeps the last five, in order.
LEMMA PositionShifts ==
  ASSUME NEW line \in Lines, added \in Seq(Lines), logLinePtr = Newest(added),
         consoleLog = Console(added), Position(line)
  PROVE  /\ Append(added, line) \in Seq(Lines)
         /\ logLinePtr' = Newest(Append(added, line))
         /\ consoleLog' = Console(Append(added, line))
<1> DEFINE more == Append(added, line)
<1>1. /\ more \in Seq(Lines) /\ Len(more) = Len(added) + 1 /\ Len(added) \in Nat
      /\ more[Len(added) + 1] = line
      /\ \A i \in 1 .. Len(added) : more[i] = added[i]
  OBVIOUS
<1>2. Newest(added) = IF Len(added) > 5 THEN 5 ELSE Len(added)
  BY DEF Newest
<1>3. Newest(more) = IF Len(more) > 5 THEN 5 ELSE Len(more)
  BY DEF Newest
<1> HIDE DEF more
<1>4. CASE Len(added) >= 5
  <2>0. Newest(added) = 5 /\ Newest(more) = 5
    <3>1. Len(added) \in Nat /\ Len(more) \in Nat /\ Len(more) >= 5
      BY <1>1, <1>4
    <3> QED
      BY <1>4, <3>1, FiveOrMore
  <2>1. logLinePtr = 5 /\ logLinePtr' = 5 /\ consoleLog' = [scroll(consoleLog) EXCEPT ![4] = line]
    <3>1. logLinePtr > NUM_LINES - 1 /\ NUM_LINES - 1 = 4
      BY <2>0 DEF NUM_LINES
    <3> QED
      BY <2>0, <3>1 DEF Position, NUM_LINES
  <2>2. \A i \in 0 .. 4 : consoleLog[i] = added[Len(added) - 5 + i + 1]
    <3>1. consoleLog = [i \in 0 .. 4 |-> IF i < 5 THEN added[Len(added) - 5 + i + 1] ELSE NoText]
      BY <2>0, ConsoleIs
    <3> QED
      BY <3>1
  <2>3. consoleLog' = [i \in 0 .. 4 |-> IF i = 4 THEN line ELSE consoleLog[i + 1]]
    <3>1. scroll(consoleLog) = [i \in 0 .. 4 |-> IF i < 4 THEN consoleLog[i + 1] ELSE consoleLog[i]]
      BY DEF scroll, LineNumbers, NUM_LINES
    <3>2. consoleLog' = [i \in 0 .. 4 |-> IF i = 4 THEN line ELSE scroll(consoleLog)[i]]
      BY <2>1, <3>1
    <3>3. \A i \in 0 .. 4 : i # 4 => scroll(consoleLog)[i] = consoleLog[i + 1]
      BY <3>1
    <3> QED
      BY <3>2, <3>3
  <2>4. \A i \in 0 .. 4 : consoleLog'[i] = more[Len(more) - 5 + i + 1]
    <3> SUFFICES ASSUME NEW i \in 0 .. 4
                 PROVE  consoleLog'[i] = more[Len(more) - 5 + i + 1]
      OBVIOUS
    <3>1. CASE i = 4
      BY <1>1, <2>3, <3>1
    <3>2. CASE i # 4
      <4>1. consoleLog'[i] = added[Len(added) - 5 + (i + 1) + 1] /\ i + 1 \in 0 .. 4
        BY <2>2, <2>3, <3>2
      <4>2. Len(added) - 5 + (i + 1) + 1 \in 1 .. Len(added)
        BY <1>1, <1>4, <3>2
      <4>3. Len(more) - 5 + i + 1 = Len(added) - 5 + (i + 1) + 1
        BY <1>1
      <4> QED
        BY <1>1, <4>1, <4>2, <4>3
    <3> QED
      BY <3>1, <3>2
  <2>5. Console(more) = [i \in 0 .. 4 |-> more[Len(more) - 5 + i + 1]]
    <3>1. Console(more) = [i \in 0 .. 4 |-> IF i < 5 THEN more[Len(more) - 5 + i + 1] ELSE NoText]
      BY <2>0, ConsoleIs
    <3> QED
      BY <3>1
  <2>6. consoleLog' = Console(more)
    BY <2>3, <2>4, <2>5
  <2> QED
    BY <1>1, <2>0, <2>1, <2>6 DEF more
<1>5. CASE Len(added) < 5
  <2>1. /\ logLinePtr = Len(added) /\ logLinePtr' = Len(added) + 1
        /\ Newest(added) = Len(added) /\ Newest(more) = Len(added) + 1
        /\ consoleLog' = [consoleLog EXCEPT ![Len(added)] = line]
    BY <1>1, <1>2, <1>3, <1>5 DEF Position, NUM_LINES
  <2>2. consoleLog = [i \in 0 .. 4 |-> IF i < Len(added) THEN added[i + 1] ELSE NoText]
    BY <1>1, <2>1 DEF Console, LineNumbers, NUM_LINES
  <2>3. Console(more) = [i \in 0 .. 4 |-> IF i < Len(added) + 1 THEN more[i + 1] ELSE NoText]
    BY <1>1, <2>1 DEF Console, LineNumbers, NUM_LINES
  <2>4. \A i \in 0 .. 4 : consoleLog'[i] = IF i < Len(added) + 1 THEN more[i + 1] ELSE NoText
    BY <1>1, <1>5, <2>1, <2>2
  <2>5. consoleLog' = [i \in 0 .. 4 |-> consoleLog'[i]]
    BY <2>1, <2>2
  <2>6. consoleLog' = Console(more)
    BY <2>3, <2>4, <2>5
  <2> QED
    BY <1>1, <2>1, <2>6 DEF more
<1> QED
  BY <1>1, <1>4, <1>5

\* Appending to the last line changes that line and no other.
LEMMA AppendStays ==
  ASSUME NEW piece \in Pieces, added \in Seq(Lines), added # << >>,
         logLinePtr = Newest(added), consoleLog = Console(added)
  PROVE  LET more == [added EXCEPT ![Len(added)] = Append(@, piece)]
         IN  /\ more \in Seq(Lines) /\ more # << >>
             /\ logLinePtr = Newest(more)
             /\ [consoleLog EXCEPT ![logLinePtr - 1] = Append(@, piece)] = Console(more)
<1> DEFINE more == [added EXCEPT ![Len(added)] = Append(@, piece)]
           last == Append(added[Len(added)], piece)
<1>1. Len(added) \in Nat /\ Len(added) >= 1
  OBVIOUS
<1>2. added[Len(added)] \in Lines /\ last \in Lines
  BY <1>1, OneMore
<1>3. /\ more \in Seq(Lines) /\ Len(more) = Len(added)
      /\ \A i \in 1 .. Len(added) : more[i] = IF i = Len(added) THEN last ELSE added[i]
  BY <1>1, <1>2
<1>4. more # << >>
  BY <1>1, <1>3
<1> HIDE DEF more
<1>5. Newest(more) = Newest(added) /\ Newest(added) \in 1 .. 5 /\ Newest(added) <= Len(added)
  BY <1>1, <1>3 DEF Newest
<1> DEFINE n == Newest(added)
           log == [consoleLog EXCEPT ![logLinePtr - 1] = Append(@, piece)]
<1>6. consoleLog = [i \in 0 .. 4 |-> IF i < n THEN added[Len(added) - n + i + 1] ELSE NoText]
  BY ConsoleIs
<1>7. Console(more) = [i \in 0 .. 4 |-> IF i < n THEN more[Len(added) - n + i + 1] ELSE NoText]
  BY <1>3, <1>5, ConsoleIs
<1> HIDE DEF n
<1>8. consoleLog[n - 1] = added[Len(added)]
  BY <1>1, <1>5, <1>6 DEF n
<1>9. log = [i \in 0 .. 4 |-> IF i = n - 1 THEN last ELSE consoleLog[i]]
  BY <1>5, <1>6, <1>8 DEF n
<1> HIDE DEF log, last
<1>10. \A i \in 0 .. 4 : log[i] = IF i < n THEN more[Len(added) - n + i + 1] ELSE NoText
  <2> SUFFICES ASSUME NEW i \in 0 .. 4
               PROVE  log[i] = IF i < n THEN more[Len(added) - n + i + 1] ELSE NoText
    OBVIOUS
  <2>0. n \in 1 .. 5 /\ n <= Len(added) /\ Len(added) \in Nat
    BY <1>1, <1>5 DEF n
  <2>1. CASE i = n - 1
    <3>1. Len(added) - n + i + 1 = Len(added) /\ i < n /\ Len(added) \in 1 .. Len(added)
      BY <1>1, <2>0, <2>1
    <3>2. log[i] = last
      BY <1>9, <2>1
    <3> QED
      BY <1>3, <3>1, <3>2
  <2>2. CASE i < n - 1
    <3>1. Len(added) - n + i + 1 \in 1 .. Len(added) /\ Len(added) - n + i + 1 # Len(added)
      BY <1>1, <2>0, <2>2
    <3>2. log[i] = consoleLog[i] /\ i < n
      BY <1>9, <2>0, <2>2
    <3>3. consoleLog[i] = added[Len(added) - n + i + 1]
      BY <1>6, <3>2
    <3> QED
      BY <1>3, <3>1, <3>2, <3>3
  <2>3. CASE i >= n
    BY <1>6, <1>9, <2>0, <2>3
  <2> QED
    BY <2>0, <2>1, <2>2, <2>3
<1>11. log = [i \in 0 .. 4 |-> log[i]]
  BY <1>9
<1>12. log = Console(more)
  BY <1>7, <1>10, <1>11
<1> QED
  BY <1>3, <1>4, <1>5, <1>12 DEF more, log, last

\* Each line that is not empty is drawn at its row.
LEMMA DrawLinesIs ==
  ASSUME NEW lines
  PROVE  DrawLines(Blank, lines) =
           { << 10 * (i + 1), lines[i] >> : i \in {j \in 0 .. 4 : lines[j] # NoText} }
<1> DEFINE At10(i) == drawString(Blank, LineY(i), lines[i])
<1>1. DrawLines(Blank, lines) = UNION { At10(i) : i \in 0 .. 4 }
  BY DEF DrawLines, Blank, LineNumbers, NUM_LINES
<1>2. \A i \in 0 .. 4 :
        At10(i) = IF lines[i] = NoText THEN {} ELSE { << 10 * (i + 1), lines[i] >> }
  <2> SUFFICES ASSUME NEW i \in 0 .. 4
               PROVE  At10(i) = IF lines[i] = NoText THEN {} ELSE { << 10 * (i + 1), lines[i] >> }
    OBVIOUS
  <2>1. LineY(i) = 10 * (i + 1) /\ OnScreen(LineY(i))
    BY DEF LineY, OnScreen, FIRST_LINE_Y_OFFSET
  <2> QED
    BY <2>1 DEF drawString, Blank
<1> HIDE DEF At10
<1> QED
  BY <1>1, <1>2

\* Drawing the console draws the last five lines, one below the other.
LEMMA ConsoleDrawn ==
  ASSUME NEW lines \in Seq(Lines)
  PROVE  DrawLines(Blank, Console(lines)) = Drawn(lines)
<1> DEFINE n == Newest(lines)
           l == Len(lines)
<1>1. l \in Nat /\ n \in 0 .. 5 /\ n <= l
  <2>1. l \in Nat /\ n = IF l > 5 THEN 5 ELSE l
    BY DEF Newest
  <2> HIDE DEF l, n
  <2> QED
    BY <2>1
<1>2. \A k \in 1 .. l : lines[k] \in Lines /\ lines[k] # NoText
  BY LinesDiffer
<1>3. Console(lines) = [i \in 0 .. 4 |-> IF i < n THEN lines[l - n + i + 1] ELSE NoText]
  BY ConsoleIs
<1>4. Drawn(lines) = { << 10 * (k - (l - n)), lines[k] >> : k \in l - n + 1 .. l }
  BY DEF Drawn
<1> HIDE DEF n, l
<1> DEFINE log == Console(lines)
           Shown == {j \in 0 .. 4 : log[j] # NoText}
<1>5. \A i \in 0 .. 4 : log[i] = IF i < n THEN lines[l - n + i + 1] ELSE NoText
  BY <1>3
<1>6. \A i \in 0 .. 4 : i < n => l - n + i + 1 \in 1 .. l
  BY <1>1
<1>7. DrawLines(Blank, log) = { << 10 * (i + 1), log[i] >> : i \in Shown }
  BY DrawLinesIs
<1> HIDE DEF log
<1>8. \A i \in 0 .. 4 : i \in Shown <=> i < n
  BY <1>2, <1>5, <1>6
<1>9. ASSUME NEW i \in Shown PROVE << 10 * (i + 1), log[i] >> \in Drawn(lines)
  <2> DEFINE k == l - n + i + 1
  <2>1. i \in 0 .. 4 /\ i < n /\ log[i] = lines[k]
    BY <1>5, <1>8, <1>9
  <2>2. k \in l - n + 1 .. l /\ 10 * (k - (l - n)) = 10 * (i + 1)
    BY <1>1, <2>1
  <2> HIDE DEF k
  <2>3. << 10 * (k - (l - n)), lines[k] >> \in Drawn(lines)
    BY <1>4, <2>2
  <2> QED
    BY <2>1, <2>2, <2>3
<1>10. ASSUME NEW k \in l - n + 1 .. l
       PROVE  \E i \in Shown : << 10 * (k - (l - n)), lines[k] >> = << 10 * (i + 1), log[i] >>
  <2> DEFINE i == k - (l - n) - 1
  <2>1. i \in 0 .. 4 /\ i < n /\ l - n + i + 1 = k /\ 10 * (i + 1) = 10 * (k - (l - n))
    BY <1>1
  <2>2. i \in Shown /\ log[i] = lines[k]
    BY <1>5, <1>8, <2>1
  <2> QED
    BY <2>1, <2>2
<1> QED
  BY <1>4, <1>7, <1>9, <1>10 DEF log

\* With the overlay on top the panel still shows the lines, and the overlay's
\* text as well.
LEMMA OverlayOnTop ==
  ASSUME NEW lines \in Seq(Lines), rssi_overlay \in CounterTexts \cup {NoText},
         NEW drawing, drawing = drawOverlays(Drawn(lines))
  PROVE  /\ {item \in drawing : item[2] \notin CounterTexts} = Drawn(lines)
         /\ rssi_overlay # NoText => << 0, rssi_overlay >> \in drawing
<1>1. \A k \in Len(lines) - Newest(lines) + 1 .. Len(lines) :
         lines[k] \in Lines /\ lines[k] \notin CounterTexts
  <2>1. Len(lines) \in Nat /\ Len(lines) - Newest(lines) \in Nat
    <3> DEFINE l == Len(lines)
    <3>1. l \in Nat /\ Newest(lines) = IF l > 5 THEN 5 ELSE l
      BY DEF Newest
    <3> HIDE DEF l
    <3>2. l - Newest(lines) \in Nat
      BY <3>1
    <3> QED
      BY <3>1, <3>2 DEF l
  <2>2. \A k \in Len(lines) - Newest(lines) + 1 .. Len(lines) : k \in 1 .. Len(lines)
    BY <2>1
  <2> QED
    BY <2>2, LinesDiffer
<1>2. \A item \in Drawn(lines) : item[2] \notin CounterTexts
  BY <1>1 DEF Drawn
<1>3. OnScreen(0)
  BY DEF OnScreen
<1>4. CASE rssi_overlay = NoText
  <2>1. drawing = Drawn(lines)
    BY <1>4 DEF drawOverlays, drawString
  <2> QED
    BY <1>2, <1>4, <2>1
<1>5. CASE rssi_overlay # NoText
  <2>1. drawing = Drawn(lines) \cup { << 0, rssi_overlay >> } /\ rssi_overlay \in CounterTexts
    BY <1>3, <1>5 DEF drawOverlays, drawString
  <2> QED
    BY <1>2, <2>1
<1> QED
  BY <1>4, <1>5

-----------------------------------------------------------------------------
(* The inductive invariant.                                                *)

\* Where the firmware is, and when.
PlaceInv ==
  /\ build \in Builds /\ at \in 1 .. 18 /\ held \in Nat /\ millis \in Times
  /\ Compiled(build, Stages[at])
  /\ IF Looping THEN held <= Budget[Stages[at]] ELSE held = 0

\* The bus: who has begun it without MISO is alone on it.
BusInv ==
  /\ net \in BOOLEAN /\ wifi \in BOOLEAN /\ localIP \in BOOLEAN
  /\ CONNECT_ATTEMPTS \in -1 .. ConnectAttempts
  /\ start \in Times
  /\ spi \in {"off", "write", "full"} /\ readers \subseteq {"W5500", "SD"}
  /\ spi = "write" => build.network # "ethernet" /\ ~build.sd
  /\ BusReadable

\* The console holds the newest lines, and its first line comes after the
\* splash pictures.
ConsoleInv ==
  /\ added \in Seq(Lines)
  /\ logLinePtr = Newest(added)
  /\ consoleLog = Console(added)
  /\ added # << >> => at >= 5
  /\ PanelShowsLatestLines

\* The frame and the overlay: every tick draws, and the overlay belongs to loop().
FrameInv ==
  /\ dirty = TRUE
  /\ frameState \in {"FIXED", "IN_TRANSITION"}
  /\ ticksSinceLastStateSwitch \in 0 .. TicksPerFrame - 1
  /\ lastUpdate \in Times /\ second_interval \in Times
  /\ rssi_overlay \in CounterTexts \cup {NoText}
  /\ rssi_overlay # NoText => Looping /\ build.oled

\* The text in the overlay waits for the next frame.
Pending == rssi_overlay # NoText /\ << 0, rssi_overlay >> \notin panel

FrameAge == Elapsed(millis, lastUpdate)

\* The most that can have gone by since update() last looked at the clock.
Waited ==
  CASE At("counter")  -> held
    [] At("rest")     -> Budget["counter"] + held
    [] At("ethernet") -> Budget["counter"] + Budget["rest"] + held
    [] At("display")  -> Budget["counter"] + Budget["rest"] + Budget["ethernet"] + held
    [] OTHER          -> 0

\* The last frame is no older than one interval and one pass of loop(), and a
\* text that waits for the panel is younger than it.
ClockInv ==
  /\ At("counter") \/ rssi_overlay # NoText => FrameAge < UpdateInterval + Waited
  /\ Pending => Elapsed(millis, second_interval) <= FrameAge

IInv == PlaceInv /\ BusInv /\ ConsoleInv /\ FrameInv /\ ClockInv

-----------------------------------------------------------------------------
(* What the steps have in common.                                          *)

\* A stage by its place.
LEMMA AtStage ==
  ASSUME at \in 1 .. 18
  PROVE  /\ At("spi") => at = 1
         /\ At("panel") => at = 2
         /\ At("rick") => at = 3
         /\ At("logo") => at = 4
         /\ At("starting") => at = 5
         /\ At("wifi") => at = 6
         /\ At("w5500") => at = 7
         /\ At("link") => at = 8
         /\ At("address") => at = 9
         /\ At("sd") => at = 10
         /\ At("ready") => at = 11
         /\ At("sunspec") => at = 12
         /\ At("models") => at = 13
         /\ At("ip") => at = 14
         /\ At("rest") <=> at = 15
         /\ At("ethernet") <=> at = 16
         /\ At("display") <=> at = 17
         /\ At("counter") <=> at = 18
         /\ Looping <=> at >= 15
BY StageNames DEF At, Looping

\* millis() reads a time.
LEMMA PassesType ==
  ASSUME millis \in Times, NEW ticks \in Nat, Passes(ticks)
  PROVE  millis' \in Times
BY Bounds DEF Passes, Times

\* The stages of loop() have budgets.
LEMMA BudgetType ==
  ASSUME NEW i \in 15 .. 18
  PROVE  Budget[Stages[i]] \in Nat
BY StageNames, BudgetAssumption

\* The next stage is a stage of the build, entered with nothing spent.
LEMMA PlaceProceeds ==
  ASSUME PlaceInv, Proceed, build' = build, millis' \in Times
  PROVE  PlaceInv'
<1>1. at' \in 1 .. 18 /\ held' = 0 /\ Compiled(build, Stages[at'])
  BY ProceedPlace DEF PlaceInv
<1>2. at' >= 15 => Budget[Stages[at']] \in Nat
  BY <1>1, BudgetType
<1>3. Looping' => at' >= 15
  BY StageNames DEF Looping
<1>4. (IF Looping THEN held <= Budget[Stages[at]] ELSE held = 0)'
  BY <1>1, <1>2, <1>3
<1> QED
  BY <1>1, <1>4 DEF PlaceInv

\* A step that draws nothing keeps the console and the frame.
LEMMA PanelKept ==
  ASSUME ConsoleInv, FrameInv, at \in 1 .. 18, at' \in 1 .. 18,
         UNCHANGED << panelVars, build >>, at' >= at \/ at' >= 15
  PROVE  ConsoleInv' /\ FrameInv'
<1>1. Looping => Looping'
  BY StageNames DEF Looping
<1>2. ConsoleInv'
  BY DEF ConsoleInv, PanelShowsLatestLines, panelVars
<1>3. FrameInv'
  BY <1>1 DEF FrameInv, panelVars
<1> QED
  BY <1>2, <1>3

\* A step that leaves the interface alone keeps the bus, whatever the network does.
LEMMA BusKept ==
  ASSUME BusInv, UNCHANGED << uplinkVars, build >>, net' \in BOOLEAN
  PROVE  BusInv'
BY DEF BusInv, BusReadable, uplinkVars

\* Until loop() runs nothing waits for a frame.
LEMMA SetupClock ==
  ASSUME at' \in 1 .. 15, rssi_overlay' = NoText
  PROVE  ClockInv'
<1>1. ~At("counter")'
  BY StageNames DEF At
<1> QED
  BY <1>1 DEF ClockInv, Pending

\* A redrawn console shows the newest lines and the overlay.
LEMMA Redrawn ==
  ASSUME NEW lines \in Seq(Lines), added' = lines, logLinePtr' = Newest(lines),
         consoleLog' = Console(lines), lines # << >> => at' >= 5,
         FrameInv, render(DrawLines(Blank, consoleLog')),
         UNCHANGED rssi_overlay
  PROVE  ConsoleInv' /\ dirty' = TRUE /\ ~Pending'
<1>1. panel' = drawOverlays(Drawn(lines)) /\ dirty' = TRUE
  BY ConsoleDrawn DEF render, display, rssiOverlayResult
<1>2. /\ {item \in panel' : item[2] \notin CounterTexts} = Drawn(lines)
      /\ rssi_overlay # NoText => << 0, rssi_overlay >> \in panel'
  BY <1>1, OverlayOnTop DEF FrameInv
<1>3. PanelShowsLatestLines'
  <2> DEFINE l == Len(lines)
             first == IF l > 5 THEN l - 5 ELSE 0
  <2>1. first = l - Newest(lines)
    <3>1. l \in Nat /\ Newest(lines) = IF l > 5 THEN 5 ELSE l
      BY DEF Newest
    <3> HIDE DEF l
    <3> QED
      BY <3>1
  <2>2. { << 10 * (i - first), lines[i] >> : i \in first + 1 .. l } = Drawn(lines)
    BY <2>1 DEF Drawn
  <2> QED
    BY <1>2, <2>2 DEF PanelShowsLatestLines
<1> QED
  BY <1>1, <1>2, <1>3 DEF ConsoleInv, Pending

-----------------------------------------------------------------------------
(* setup(): one lemma per action.                                          *)

\* A step of setup() that is over: its place, and that nothing waits for a frame.
LEMMA SetupProceeds ==
  ASSUME IInv, at \in 1 .. 14, Proceed, build' = build, millis' \in Times,
         UNCHANGED rssi_overlay
  PROVE  PlaceInv' /\ ClockInv' /\ at' \in 1 .. 18 /\ at' > at
<1>1. at' \in 1 .. 15 /\ at' > at
  BY ProceedPlace DEF IInv, PlaceInv
<1>2. PlaceInv'
  BY PlaceProceeds DEF IInv
<1>3. rssi_overlay' = NoText
  BY AtStage DEF IInv, FrameInv
<1> QED
  BY <1>1, <1>2, <1>3, SetupClock

\* A step of setup() that stays where it is, for a retry.
LEMMA SetupStays ==
  ASSUME IInv, at \in 1 .. 14, UNCHANGED << at, held, build, panelVars >>, millis' \in Times
  PROVE  PlaceInv' /\ ConsoleInv' /\ FrameInv' /\ ClockInv'
<1>1. at' \in 1 .. 15 /\ at' >= at /\ at' \in 1 .. 18
  OBVIOUS
<1>2. PlaceInv'
  BY DEF IInv, PlaceInv, Looping
<1>3. rssi_overlay' = NoText
  BY AtStage DEF IInv, FrameInv, panelVars
<1> QED
  BY <1>1, <1>2, <1>3, SetupClock, PanelKept DEF IInv

\* The bus is begun without MISO only in a build that never reads over it.
LEMMA StartBusIInv ==
  ASSUME IInv, StartBus
  PROVE  IInv'
<1>1. at = 1 /\ at \in 1 .. 14
  BY AtStage DEF IInv, PlaceInv, StartBus
<1>2. PlaceInv' /\ ClockInv' /\ at' \in 1 .. 18 /\ at' > at
  BY <1>1, SetupProceeds DEF StartBus, panelVars, IInv, PlaceInv
<1>3. ConsoleInv' /\ FrameInv'
  BY <1>1, <1>2, PanelKept DEF IInv, StartBus
<1>4. BusInv'
  <2>1. spi' = IF spi = "off" THEN FirstBegin ELSE spi
    BY DEF StartBus, SPI_begin
  <2> QED
    BY <2>1 DEF StartBus, IInv, BusInv, BusReadable, FirstBegin
<1> QED
  BY <1>2, <1>3, <1>4 DEF IInv

\* Bringing the panel up and the splash pictures come before the first line.
LEMMA DrawsBeforeLines ==
  ASSUME IInv, NEW delay \in Nat, NEW stage \in {"panel", "rick", "logo"}, Draws(stage, delay),
         dirty' = TRUE, UNCHANGED << consoleLog, logLinePtr, added, clockVars >>
  PROVE  IInv'
<1>1. at \in 2 .. 4 /\ at \in 1 .. 14
  BY AtStage DEF IInv, PlaceInv, Draws
<1>2. millis' \in Times
  BY PassesType DEF IInv, PlaceInv, Draws
<1>3. PlaceInv' /\ ClockInv' /\ at' \in 1 .. 18 /\ at' > at
  BY <1>1, <1>2, SetupProceeds DEF Draws, clockVars
<1>4. added = << >>
  BY <1>1 DEF IInv, ConsoleInv
<1>5. ConsoleInv'
  BY <1>4 DEF IInv, ConsoleInv, PanelShowsLatestLines
<1>6. FrameInv'
  <2>1. ~Looping
    BY <1>1, AtStage
  <2> QED
    BY <2>1 DEF IInv, FrameInv, clockVars
<1>7. BusInv'
  BY BusKept DEF IInv, Draws, BusInv
<1> QED
  BY <1>3, <1>5, <1>6, <1>7 DEF IInv

LEMMA StartPanelIInv ==
  ASSUME IInv, StartPanel
  PROVE  IInv'
BY DrawsBeforeLines DEF StartPanel, setup_display

LEMMA SplashIInv ==
  ASSUME IInv, Splash
  PROVE  IInv'
BY DrawsBeforeLines DEF Splash, drawBitmap, render, rssiOverlayResult

\* A line that setup() hands to the console.
LEMMA DrawsLine ==
  ASSUME IInv, NEW stage \in {"starting", "ready", "sunspec", "models", "ip"},
         NEW line \in Lines, Draws(stage, 0), addLine(line)
  PROVE  IInv'
<1>1. at \in 5 .. 14 /\ at \in 1 .. 14
  BY AtStage DEF IInv, PlaceInv, Draws
<1>2. millis' \in Times
  BY PassesType DEF IInv, PlaceInv, Draws
<1>3. PlaceInv' /\ ClockInv' /\ at' \in 1 .. 18 /\ at' > at
  BY <1>1, <1>2, SetupProceeds DEF Draws, addLine, clockVars
<1>4. /\ Append(added, line) \in Seq(Lines)
      /\ logLinePtr' = Newest(Append(added, line))
      /\ consoleLog' = Console(Append(added, line))
  BY PositionShifts DEF IInv, ConsoleInv, addLine
<1>5. ConsoleInv' /\ dirty' = TRUE
  <2>1. at' >= 5
    BY <1>1, <1>3
  <2>2. /\ render(DrawLines(Blank, consoleLog')) /\ UNCHANGED rssi_overlay
        /\ added' = Append(added, line)
    BY DEF addLine, redrawConsole, clockVars
  <2> QED
    BY <1>4, <2>1, <2>2, Redrawn DEF IInv
<1>6. FrameInv'
  <2>1. ~Looping
    BY <1>1, AtStage
  <2> QED
    BY <1>5, <2>1 DEF IInv, FrameInv, addLine, clockVars
<1>7. BusInv'
  BY BusKept DEF IInv, Draws, BusInv
<1> QED
  BY <1>3, <1>5, <1>6, <1>7 DEF IInv

LEMMA SetupLinesIInv ==
  ASSUME IInv, SetupLines
  PROVE  IInv'
<1>1. \A piece \in Pieces : << piece >> \in Lines
  BY OnePiece
<1>2. { "Starting Gateway", "EMS Gateway Ready!", "Sol-Ark -> SunSpec",
        "Model 1, 701, 713 Active", "IP", "Not Connected", "No IP" } \subseteq Pieces
  BY DEF Pieces
<1>3. (IF build.network = "wifi" THEN get_wifi_ip ELSE get_eth_ip) \in Lines
  BY <1>1, <1>2 DEF get_wifi_ip, get_eth_ip
<1> QED
  BY <1>1, <1>2, <1>3, DrawsLine DEF SetupLines

\* The Wi-Fi retries.
LEMMA setup_wifiIInv ==
  ASSUME IInv, setup_wifi
  PROVE  IInv'
<1>1. at = 6 /\ at \in 1 .. 14
  BY AtStage DEF IInv, PlaceInv, setup_wifi
<1>2. CASE (WifiConnects \/ WifiGivesUp) /\ Proceed /\ UNCHANGED millis
  <2>1. PlaceInv' /\ ClockInv' /\ at' \in 1 .. 18 /\ at' > at
    BY <1>1, <1>2, SetupProceeds DEF setup_wifi, panelVars, IInv, PlaceInv
  <2>2. ConsoleInv' /\ FrameInv'
    BY <1>1, <2>1, PanelKept DEF IInv, setup_wifi
  <2>3. BusInv'
    <3>1. UNCHANGED << net, build, start, localIP, spi, readers >>
      BY <1>2 DEF setup_wifi, WifiConnects, WifiGivesUp
    <3>2. wifi' \in BOOLEAN
      BY <1>2 DEF IInv, BusInv, WifiConnects, WifiGivesUp
    <3>3. CONNECT_ATTEMPTS' \in -1 .. ConnectAttempts
      BY <1>2, UplinkAssumption DEF IInv, BusInv, WifiConnects, WifiGivesUp
    <3> QED
      BY <3>1, <3>2, <3>3 DEF IInv, BusInv, BusReadable
  <2> QED
    BY <2>1, <2>2, <2>3 DEF IInv
<1>3. CASE WifiRetries /\ Passes(1) /\ UNCHANGED << at, held >>
  <2>1. millis' \in Times
    BY <1>3, PassesType DEF IInv, PlaceInv
  <2>2. PlaceInv' /\ ConsoleInv' /\ FrameInv' /\ ClockInv'
    BY <1>1, <1>3, <2>1, SetupStays DEF setup_wifi
  <2>3. BusInv'
    BY <1>3, UplinkAssumption DEF IInv, BusInv, BusReadable, setup_wifi, WifiRetries
  <2> QED
    BY <2>2, <2>3 DEF IInv
<1> QED
  BY <1>2, <1>3 DEF setup_wifi

\* The W5500 is read over a bus that has MISO: the build has Ethernet, so its
\* first begin() was a full one.
LEMMA setup_ethernetIInv ==
  ASSUME IInv, setup_ethernet
  PROVE  IInv'
<1>1. at \in 7 .. 9 /\ at \in 1 .. 14
  BY AtStage DEF IInv, PlaceInv, setup_ethernet
<1>2. /\ UNCHANGED << panelVars, net, build >>
      /\ UNCHANGED rssi_overlay
  BY DEF setup_ethernet, panelVars
<1>3. ASSUME Proceed, UNCHANGED millis, BusInv'
      PROVE  IInv'
  <2>1. PlaceInv' /\ ClockInv' /\ at' \in 1 .. 18 /\ at' > at
    BY <1>1, <1>2, <1>3, SetupProceeds DEF IInv, PlaceInv
  <2>2. ConsoleInv' /\ FrameInv'
    BY <1>1, <1>2, <2>1, PanelKept DEF IInv
  <2> QED
    BY <1>3, <2>1, <2>2 DEF IInv
<1>4. CASE At("w5500") /\ ResetW5500(millis) /\ Proceed /\ UNCHANGED millis
  <2>1. build.network = "ethernet"
    BY <1>4 DEF IInv, PlaceInv, At, Compiled
  <2>2. spi' = IF spi = "off" THEN "full" ELSE spi
    BY <1>4 DEF ResetW5500, SPI_begin
  <2>3. BusInv'
    BY <1>2, <1>4, <2>1, <2>2 DEF IInv, PlaceInv, BusInv, BusReadable, ResetW5500
  <2> QED
    BY <1>3, <1>4, <2>3
<1>5. CASE /\ At("link") /\ (LinkFound(Elapsed(millis, start)) \/ LinkTimesOut(Elapsed(millis, start)))
           /\ Proceed /\ UNCHANGED millis
  <2>1. 0 \in Times
    BY Bounds DEF Times
  <2>2. BusInv'
    BY <1>2, <1>5, <2>1 DEF IInv, BusInv, BusReadable, LinkFound, LinkTimesOut
  <2> QED
    BY <1>3, <1>5, <2>2
<1>6. CASE /\ At("link") /\ LinkMissing(Elapsed(millis, start)) /\ Passes(1)
           /\ UNCHANGED << at, held >>
  <2>1. millis' \in Times
    BY <1>6, PassesType DEF IInv, PlaceInv
  <2>2. PlaceInv' /\ ConsoleInv' /\ FrameInv' /\ ClockInv'
    BY <1>1, <1>2, <1>6, <2>1, SetupStays
  <2>3. BusInv'
    BY <1>2, <1>6, BusKept DEF IInv, BusInv, LinkMissing
  <2> QED
    BY <2>2, <2>3 DEF IInv
<1>7. CASE At("address") /\ GetsAddress(build.static) /\ Proceed /\ UNCHANGED millis
  <2>1. BusInv'
    BY <1>2, <1>7 DEF IInv, BusInv, BusReadable, GetsAddress
  <2> QED
    BY <1>3, <1>7, <2>1
<1> QED
  BY <1>4, <1>5, <1>6, <1>7 DEF setup_ethernet

\* The SD card is read over a bus that has MISO: a build with a card begins the
\* bus fully, or leaves the first begin() to setup_sd_card itself.
LEMMA StartCardIInv ==
  ASSUME IInv, StartCard
  PROVE  IInv'
<1>1. at = 10 /\ at \in 1 .. 14
  BY AtStage DEF IInv, PlaceInv, StartCard
<1>2. PlaceInv' /\ ClockInv' /\ at' \in 1 .. 18 /\ at' > at
  BY <1>1, SetupProceeds DEF StartCard, panelVars, IInv, PlaceInv
<1>3. ConsoleInv' /\ FrameInv'
  BY <1>1, <1>2, PanelKept DEF IInv, StartCard
<1>4. BusInv'
  <2>1. build.sd
    BY DEF StartCard, IInv, PlaceInv, At, Compiled
  <2>2. spi' = IF spi = "off" THEN "full" ELSE spi
    BY DEF StartCard, setup_sd_card, SPI_begin
  <2> QED
    BY <2>1, <2>2 DEF StartCard, setup_sd_card, IInv, BusInv, BusReadable
<1> QED
  BY <1>2, <1>3, <1>4 DEF IInv

-----------------------------------------------------------------------------
(* loop(): one lemma per action.                                           *)

\* What is below a sum is below it when the second summand grows.
LEMMA LessWithMore ==
  ASSUME NEW a \in Nat, NEW b \in Nat, NEW c \in Nat, NEW d \in Nat, a < b + c, c <= d
  PROVE  a < b + d
OBVIOUS

\* The stages of loop() other than loop_display: an overlay's frame is older by
\* no more than what they took.
LEMMA ClockProceeds ==
  ASSUME IInv, at \in {15, 16}, Proceed, UNCHANGED << panelVars, build, millis >>
  PROVE  ClockInv'
<1>1. /\ at' \in 15 .. 18 /\ held' = 0 /\ at' # 18
      /\ at = 15 /\ build.oled => at' \in {16, 17}
      /\ at = 16 /\ build.oled => at' = 17
  BY ProceedPlace DEF IInv, PlaceInv
<1>2. UNCHANGED << rssi_overlay, panel, lastUpdate, second_interval >>
  BY DEF panelVars
<1>3. FrameAge' = FrameAge /\ Pending' = Pending
      /\ Elapsed(millis, second_interval)' = Elapsed(millis, second_interval)
  BY <1>2 DEF FrameAge, Pending, Elapsed
<1>4. ~At("counter")'
  BY <1>1, StageNames DEF At
<1>5. ASSUME rssi_overlay # NoText PROVE FrameAge < UpdateInterval + Waited'
  <2>1. build.oled /\ FrameAge < UpdateInterval + Waited
    BY <1>5 DEF IInv, FrameInv, ClockInv
  <2>2. held <= Budget[Stages[at]] /\ held \in Nat
    BY AtStage DEF IInv, PlaceInv
  <2>3. FrameAge \in Nat /\ UpdateInterval \in Nat
    BY ElapsedType, Bounds DEF IInv, PlaceInv, FrameInv, FrameAge, Times
  <2>4. /\ Budget["rest"] \in Nat /\ Budget["ethernet"] \in Nat /\ Budget["counter"] \in Nat
    BY BudgetAssumption
  <2>5. CASE at = 15
    <3>1. Waited = Budget["counter"] + held /\ held <= Budget["rest"]
      BY <2>2, <2>5, StageNames DEF Waited, At
    <3>2. Waited' \in {Budget["counter"] + Budget["rest"] + 0,
                       Budget["counter"] + Budget["rest"] + Budget["ethernet"] + 0}
      BY <1>1, <2>1, <2>5, StageNames DEF Waited, At
    <3>3. Waited' \in Nat /\ Budget["counter"] + Budget["rest"] <= Waited'
      BY <2>4, <3>2
    <3>4. Waited \in Nat /\ Waited <= Budget["counter"] + Budget["rest"]
      BY <2>2, <2>4, <3>1
    <3>5. Waited <= Waited'
      BY <2>4, <3>3, <3>4
    <3> QED
      BY <2>1, <2>3, <3>3, <3>4, <3>5, LessWithMore
  <2>6. CASE at = 16
    <3>1. Waited = Budget["counter"] + Budget["rest"] + held /\ held <= Budget["ethernet"]
      BY <2>2, <2>6, StageNames DEF Waited, At
    <3>2. Waited' = Budget["counter"] + Budget["rest"] + Budget["ethernet"] + 0
      BY <1>1, <2>1, <2>6, StageNames DEF Waited, At
    <3> QED
      BY <2>1, <2>2, <2>3, <2>4, <3>1, <3>2
  <2> QED
    BY <2>5, <2>6
<1> QED
  BY <1>2, <1>3, <1>4, <1>5 DEF IInv, ClockInv

LEMMA RestIInv ==
  ASSUME IInv, Rest
  PROVE  IInv'
<1>1. at = 15 /\ at \in 1 .. 18
  BY AtStage DEF IInv, PlaceInv, Rest
<1>2. PlaceInv' /\ at' \in 1 .. 18 /\ at' >= 15
  BY <1>1, PlaceProceeds, ProceedPlace DEF IInv, PlaceInv, Rest
<1>3. ClockInv'
  BY <1>1, ClockProceeds DEF Rest
<1>4. ConsoleInv' /\ FrameInv'
  BY <1>1, <1>2, PanelKept DEF IInv, Rest
<1>5. BusInv'
  BY BusKept DEF IInv, BusInv, Rest
<1> QED
  BY <1>2, <1>3, <1>4, <1>5 DEF IInv

LEMMA LoopEthernetIInv ==
  ASSUME IInv, LoopEthernet
  PROVE  IInv'
<1>1. at = 16 /\ at \in 1 .. 18
  BY AtStage DEF IInv, PlaceInv, LoopEthernet
<1>2. PlaceInv' /\ at' \in 1 .. 18 /\ at' >= 15
  BY <1>1, PlaceProceeds, ProceedPlace DEF IInv, PlaceInv, LoopEthernet
<1>3. ClockInv'
  BY <1>1, ClockProceeds DEF LoopEthernet
<1>4. ConsoleInv' /\ FrameInv'
  BY <1>1, <1>2, PanelKept DEF IInv, LoopEthernet
<1>5. BusInv'
  BY DEF IInv, BusInv, BusReadable, LoopEthernet, loop_ethernet
<1> QED
  BY <1>2, <1>3, <1>4, <1>5 DEF IInv

\* A quotient of naturals is a natural.
LEMMA QuotientType ==
  ASSUME NEW a \in Nat, NEW b \in Nat \ {0}
  PROVE  a \div b \in Nat
OBVIOUS

\* A frame tick, whatever the clock has reached, draws the console and the
\* overlay, and the clock starts over when it is due.
LEMMA TickDraws ==
  ASSUME FrameInv, NEW t \in Nat \ {0}, tick(t)
  PROVE  /\ render(DrawLines(Blank, consoleLog))
         /\ frameState' \in {"FIXED", "IN_TRANSITION"}
         /\ ticksSinceLastStateSwitch' \in 0 .. TicksPerFrame - 1
<1>1. TicksPerFrame \in Nat \ {0}
  BY Bounds
<1>2. CASE frameState = "FIXED"
  BY <1>1, <1>2 DEF FrameInv, tick, drawFrame, drawConsoleFrame
<1>3. CASE frameState = "IN_TRANSITION"
  BY <1>1, <1>3 DEF FrameInv, tick, drawFrame, drawConsoleFrame, ticksPerTransition
<1> QED
  BY <1>2, <1>3 DEF FrameInv

\* update(): a frame that is drawn shows the overlay's text, and a frame that is
\* not due is younger than the interval.
LEMMA UpdateIInv ==
  ASSUME IInv, At("display"), loop_display_update(millis), Proceed,
         UNCHANGED << uplinkVars, net, build, millis >>
  PROVE  IInv'
<1>1. at = 17 /\ at \in 1 .. 18
  BY AtStage DEF IInv, PlaceInv
<1>2. build.oled
  BY DEF IInv, PlaceInv, At, Compiled
<1>3. PlaceInv' /\ at' = 18 /\ held' = 0
  BY <1>1, <1>2, PlaceProceeds, ProceedPlace DEF IInv, PlaceInv
<1>4. BusInv'
  BY BusKept DEF IInv, BusInv
<1>5. Waited' = 0 /\ Looping'
  BY <1>3, StageNames DEF Waited, At, Looping
<1>6. millis \in Times /\ lastUpdate \in Times /\ second_interval \in Times
      /\ Elapsed(millis, lastUpdate) \in Nat /\ UpdateInterval \in Nat \ {0}
  <2>1. millis \in Times /\ lastUpdate \in Times /\ second_interval \in Times
    BY DEF IInv, PlaceInv, FrameInv
  <2>2. Elapsed(millis, lastUpdate) \in Times
    BY <2>1, ElapsedType
  <2> QED
    BY <2>1, <2>2, Bounds DEF Times
<1>7. UNCHANGED << consoleLog, logLinePtr, added, rssi_overlay, second_interval >>
      /\ update(millis)
  BY DEF loop_display_update
<1> DEFINE timeBudget == UpdateInterval - Elapsed(millis, lastUpdate)
           skipped == IF lastUpdate # 0 THEN (- timeBudget) \div UpdateInterval ELSE 0
<1>8. CASE timeBudget <= 0
  <2>1. lastUpdate' = millis /\ tick(ticksSinceLastStateSwitch + skipped + 1)
    BY <1>7, <1>8 DEF update
  <2>2. ticksSinceLastStateSwitch + skipped + 1 \in Nat \ {0}
    <3>1. - timeBudget \in Nat
      BY <1>6, <1>8
    <3>2. (- timeBudget) \div UpdateInterval \in Nat
      BY <1>6, <3>1, QuotientType
    <3>3. skipped \in Nat
      BY <3>2
    <3>4. ticksSinceLastStateSwitch \in Nat
      BY Bounds DEF IInv, FrameInv
    <3> HIDE DEF skipped
    <3> QED
      BY <3>3, <3>4
  <2>3. /\ render(DrawLines(Blank, consoleLog))
        /\ frameState' \in {"FIXED", "IN_TRANSITION"}
        /\ ticksSinceLastStateSwitch' \in 0 .. TicksPerFrame - 1
    BY <2>1, <2>2, TickDraws DEF IInv
  <2>4. ConsoleInv' /\ dirty' = TRUE /\ ~Pending'
    <3>1. added \in Seq(Lines) /\ logLinePtr = Newest(added) /\ consoleLog = Console(added)
      BY DEF IInv, ConsoleInv
    <3>2. at' >= 5
      BY <1>3
    <3>3. render(DrawLines(Blank, consoleLog'))
      BY <1>7, <2>3
    <3> QED
      BY <1>7, <3>1, <3>2, <3>3, Redrawn DEF IInv
  <2>5. FrameInv'
    BY <1>2, <1>5, <1>6, <1>7, <2>1, <2>3, <2>4 DEF IInv, FrameInv
  <2>6. FrameAge' = 0
    BY <1>6, <2>1, ElapsedType DEF FrameAge
  <2>7. ClockInv'
    BY <1>5, <1>6, <2>4, <2>6 DEF ClockInv
  <2> QED
    BY <1>3, <1>4, <2>4, <2>5, <2>7 DEF IInv
<1>9. CASE ~(timeBudget <= 0)
  <2>1. UNCHANGED << lastUpdate, buffer, panel, dirty, frameState, ticksSinceLastStateSwitch >>
    BY <1>7, <1>9 DEF update
  <2>2. UNCHANGED panelVars
    BY <1>7, <2>1 DEF panelVars
  <2>3. ConsoleInv' /\ FrameInv'
    BY <1>1, <1>3, <2>2, PanelKept DEF IInv
  <2>4. FrameAge' = FrameAge /\ FrameAge < UpdateInterval /\ FrameAge \in Nat
    BY <1>6, <1>9, <2>1 DEF FrameAge, Elapsed
  <2>5. Pending' = Pending
        /\ Elapsed(millis, second_interval)' = Elapsed(millis, second_interval)
    BY <1>7, <2>1 DEF Pending, Elapsed
  <2>6. FrameAge' < UpdateInterval + Waited'
    BY <1>5, <1>6, <2>4
  <2>7. ClockInv'
    BY <2>4, <2>5, <2>6 DEF IInv, ClockInv
  <2> QED
    BY <1>3, <1>4, <2>3, <2>7 DEF IInv
<1> QED
  BY <1>8, <1>9

\* The counter: a new text is as young as can be.
LEMMA CounterIInv ==
  ASSUME IInv, At("counter"), loop_display_counter(millis), Proceed,
         UNCHANGED << uplinkVars, net, build, millis >>
  PROVE  IInv'
<1>1. at = 18 /\ at \in 1 .. 18 /\ Looping
  BY AtStage DEF IInv, PlaceInv
<1>2. build.oled
  BY DEF IInv, PlaceInv, At, Compiled
<1>3. PlaceInv' /\ at' = 15 /\ held' = 0
  BY <1>1, PlaceProceeds, ProceedPlace DEF IInv, PlaceInv
<1>4. BusInv'
  BY BusKept DEF IInv, BusInv
<1>5. Waited' = Budget["counter"] + 0 /\ Waited = held /\ ~At("counter")' /\ Looping'
      /\ held <= Budget["counter"]
  BY <1>1, <1>3, StageNames DEF Waited, At, Looping, IInv, PlaceInv
<1>6. /\ millis \in Times /\ lastUpdate \in Times /\ second_interval \in Times
      /\ FrameAge \in Nat /\ UpdateInterval \in Nat \ {0}
  <2>1. millis \in Times /\ lastUpdate \in Times /\ second_interval \in Times
    BY DEF IInv, PlaceInv, FrameInv
  <2>2. FrameAge \in Times
    BY <2>1, ElapsedType DEF FrameAge
  <2> QED
    BY <2>1, <2>2, Bounds DEF Times
<1>7. UNCHANGED << consoleLog, logLinePtr, added, buffer, panel, dirty, frameState,
                   ticksSinceLastStateSwitch, lastUpdate >>
      /\ show_seconds_counter(millis)
  BY DEF loop_display_counter
<1>8. FrameAge' = FrameAge /\ FrameAge < UpdateInterval + held
  BY <1>1, <1>5, <1>7 DEF FrameAge, Elapsed, IInv, ClockInv
<1>9. FrameAge' < UpdateInterval + Waited'
  <2>1. Budget["counter"] \in Nat /\ held \in Nat
    BY BudgetAssumption DEF IInv, PlaceInv
  <2> QED
    BY <1>5, <1>6, <1>8, <2>1
<1>10. ConsoleInv'
  BY <1>3, <1>7 DEF IInv, ConsoleInv, PanelShowsLatestLines
<1>11. CounterText \in CounterTexts
  BY DEF CounterText, CounterTexts
<1>12. CASE CounterDue(millis)
  <2>1. rssi_overlay' = CounterText /\ second_interval' = millis
    BY <1>7, <1>12 DEF show_seconds_counter
  <2>2. FrameInv'
    BY <1>2, <1>5, <1>6, <1>7, <1>11, <2>1 DEF IInv, FrameInv
  <2>3. Elapsed(millis, second_interval)' = 0
    BY <1>6, <2>1, ElapsedType
  <2>4. ClockInv'
    BY <1>6, <1>8, <1>9, <2>3 DEF ClockInv
  <2> QED
    BY <1>3, <1>4, <1>10, <2>2, <2>4 DEF IInv
<1>13. CASE ~CounterDue(millis)
  <2>1. UNCHANGED << rssi_overlay, second_interval >>
    BY <1>7, <1>13 DEF show_seconds_counter
  <2>2. FrameInv'
    BY <1>2, <1>5, <1>7, <2>1 DEF IInv, FrameInv
  <2>3. Pending' = Pending
        /\ Elapsed(millis, second_interval)' = Elapsed(millis, second_interval)
    BY <1>7, <2>1 DEF Pending, Elapsed
  <2>4. ClockInv'
    BY <1>8, <1>9, <2>3 DEF IInv, ClockInv
  <2> QED
    BY <1>3, <1>4, <1>10, <2>2, <2>4 DEF IInv
<1> QED
  BY <1>12, <1>13

LEMMA LoopDisplayIInv ==
  ASSUME IInv, LoopDisplay
  PROVE  IInv'
BY UpdateIInv, CounterIInv DEF LoopDisplay

-----------------------------------------------------------------------------
(* The environment: one lemma per action.                                  *)

\* A tick makes both ages one more: within a pass of loop() neither goes round
\* before the frame is drawn.
LEMMA TickIInv ==
  ASSUME IInv, Tick
  PROVE  IInv'
<1>1. /\ at \in 15 .. 18 /\ at \in 1 .. 18 /\ at' = at /\ held' = held + 1 /\ held \in Nat
      /\ held < Budget[Stages[at]] /\ Looping /\ Looping'
  BY AtStage DEF IInv, PlaceInv, Tick, Looping
<1>2. millis \in Times /\ lastUpdate \in Times /\ second_interval \in Times
  BY DEF IInv, PlaceInv, FrameInv
<1>3. millis' = (millis + 1) % MillisMod /\ millis' \in Times
  BY <1>2, ElapsedTick DEF Tick, Passes
<1>4. UNCHANGED panelVars
      /\ UNCHANGED << rssi_overlay, panel, lastUpdate, second_interval, build >>
  BY DEF Tick, panelVars
<1>5. PlaceInv'
  <2>1. Budget[Stages[at]] \in Nat
    BY <1>1, BudgetType
  <2> QED
    BY <1>1, <1>3, <2>1 DEF IInv, PlaceInv, Tick
<1>6. ConsoleInv' /\ FrameInv'
  BY <1>1, <1>4, PanelKept DEF IInv
<1>7. BusInv'
  BY BusKept DEF IInv, BusInv, Tick
<1>8. /\ FrameAge' = IF FrameAge = MillisMod - 1 THEN 0 ELSE FrameAge + 1
      /\ Elapsed(millis, second_interval)' =
           IF Elapsed(millis, second_interval) = MillisMod - 1
           THEN 0 ELSE Elapsed(millis, second_interval) + 1
  BY <1>2, <1>3, <1>4, ElapsedTick DEF FrameAge
<1>9. FrameAge \in Times /\ Elapsed(millis, second_interval) \in Times
  BY <1>2, ElapsedType DEF FrameAge
<1>10. /\ Waited \in Nat /\ Waited' = Waited + 1
       /\ UpdateInterval + Waited < MillisMod
  <2>1. /\ Budget["rest"] \in Nat /\ Budget["ethernet"] \in Nat /\ Budget["display"] \in Nat
        /\ Budget["counter"] \in Nat /\ UpdateInterval \in Nat /\ MillisMod \in Nat
        /\ UpdateInterval + Budget["rest"] + Budget["ethernet"] + Budget["display"]
             + Budget["counter"] <= MillisMod
    BY BudgetAssumption, Bounds
  <2>2. CASE at = 15
    <3>1. /\ Waited = Budget["counter"] + held /\ Waited' = Budget["counter"] + (held + 1)
          /\ held < Budget["rest"]
      BY <1>1, <2>2, StageNames DEF Waited, At
    <3> QED
      BY <1>1, <2>1, <3>1
  <2>3. CASE at = 16
    <3>1. /\ Waited = Budget["counter"] + Budget["rest"] + held
          /\ Waited' = Budget["counter"] + Budget["rest"] + (held + 1)
          /\ held < Budget["ethernet"]
      BY <1>1, <2>3, StageNames DEF Waited, At
    <3>2. Waited \in Nat /\ Waited' = Waited + 1
      BY <1>1, <2>1, <3>1
    <3>3. Waited < Budget["counter"] + Budget["rest"] + Budget["ethernet"]
      BY <1>1, <2>1, <3>1
    <3>4. UpdateInterval + Waited < MillisMod
      BY <2>1, <3>2, <3>3
    <3> QED
      BY <3>2, <3>4
  <2>4. CASE at = 17
    <3>1. /\ Waited = Budget["counter"] + Budget["rest"] + Budget["ethernet"] + held
          /\ Waited' = Budget["counter"] + Budget["rest"] + Budget["ethernet"] + (held + 1)
          /\ held < Budget["display"]
      BY <1>1, <2>4, StageNames DEF Waited, At
    <3> QED
      BY <1>1, <2>1, <3>1
  <2>5. CASE at = 18
    <3>1. Waited = held /\ Waited' = held + 1 /\ held < Budget["counter"]
      BY <1>1, <2>5, StageNames DEF Waited, At
    <3> QED
      BY <1>1, <2>1, <3>1
  <2> QED
    BY <1>1, <2>2, <2>3, <2>4, <2>5
<1>11. ClockInv'
  <2>1. At("counter")' = At("counter") /\ Pending' = Pending
    BY <1>1, <1>4 DEF At, Pending
  <2>2. UpdateInterval \in Nat /\ MillisMod \in Nat
    BY Bounds
  <2>3. ASSUME At("counter") \/ rssi_overlay # NoText
        PROVE  FrameAge' < UpdateInterval + Waited' /\ FrameAge' = FrameAge + 1
    <3>1. FrameAge < UpdateInterval + Waited
      BY <2>3 DEF IInv, ClockInv
    <3> QED
      BY <1>8, <1>9, <1>10, <2>2, <3>1 DEF Times
  <2>4. ASSUME Pending
        PROVE  Elapsed(millis, second_interval)' <= FrameAge'
    <3>1. Elapsed(millis, second_interval) <= FrameAge
      BY <2>4 DEF IInv, ClockInv
    <3>2. FrameAge' = FrameAge + 1
      BY <2>3, <2>4 DEF Pending
    <3> QED
      BY <1>8, <1>9, <3>1, <3>2 DEF Times
  <2> QED
    BY <1>4, <2>1, <2>3, <2>4 DEF ClockInv
<1> QED
  BY <1>5, <1>6, <1>7, <1>11 DEF IInv

LEMMA NetworkChangesIInv ==
  ASSUME IInv, NetworkChanges
  PROVE  IInv'
<1>1. at \in 1 .. 18 /\ at' = at /\ at' >= at
  BY DEF IInv, PlaceInv, NetworkChanges
<1>2. UNCHANGED panelVars
      /\ UNCHANGED << rssi_overlay, panel, lastUpdate, second_interval >>
  BY DEF NetworkChanges, panelVars
<1>3. PlaceInv'
  BY DEF IInv, PlaceInv, NetworkChanges, Looping
<1>4. ConsoleInv' /\ FrameInv'
  BY <1>1, <1>2, PanelKept DEF IInv, NetworkChanges
<1>5. net' \in BOOLEAN
  BY DEF NetworkChanges, NetChanges
<1>6. BusInv'
  BY <1>5, BusKept DEF IInv, NetworkChanges
<1>7. ClockInv'
  <2>1. UNCHANGED << At("counter"), Waited, FrameAge, Pending, Elapsed(millis, second_interval) >>
    BY <1>2 DEF NetworkChanges, At, Waited, FrameAge, Pending, Elapsed
  <2> QED
    BY <1>2, <2>1 DEF IInv, ClockInv
<1> QED
  BY <1>3, <1>4, <1>6, <1>7 DEF IInv

\* A call of the console's interface draws the overlay as well.
LEMMA ConsoleCallIInv ==
  ASSUME IInv, ConsoleCall
  PROVE  IInv'
<1>1. at = 15 /\ at \in 1 .. 18 /\ at' = at /\ Looping
  BY AtStage DEF IInv, PlaceInv, ConsoleCall
<1>2. UNCHANGED << uplinkVars, net, build, at, held, millis >>
  BY DEF ConsoleCall
<1>3. PlaceInv'
  BY <1>2 DEF IInv, PlaceInv, Looping
<1>4. BusInv'
  BY <1>2, BusKept DEF IInv, BusInv
<1>5. ASSUME NEW lines \in Seq(Lines), added' = lines, logLinePtr' = Newest(lines),
             consoleLog' = Console(lines), redrawConsole(consoleLog'), UNCHANGED clockVars
      PROVE  IInv'
  <2>1. ConsoleInv' /\ dirty' = TRUE /\ ~Pending'
    <3>1. at' >= 5
      BY <1>1
    <3>2. UNCHANGED rssi_overlay /\ render(DrawLines(Blank, consoleLog'))
      BY <1>5 DEF clockVars, redrawConsole
    <3> QED
      BY <1>5, <3>1, <3>2, Redrawn DEF IInv
  <2>2. FrameInv'
    BY <1>2, <1>5, <2>1 DEF IInv, FrameInv, clockVars, Looping
  <2>3. UNCHANGED << At("counter"), Waited, FrameAge, rssi_overlay >>
    BY <1>2, <1>5 DEF At, Waited, FrameAge, Elapsed, clockVars
  <2>4. ClockInv'
    BY <2>1, <2>3 DEF IInv, ClockInv
  <2> QED
    BY <1>3, <1>4, <2>1, <2>2, <2>4 DEF IInv
<1>6. ASSUME NEW line \in MoreLines, addLine(<< line >>)
      PROVE  IInv'
  <2>1. << line >> \in Lines
    BY OnePiece DEF Pieces
  <2>2. /\ Append(added, << line >>) \in Seq(Lines)
        /\ logLinePtr' = Newest(Append(added, << line >>))
        /\ consoleLog' = Console(Append(added, << line >>))
    BY <1>6, <2>1, PositionShifts DEF IInv, ConsoleInv, addLine
  <2> QED
    BY <1>5, <1>6, <2>2 DEF addLine
<1>7. ASSUME added # << >>, addLine_append("appended")
      PROVE  IInv'
  <2> DEFINE more == [added EXCEPT ![Len(added)] = Append(@, "appended")]
  <2>1. "appended" \in Pieces
    BY DEF Pieces
  <2>2. /\ more \in Seq(Lines)
        /\ logLinePtr = Newest(more)
        /\ [consoleLog EXCEPT ![logLinePtr - 1] = Append(@, "appended")] = Console(more)
    BY <1>7, <2>1, AppendStays DEF IInv, ConsoleInv
  <2>3. /\ added' = more /\ logLinePtr' = logLinePtr
        /\ consoleLog' = [consoleLog EXCEPT ![logLinePtr - 1] = Append(@, "appended")]
        /\ redrawConsole(consoleLog') /\ UNCHANGED clockVars
    BY <1>7 DEF addLine_append
  <2> HIDE DEF more
  <2> QED
    BY <1>5, <2>2, <2>3
<1> QED
  BY <1>6, <1>7 DEF ConsoleCall

-----------------------------------------------------------------------------
(* The inductive argument.                                                 *)

LEMMA InitIInv == Init => IInv
<1> SUFFICES ASSUME Init PROVE IInv
  OBVIOUS
<1>1. build \in Builds /\ at \in 1 .. 18 /\ held = 0 /\ millis = 0 /\ 0 \in Times
  BY StageNames, Bounds DEF Init, Times
<1>2. at <= 15 /\ Compiled(build, Stages[at])
  <2>1. 0 \in 0 .. Len(Stages) /\ DOMAIN Stages = 1 .. 18
    BY StageNames
  <2>2. Upcoming[build][0] = {j \in 1 .. 18 : j > 0 /\ Compiled(build, Stages[j])}
    BY <1>1, <2>1 DEF Upcoming
  <2>3. Compiled(build, Stages[15])
    BY StageNames DEF Compiled
  <2>4. 15 \in Upcoming[build][0]
    BY <2>2, <2>3
  <2> QED
    BY <2>2, <2>4 DEF Init, Follows
<1>3. PlaceInv
  <2>1. at = 15 => Budget[Stages[at]] \in Nat
    BY BudgetType
  <2>2. Looping => at = 15
    BY <1>1, <1>2, AtStage
  <2> QED
    BY <1>1, <1>2, <2>1, <2>2 DEF PlaceInv
<1>4. BusInv
  <2>1. net \in BOOLEAN /\ wifi \in BOOLEAN /\ localIP \in BOOLEAN
    BY DEF Init, UplinkInit
  <2>2. CONNECT_ATTEMPTS \in -1 .. ConnectAttempts
    BY UplinkAssumption DEF Init, UplinkInit
  <2>3. start \in Times /\ spi = "off" /\ readers = {}
    BY <1>1 DEF Init, UplinkInit
  <2> QED
    BY <2>1, <2>2, <2>3 DEF BusInv, BusReadable
<1>5. ConsoleInv
  <2>1. added = << >> /\ logLinePtr = 0 /\ consoleLog = [i \in LineNumbers |-> NoText]
    BY DEF Init, PanelInit, ConsoleInit
  <2>2. added \in Seq(Lines) /\ Len(added) = 0
    BY <2>1, EmptySeq
  <2>3. Newest(added) = 0
    BY <2>2 DEF Newest
  <2>4. Console(added) = [i \in LineNumbers |-> NoText]
    BY <2>3 DEF Console, LineNumbers, NUM_LINES
  <2> QED
    BY <2>1, <2>2, <2>3, <2>4 DEF ConsoleInv, PanelShowsLatestLines
<1>6. FrameInv
  BY <1>1, Bounds DEF Init, PanelInit, FrameInv
<1>7. ClockInv
  <2>1. ~At("counter")
    BY <1>1, <1>2, AtStage
  <2> QED
    BY <2>1 DEF Init, PanelInit, ClockInv, Pending
<1> QED
  BY <1>3, <1>4, <1>5, <1>6, <1>7 DEF IInv

\* Every step of the specification preserves the inductive invariant.
LEMMA NextIInv == IInv /\ [Next]_vars => IInv'
<1> SUFFICES ASSUME IInv, [Next]_vars PROVE IInv'
  OBVIOUS
<1>1. CASE setup
  BY <1>1, StartBusIInv, StartPanelIInv, SplashIInv, SetupLinesIInv, setup_wifiIInv,
     setup_ethernetIInv, StartCardIInv DEF setup
<1>2. CASE loop
  BY <1>2, RestIInv, LoopEthernetIInv, LoopDisplayIInv DEF loop
<1>3. CASE Tick
  BY <1>3, TickIInv
<1>4. CASE NetworkChanges
  BY <1>4, NetworkChangesIInv
<1>5. CASE ConsoleCall
  BY <1>5, ConsoleCallIInv
<1>6. CASE UNCHANGED vars
  <2>1. PlaceInv'
    BY <1>6 DEF vars, IInv, PlaceInv, Looping
  <2>2. BusInv'
    BY <1>6 DEF vars, uplinkVars, IInv, BusInv, BusReadable
  <2>3. ConsoleInv' /\ FrameInv'
    BY <1>6, PanelKept DEF vars, IInv, PlaceInv
  <2>4. ClockInv'
    BY <1>6 DEF vars, panelVars, IInv, ClockInv, At, Waited, FrameAge, Pending, Elapsed
  <2> QED
    BY <2>1, <2>2, <2>3, <2>4 DEF IInv
<1> QED
  BY <1>1, <1>2, <1>3, <1>4, <1>5, <1>6 DEF Next

-----------------------------------------------------------------------------
\* Every reachable state satisfies the inductive invariant.
THEOREM Inductive == Spec => []IInv
BY InitIInv, NextIInv, PTL DEF Spec

\* What every variable can hold.
THEOREM TypeCorrect == Spec => []TypeOK
<1>1. IInv => TypeOK
  <2> SUFFICES ASSUME IInv PROVE TypeOK
    OBVIOUS
  <2>1. build \in Builds /\ at \in 1 .. Len(Stages) /\ held \in Nat
    BY StageNames DEF IInv, PlaceInv
  <2>2. DOMAIN consoleLog = LineNumbers
    BY DEF IInv, ConsoleInv, Console
  <2>3. logLinePtr \in 0 .. NUM_LINES
    <3> DEFINE l == Len(added)
    <3>1. l \in Nat /\ logLinePtr = IF l > 5 THEN 5 ELSE l
      BY DEF IInv, ConsoleInv, Newest
    <3> HIDE DEF l
    <3> QED
      BY <3>1 DEF NUM_LINES
  <2>4. dirty \in BOOLEAN
    BY DEF IInv, FrameInv
  <2> QED
    BY <2>1, <2>2, <2>3, <2>4 DEF TypeOK, IInv, PlaceInv, BusInv, FrameInv
<1> QED
  BY <1>1, Inductive, PTL

\* The two ways the console is drawn never disagree: from the first line on the
\* panel shows the last five lines, whatever drew them.
THEOREM PanelIsRight == Spec => []PanelShowsLatestLines
<1>1. IInv => PanelShowsLatestLines
  BY DEF IInv, ConsoleInv
<1> QED
  BY <1>1, Inductive, PTL

\* Whatever the build, no device is read over a bus without MISO.
THEOREM BusIsReadable == Spec => []BusReadable
<1>1. IInv => BusReadable
  BY DEF IInv, BusInv
<1> QED
  BY <1>1, Inductive, PTL

\* A new text of the counter is composed only over one that was on the panel: the
\* text that still waits is younger than the frame, and the frame is younger
\* than a second.
LEMMA StepShowsText ==
  IInv /\ [Next]_vars =>
    (rssi_overlay' # rssi_overlay => rssi_overlay = NoText \/ << 0, rssi_overlay >> \in panel)
<1> SUFFICES ASSUME IInv, [Next]_vars, rssi_overlay' # rssi_overlay, Pending
             PROVE  FALSE
  BY DEF Pending
<1>1. At("counter") /\ loop_display_counter(millis)
  BY DEF Next, setup, loop, vars, panelVars, StartBus, StartPanel, Splash, SetupLines, setup_wifi,
     setup_ethernet, StartCard, Rest, LoopEthernet, LoopDisplay, Tick, NetworkChanges,
     ConsoleCall, Draws, setup_display, drawBitmap, addLine, addLine_append, clockVars,
     loop_display_update
<1>2. Elapsed(millis, second_interval) > SecondInterval
  BY <1>1 DEF loop_display_counter, show_seconds_counter, CounterDue
<1>3. Elapsed(millis, second_interval) <= FrameAge /\ FrameAge < UpdateInterval + Waited
  BY DEF IInv, ClockInv, Pending
<1>4. at = 18 /\ Looping
  BY <1>1, AtStage DEF IInv, PlaceInv
<1>5. Waited = held /\ held <= Budget["counter"] /\ held \in Nat
  BY <1>4, StageNames DEF Waited, At, IInv, PlaceInv
<1>6. Elapsed(millis, second_interval) \in Nat /\ FrameAge \in Nat
  <2>1. Elapsed(millis, second_interval) \in Times /\ FrameAge \in Times
    BY ElapsedType DEF IInv, PlaceInv, FrameInv, FrameAge
  <2> QED
    BY <2>1, Bounds DEF Times
<1>7. /\ UpdateInterval + Budget["counter"] <= SecondInterval + 1
      /\ UpdateInterval \in Nat /\ SecondInterval \in Nat /\ Budget["counter"] \in Nat
  BY BudgetAssumption, Bounds
<1>8. FrameAge < UpdateInterval + Budget["counter"]
  BY <1>3, <1>5, <1>6, <1>7
<1> QED
  BY <1>2, <1>3, <1>6, <1>7, <1>8

\* No second of the counter goes by unseen.
THEOREM NoTextSkipped == Spec => OverlayNeverSkips
<1>1. IInv /\ [Next]_vars =>
        [rssi_overlay' # rssi_overlay =>
           rssi_overlay = NoText \/ << 0, rssi_overlay >> \in panel]_vars
  BY StepShowsText
<1> QED
  BY <1>1, Inductive, PTL DEF Spec, OverlayNeverSkips
=============================================================================
