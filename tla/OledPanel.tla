------------------------------ MODULE OledPanel ------------------------------
(***************************************************************************)
(* The OLED: the console's five lines (console.cpp), the overlay with the  *)
(* seconds counter (display.cpp), the frame clock of SH1106Ui and the      *)
(* drawing buffer of the SH1106 driver.  A drawing is the set of the items *)
(* on it, each a row and a text; a text is a sequence of pieces and the    *)
(* empty one draws nothing.  Fonts, widths, columns and the way a frame is *)
(* shifted out over SPI are left out: a transfer shows the whole buffer.   *)
(* The module has the operations; Firmware calls them.                     *)
(***************************************************************************)
EXTENDS Integers, Sequences

CONSTANTS
  MillisMod,       \* millis() counts modulo this (2^32 on the board)
  UpdateInterval,  \* updateInterval, in ticks of millis(): 33 ms
  SecondInterval,  \* the 1000 of show_seconds_counter, in ticks
  TicksPerFrame    \* ticksPerFrame: frame ticks between two transitions

ASSUME PanelAssumption ==
  /\ MillisMod \in Nat /\ UpdateInterval \in Nat \ {0} /\ SecondInterval \in Nat
  /\ TicksPerFrame \in Nat \ {0}
  /\ UpdateInterval < SecondInterval /\ SecondInterval < MillisMod

VARIABLES
  consoleLog,                    \* the lines of the console
  logLinePtr,
  buffer,                        \* the driver's drawing buffer
  panel,                         \* what the panel shows
  dirty,                         \* SH1106Ui::dirty
  frameState,                    \* "FIXED" or "IN_TRANSITION"
  ticksSinceLastStateSwitch,
  lastUpdate,
  rssi_overlay,                  \* the text in the overlay
  second_interval,
  added                          \* history: every line handed to the console
panelVars == << consoleLog, logLinePtr, buffer, panel, dirty, frameState,
                ticksSinceLastStateSwitch, lastUpdate, rssi_overlay, second_interval, added >>

NUM_LINES           == 5
FIRST_LINE_Y_OFFSET == 10
LineNumbers         == 0 .. NUM_LINES - 1
ticksPerTransition  == 1
NoText              == << >>

-----------------------------------------------------------------------------
(* SH1106: drawing into the buffer.                                        *)

Blank == {}

\* setPixel drops what is off the screen.
OnScreen(y) == y \in 0 .. 63

drawString(drawing, y, text) ==
  IF text = NoText \/ ~OnScreen(y) THEN drawing ELSE drawing \cup { << y, text >> }

drawnBitmap(drawing, y, picture) == drawing \cup { << y, picture >> }

\* display(): the buffer is sent to the panel.
display(drawing) == buffer' = drawing /\ panel' = drawing

\* init(): the controller starts with whatever its memory holds, and then the
\* cleared buffer is sent.
resetDisplay == display(Blank)

-----------------------------------------------------------------------------
(* The frame and the overlay.                                              *)

\* Mutant of LineY: without the parentheses.
LineYUnparenthesised(i) == i + 1 * FIRST_LINE_Y_OFFSET

LineY(i) == (i + 1) * FIRST_LINE_Y_OFFSET

DrawLines(drawing, lines) ==
  drawing \cup UNION { drawString(Blank, LineY(i), lines[i]) : i \in LineNumbers }

\* The one frame clears what was drawn before it and ignores its offset.
drawConsoleFrame(drawing) == DrawLines(Blank, consoleLog)

\* A transition draws the frame and the next one, which is the same.
drawFrame(drawing, state) ==
  IF state = "IN_TRANSITION" THEN drawConsoleFrame(drawConsoleFrame(drawing))
                             ELSE drawConsoleFrame(drawing)

\* Mutant of rssiOverlayResult: the overlay does not ask for a refresh.
rssiOverlayResultStill == FALSE

\* What rssiOverlay returns, and drawOverlays adds to dirty.
rssiOverlayResult == TRUE

drawOverlays(drawing) == drawString(drawing, 0, rssi_overlay)

\* render(): the overlays go on top of the drawing, and out it goes.
render(drawing) ==
  /\ display(drawOverlays(drawing))
  /\ dirty' = rssiOverlayResult

\* tick(): the frame clock has reached t.
tick(t) ==
  LET due     == CASE frameState = "IN_TRANSITION" -> t >= ticksPerTransition
                   [] frameState = "FIXED" -> t >= TicksPerFrame
      other   == IF frameState = "FIXED" THEN "IN_TRANSITION" ELSE "FIXED"
      redraws == dirty \/ frameState = "IN_TRANSITION" \/ due
  IN  /\ frameState' = IF due THEN other ELSE frameState
      /\ ticksSinceLastStateSwitch' = IF due THEN 0 ELSE t
      /\ IF redraws THEN render(drawFrame(Blank, frameState')) ELSE UNCHANGED << buffer, panel, dirty >>

\* a - b on unsigned numbers below MillisMod.
Elapsed(a, b) == (a - b) % MillisMod

\* update() with the clock at now.  A pass that comes late skips frame ticks.  (It
\* reads millis() for the test and again for the stamp: here once.)
update(now) ==
  LET timeBudget == UpdateInterval - Elapsed(now, lastUpdate)
      skipped    == IF lastUpdate # 0 THEN (- timeBudget) \div UpdateInterval ELSE 0
  IN  IF timeBudget <= 0
      THEN /\ lastUpdate' = now
           /\ tick(ticksSinceLastStateSwitch + skipped + 1)
      ELSE UNCHANGED << lastUpdate, buffer, panel, dirty, frameState, ticksSinceLastStateSwitch >>

\* The counter is abstracted to three texts in turn: what matters is that the
\* next one differs.
CounterTexts == { << "t0" >>, << "t1" >>, << "t2" >> }

CounterText ==
  CASE rssi_overlay = << "t1" >> -> << "t2" >>
    [] rssi_overlay = << "t2" >> -> << "t0" >>
    [] OTHER -> << "t1" >>

\* Mutant of CounterDue: the counter is composed anew in every pass.
CounterDueAlways(now) == TRUE

CounterDue(now) == Elapsed(now, second_interval) > SecondInterval

show_seconds_counter(now) ==
  IF CounterDue(now)
  THEN rssi_overlay' = CounterText /\ second_interval' = now
  ELSE UNCHANGED << rssi_overlay, second_interval >>

-----------------------------------------------------------------------------
(* The console.                                                            *)

scroll(lines) == [i \in LineNumbers |-> IF i < NUM_LINES - 1 THEN lines[i + 1] ELSE lines[i]]

Position(text) ==
  IF logLinePtr > NUM_LINES - 1
  THEN /\ consoleLog' = [scroll(consoleLog) EXCEPT ![NUM_LINES - 1] = text]
       /\ logLinePtr' = NUM_LINES
  ELSE /\ consoleLog' = [consoleLog EXCEPT ![logLinePtr] = text]
       /\ logLinePtr' = logLinePtr + 1

redrawConsole(lines) == render(DrawLines(Blank, lines))

clockVars == << frameState, ticksSinceLastStateSwitch, lastUpdate, rssi_overlay, second_interval >>

addLine(text) ==
  /\ Position(text)
  /\ redrawConsole(consoleLog')
  /\ added' = Append(added, text)
  /\ UNCHANGED clockVars

\* The line appended to is the one before the pointer; there must be one.
addLine_append(piece) ==
  /\ logLinePtr > 0
  /\ consoleLog' = [consoleLog EXCEPT ![logLinePtr - 1] = Append(@, piece)]
  /\ redrawConsole(consoleLog')
  /\ added' = [added EXCEPT ![Len(added)] = Append(@, piece)]
  /\ UNCHANGED << logLinePtr, clockVars >>

-----------------------------------------------------------------------------
(* display.cpp: bringing the panel up, the splash pictures, the loop part. *)

ConsoleInit ==
  /\ consoleLog = [i \in LineNumbers |-> NoText]
  /\ logLinePtr = 0
  /\ added = << >>

PanelInit ==
  /\ ConsoleInit
  /\ buffer = Blank
  /\ panel = { << 0, << "noise" >> >> }   \* the panel's memory before it is cleared
  /\ dirty = TRUE
  /\ frameState = "FIXED"
  /\ ticksSinceLastStateSwitch = 0
  /\ lastUpdate = 0
  /\ rssi_overlay = NoText
  /\ second_interval = 0

setup_display ==
  /\ resetDisplay
  /\ dirty' = TRUE
  /\ UNCHANGED << consoleLog, logLinePtr, added, clockVars >>

drawBitmap(y, picture) ==
  /\ render(drawnBitmap(Blank, y, picture))
  /\ UNCHANGED << consoleLog, logLinePtr, added, clockVars >>

\* loop_display is update() and then show_seconds_counter(), each with a clock of
\* its own; within either the readings of millis() are one.
loop_display_update(now) ==
  /\ update(now)
  /\ UNCHANGED << consoleLog, logLinePtr, added, rssi_overlay, second_interval >>

loop_display_counter(now) ==
  /\ show_seconds_counter(now)
  /\ UNCHANGED << consoleLog, logLinePtr, added, buffer, panel, dirty, frameState,
                  ticksSinceLastStateSwitch, lastUpdate >>
=============================================================================
