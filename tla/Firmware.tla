------------------------------ MODULE Firmware ------------------------------
(***************************************************************************)
(* setup() and loop() of main.cpp as the OLED, the network interface and   *)
(* the SPI bus see them: the stages of one boot, in the order of the code, *)
(* and then passes of loop() for ever.  A build is what the feature flags  *)
(* of platformio.ini select.  The Modbus master, the server, MQTT and the  *)
(* SD logger are in Gateway, MqttClient and SdLogger; here they are the    *)
(* time that the stage "rest" takes.                                       *)
(***************************************************************************)
EXTENDS OledPanel, Uplink

CONSTANTS
  Builds,      \* the builds: [oled, server, sd, static : BOOLEAN, network]
  Budget,      \* ticks of millis() a stage of loop() may take, by stage
  MoreLines    \* lines that code added to loop() hands to the console

ASSUME FirmwareAssumption ==
  /\ Builds \subseteq [oled : BOOLEAN, server : BOOLEAN, sd : BOOLEAN, static : BOOLEAN,
                       network : {"none", "wifi", "ethernet"}]
  /\ \A b \in Builds : (b.server => b.network # "none") /\ (b.static => b.network = "ethernet")
  /\ MoreLines \subseteq STRING /\ MoreLines \cap {"t0", "t1", "t2"} = {}

\* A pass of loop() is over before millis() has gone round once, and no second
\* goes by between the two halves of loop_display.
ASSUME BudgetAssumption ==
  /\ Budget \in [{"rest", "ethernet", "display", "counter"} -> Nat]
  /\ UpdateInterval + Budget["rest"] + Budget["ethernet"] + Budget["display"] + Budget["counter"]
       <= MillisMod
  /\ UpdateInterval + Budget["counter"] <= SecondInterval + 1

VARIABLES
  build,
  at,          \* the stage that setup() or loop() is in: its place in Stages
  held,        \* ticks spent in this stage of loop()
  millis       \* what millis() reads
vars == << panelVars, uplinkVars, net, build, at, held, millis >>

-----------------------------------------------------------------------------
(* The stages of a build.                                                  *)

\* Is the stage compiled into build b?
Compiled(b, stage) ==
  CASE stage = "wifi" -> b.network = "wifi"
    [] stage \in {"w5500", "link", "address", "ethernet"} -> b.network = "ethernet"
    [] stage = "sd" -> b.sd
    [] stage = "ip" -> b.oled /\ b.server
    [] stage = "rest" -> TRUE
    [] OTHER -> b.oled

SetupStages ==
  << "spi", "panel", "rick", "logo", "starting", "wifi", "w5500", "link", "address", "sd",
     "ready", "sunspec", "models", "ip" >>

LoopStages == << "rest", "ethernet", "display", "counter" >>

Stages == SetupStages \o LoopStages

At(stage) == Stages[at] = stage

FirstOfLoop == Len(SetupStages) + 1

Looping == at >= FirstOfLoop

\* The stages that each build has after the i-th.
Upcoming ==
  [b \in Builds |->
     [i \in 0 .. Len(Stages) |-> {j \in DOMAIN Stages : j > i /\ Compiled(b, Stages[j])}]]

\* The first stage of those that build b has after the i-th.
Follows(j, b, i) == j \in Upcoming[b][i] /\ \A k \in Upcoming[b][i] : j <= k

\* On to the next stage; after the last one loop() starts over.
Proceed ==
  /\ \/ Upcoming[build][at] = {} /\ at' = FirstOfLoop
     \/ \E j \in Upcoming[build][at] : Follows(j, build, at) /\ at' = j
  /\ held' = 0

\* delay() and the time a call takes.
Passes(ticks) == millis' = (millis + ticks) % MillisMod

-----------------------------------------------------------------------------
(* setup().                                                                *)

Init ==
  /\ PanelInit
  /\ UplinkInit
  /\ build \in Builds
  /\ build.network = "none" => ~net
  /\ at \in DOMAIN Stages /\ Follows(at, build, 0)
  /\ held = 0
  /\ millis = 0

\* Mutant of FirstBegin: the SD card is forgotten.
FirstBeginForEthernet == IF build.network = "ethernet" THEN "full" ELSE "write"

\* The pins of the first SPI.begin().
FirstBegin == IF build.network = "ethernet" \/ build.sd THEN "full" ELSE "write"

StartBus ==
  /\ At("spi")
  /\ SPI_begin(FirstBegin)
  /\ Proceed
  /\ UNCHANGED << panelVars, net, build, millis, CONNECT_ATTEMPTS, wifi, start,
                  localIP, readers >>

\* A step of setup() that draws, and the ticks it waits afterwards.
Draws(stage, delay) ==
  /\ At(stage)
  /\ Passes(delay)
  /\ Proceed
  /\ UNCHANGED << uplinkVars, net, build >>

StartPanel == Draws("panel", 0) /\ setup_display
Splash     == \/ Draws("rick", 1) /\ drawBitmap(5, << "rick" >>)
              \/ Draws("logo", 1) /\ drawBitmap(0, << "logo" >>)
SetupLines == \/ Draws("starting", 0) /\ addLine(<< "Starting Gateway" >>)
              \/ Draws("ready", 0) /\ addLine(<< "EMS Gateway Ready!" >>)
              \/ Draws("sunspec", 0) /\ addLine(<< "Sol-Ark -> SunSpec" >>)
              \/ Draws("models", 0) /\ addLine(<< "Model 1, 701, 713 Active" >>)
              \/ Draws("ip", 0) /\ addLine(IF build.network = "wifi" THEN get_wifi_ip ELSE get_eth_ip)

setup_wifi ==
  /\ At("wifi")
  /\ \/ (WifiConnects \/ WifiGivesUp) /\ Proceed /\ UNCHANGED millis
     \/ WifiRetries /\ Passes(1) /\ UNCHANGED << at, held >>
  /\ UNCHANGED << panelVars, net, build >>

setup_ethernet ==
  /\ \/ At("w5500") /\ ResetW5500(millis) /\ Proceed /\ UNCHANGED millis
     \/ At("link") /\ (LinkFound(Elapsed(millis, start)) \/ LinkTimesOut(Elapsed(millis, start)))
                   /\ Proceed /\ UNCHANGED millis
     \/ At("link") /\ LinkMissing(Elapsed(millis, start)) /\ Passes(1) /\ UNCHANGED << at, held >>
     \/ At("address") /\ GetsAddress(build.static) /\ Proceed /\ UNCHANGED millis
  /\ UNCHANGED << panelVars, net, build >>

StartCard ==
  /\ At("sd")
  /\ setup_sd_card
  /\ Proceed
  /\ UNCHANGED << panelVars, net, build, millis >>

-----------------------------------------------------------------------------
(* loop().                                                                 *)

\* Buttons, Modbus, MQTT and the SD logger: here they only take time.
Rest ==
  /\ At("rest")
  /\ Proceed
  /\ UNCHANGED << panelVars, uplinkVars, net, build, millis >>

LoopEthernet ==
  /\ At("ethernet")
  /\ loop_ethernet(build.static)
  /\ Proceed
  /\ UNCHANGED << panelVars, net, build, millis >>

LoopDisplay ==
  /\ \/ At("display") /\ loop_display_update(millis)
     \/ At("counter") /\ loop_display_counter(millis)
  /\ Proceed
  /\ UNCHANGED << uplinkVars, net, build, millis >>

-----------------------------------------------------------------------------
(* The environment: time, the network, and other users of the console.     *)

Tick ==
  /\ Looping
  /\ held < Budget[Stages[at]]
  /\ held' = held + 1
  /\ Passes(1)
  /\ UNCHANGED << panelVars, uplinkVars, net, build, at >>

\* After setup() only maintain() looks at the network.
NetworkChanges ==
  /\ build.network # "none"
  /\ Looping => build.network = "ethernet" /\ ~build.static
  /\ NetChanges
  /\ UNCHANGED << panelVars, uplinkVars, build, at, held, millis >>

\* As the firmware stands nothing but setup() writes to the console; its
\* interface is for any caller.  Each line is handed over once, and one piece at
\* most is appended to it.
ConsoleCall ==
  /\ build.oled
  /\ At("rest")
  /\ \/ \E line \in MoreLines :
          /\ \A i \in DOMAIN added : added[i][1] # line
          /\ addLine(<< line >>)
     \/ /\ added # << >>
        /\ LET last == added[Len(added)] IN Len(last) = 1 /\ last[1] \in MoreLines
        /\ addLine_append("appended")
  /\ UNCHANGED << uplinkVars, net, build, at, held, millis >>

-----------------------------------------------------------------------------
setup == StartBus \/ StartPanel \/ Splash \/ SetupLines \/ setup_wifi \/ setup_ethernet \/ StartCard
loop  == Rest \/ LoopEthernet \/ LoopDisplay

Next == setup \/ loop \/ Tick \/ NetworkChanges \/ ConsoleCall

\* One task runs setup() and loop() without end, no call of it blocks for ever,
\* and time goes on, whatever stage it finds.
Fairness == WF_vars(setup \/ loop) /\ SF_vars(Tick)

Spec == Init /\ [][Next]_vars /\ Fairness

-----------------------------------------------------------------------------
(* Properties.                                                             *)

Times == 0 .. MillisMod - 1

\* What every variable can hold.
TypeOK ==
  /\ build \in Builds /\ at \in 1 .. Len(Stages) /\ held \in Nat
  /\ { millis, start, lastUpdate, second_interval } \subseteq Times
  /\ DOMAIN consoleLog = LineNumbers /\ logLinePtr \in 0 .. NUM_LINES
  /\ { net, wifi, localIP, dirty } \subseteq BOOLEAN
  /\ CONNECT_ATTEMPTS \in -1 .. ConnectAttempts
  /\ spi \in {"off", "write", "full"} /\ readers \subseteq {"W5500", "SD"}
  /\ frameState \in {"FIXED", "IN_TRANSITION"} /\ ticksSinceLastStateSwitch \in 0 .. TicksPerFrame - 1

\* Once a line has been handed to the console the panel shows the last five,
\* oldest first, one below the other, and nothing else under the overlay: the
\* two ways the lines are drawn (redrawConsole at once, the frame on every tick)
\* never disagree, and no frame brings back a splash or a line scrolled away.
PanelShowsLatestLines ==
  LET first == IF Len(added) > 5 THEN Len(added) - 5 ELSE 0
  IN  added # << >> =>
        { item \in panel : item[2] \notin CounterTexts } =
          { << 10 * (i - first), added[i] >> : i \in first + 1 .. Len(added) }

\* A count is on the panel before the next one replaces it: the frame clock and
\* the counter, two timers of one loop, never let a second go by unseen.
OverlayNeverSkips ==
  [][rssi_overlay' # rssi_overlay => rssi_overlay = NoText \/ << 0, rssi_overlay >> \in panel]_vars

\* No device is read over a bus that was begun without MISO: the first begin()
\* of the build, whichever part makes it, decides for all of them.
BusReadable == readers # {} => spi = "full"

\* setup() ends, whatever the network does: the Wi-Fi retries are bounded and
\* the wait for the link times out (wifi.cpp:14, ethernet.cpp:39).
BootEnds == <>Looping

\* The counter on the panel goes on for ever: each of its texts keeps coming
\* back, over every frame and across the wrap of millis().
OverlayRefreshed ==
  \A t \in CounterTexts : []<>(build.oled => << 0, t >> \in panel)
=============================================================================
