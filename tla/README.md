# Sol-Ark to SunSpec gateway: TLA+ models, checks and proofs

The firmware of this repository reads a Sol-Ark inverter over Modbus RTU, keeps
the decoded fields in a cache, recomputes a SunSpec register map from it and
serves that map over Modbus TCP. Beside this it can publish telemetry over MQTT,
log to an SD card and show a few lines on an OLED panel. Everything runs in one
thread, `setup()` and `loop()` of `src/src/core/main.cpp`; there are no
interrupts and no locks. What is hard is elsewhere: reads that fail one by one,
an inverter that changes while it is being read, clients that write, counters
that wrap, tables of offsets written by hand, connections and power that go away
in the middle.

## 1. The system

| Component | State it keeps | Operations | Talks to |
|---|---|---|---|
| Poller: `modbus_master.cpp`, `modbus_solark.cpp` | decoded fields, `lastSolArkMillis`, `solark_success_count`, the response buffer | `loop_solark`, `poll`, `processBlock`, getters | inverter (RTU, blocking reads) |
| Mapper: `sunspec_mapper.cpp`, `sunspec_models.h` | none of its own; writes `holdingRegisters` | `setup_sunspec_models`, `update_sunspec_from_solark`, `set_sunspec_string` | reads the getters |
| TCP server: `modbus_server.cpp` | the library's register bank, `sunspec_initialized` | `setup_modbus_server`, `loop_modbus_server` | mapper, Modbus TCP clients |
| MQTT: `mqtt_client.cpp` | socket, session, counters, report time | `setup_mqtt_client`, `maintain_mqtt_connection`, `poll_mqtt`, `loop_mqtt`, `subscriber_callback` | broker; reads the getters |
| SD log: `sd_card.cpp`, `sd_logger.cpp` | `_sd_available`, `_lastLogMillis`, the file | `setup_sd_card`, `setup_solark_csv_log`, `loop_solark_csv_log` | card; reads success count and getters |
| Network: `wifi.cpp`, `ethernet.cpp` | attempts left, the station's or the W5500's state, the address | `setup_wifi`, `setup_ethernet`, `wait_for_link`, `loop_ethernet` | access point; cable and DHCP server |
| SPI bus: begun in `main.cpp`, `ethernet.cpp`, `sd_card.cpp` | the pins of the first `SPI.begin` | `begin` | OLED, W5500, SD card |
| Panel: `console.cpp`, `display.cpp`, `lib/SH1106` | five lines, overlay text, frame clock, drawing buffer | `addLine`, `addLine_append`, `drawBitmap`, `loop_display` (`update`, `tick`, `show_seconds_counter`) | OLED |
| Buttons, relays: `buttons.cpp`, `relay.cpp` | `pressed` | empty handlers, setters | pins |
| `setup()`, `loop()`: `main.cpp` | two MQTT timers | order of the stages and of the sub-loops | all of the above |

What makes each correct:

- Poller: the cache holds only what the inverter had; a cycle is fresh; its
  result is honest; cycles keep their distance; a cycle ends.
- Mapper: points of one map that say the same thing in different words agree; a
  point for which a document names the inverter's registers shows these, at the
  address that the model definitions give it and in the unit of the register
  table; a client that walks the map finds its models.
- Server: replies are whole and current; a client's write does not outlive the
  pass; every request is answered.
- Data path: clients never see half a cycle; changes reach them; neither half
  starves the other.
- MQTT: telemetry comes back after every loss; commands are heard however often
  telemetry is due; the client never holds `loop()` up for ever.
- SD log: no line is ever lost; the header is where it belongs; attempts on a
  broken card keep their interval.
- Network and bus: boot ends whatever the network does; nothing reads over a
  bus that was begun without MISO.
- Panel: it shows the latest lines and nothing else, whichever of the two
  drawing routines came last; no count of the overlay is skipped.

The hazards behind these, each at its line, are listed in `PROJECT.json`.

## 2. The modules

| Module | Models | Composes / implements |
|---|---|---|
| `SolArkPoll` | the poller | |
| `SunSpecServer` | setup and loop of the TCP server | |
| `SunSpecView` | what clients are promised (abstract) | |
| `Gateway` | the data path of `loop()` | instances of `SolArkPoll` and `SunSpecServer`; implements `SunSpecView` |
| `SunSpecMapping` | the values of decoding and mapping | |
| `RegisterMap` | the origin, unit and address of every word of the map | held against `SunSpecModels` |
| `SunSpecModels` | the reference: model definitions and register table | |
| `MqttClient` | the MQTT client and its part of `loop()` | |
| `SdLogger` | card and CSV log | |
| `LoggedLoop` | poller and CSV log in `loop()` | extends `SdLogger`, instance of `SolArkPoll`; implements `SdLogger` |
| `OledPanel` | console, overlay, frame clock and driver buffer | |
| `Uplink` | Wi-Fi, Ethernet and the SPI bus | |
| `Firmware` | the stages of `setup()` and `loop()`, build by build | extends `OledPanel` and `Uplink` |
| `SolArkPoll_proofs`, `SunSpecServer_proofs`, `SunSpecMapping_proofs`, `RegisterMap_proofs`, `MqttClient_proofs`, `Firmware_proofs` | theorems about the module of that name | extend it and `TLAPS` |
| `Gateway_proofs` | theorems about `Gateway`, the refinement among them | extends it, instantiates `SolArkPoll_proofs` |
| `SdLogger_proofs` | theorems about `SdLogger` and `LoggedLoop` | extends `LoggedLoop`, instantiates `SolArkPoll_proofs` |
| `MC...` | instances for TLC | extend the module they instantiate |

### SolArkPoll

The fields decoded from one read block are always written together, so a block
is abstracted to a *generation*: `inverter[b]` counts the changes of its
registers at the inverter, `cache[b]` is the generation last decoded (0: the
constructor's zeros), `response` the one last received. `pc` follows
`loop_solark` and `poll`: `gate` (the rest of `loop()`, up to the rate test) ->
`stamp` -> `request` / `process` once per block -> `finish`. `Reply` and
`NoReply` are the two outcomes of `readHoldingRegisters`; the inverter changes
and time passes between any two steps. The rate test and the stamp call
`millis()` separately, and are separate steps. `millis` counts modulo
`MillisMod`, `UnsignedMinus` is the subtraction of `unsigned long`. Three
history variables serve the properties: `sincePoll`, `floor` (the inverter when
the cycle began) and `got` (the blocks decoded in it). Each read of a real poll
blocks; what blocks is `loop()` itself, which `Gateway` shows.

### SunSpecServer

A point is the set of generations of the blocks it is computed from
(`Sources`). `holding` is `holdingRegisters`, `bank` the library's copy that
clients read and write. `BeginPass` is `loop_modbus_server` up to `mb.task()`:
update, then mirror. Within `mb.task()` (phase `task`) requests that had arrived
are answered one by one, later ones may be; `EndPass` sets `sunspec_initialized`. `Unset`
stands for what setup leaves in a point, `Written` for a client's value.
`BootRegisters` are the points that only `setup_sunspec_models` computes.

### Gateway and SunSpecView

`Gateway` interleaves the two as `loop()` does: `turn` says which sub-loop runs;
while the master runs a cycle no request is served. `SunSpecView` has no loop,
no cache, no mirror: a view that never runs ahead of the inverter and never goes
back, and replies all of whose points are of one moment's view. `ImplementsView`
states the refinement, with the view read off the bank.

### SunSpecMapping

Registers are decoded block by block (`InverterStatusBlock`, ...), in any order
and number, each followed by the mapper. The points modelled are those with a
decision, a width or a duplicated computation in them. Floats: where a product
that is a whole number can come out just below it, both results are allowed; a
conversion out of the range of `uint16_t` is undefined in C++ and may wrap or
saturate (`ToWord`).

### RegisterMap and SunSpecModels

The two hundred and more registers of the map, the fifteen reads and the sixty
decoded fields are all there; what is abstracted is the value. A word of the
response buffer is the address of the inverter register it was read from; a
decoded field is that origin and a power of ten; a word of the map is a
constant, the n-th word of a number computed from such fields, two characters of
a text of some length, or `Stray`: memory behind a text.
`readHoldingRegisters` overwrites the front of the buffer and leaves the rest, as
the library does, so a field decoded past the end of a short read shows up with
another register's origin. `solark_read_blocks`, `SolArkBlockType`,
`SolArkScalingFactors`, the offsets `COMMON`, `INV`, `STORAGE` and the writes of
`setup_sunspec_models` and `update_sunspec_from_solark` are translated from the
code. What either writes is a set of runs (`SetupRuns`, `UpdateRuns`), each an
offset and the words from there on; `Write` lays them over the registers.

`SunSpecModels` is not: it is the reference, taken from documents and held against
the code.

- Points, sizes and scale factors are those of models 1, 701 and 713 in
  `sunspec-models/json`. The address beside each point follows by adding up sizes:
  `Tiled` says that the points cover the map, each word once, and that each model
  ends where the next one starts. It is the named assumption `ReferenceAssumption`,
  which TLC evaluates in every run of the module.
- Units are those of `solark_modbus_map_v130.csv`, the BMS registers 312 to 319
  among them. For the AC powers the table has "1W or 10W Reg 54"; what register 54
  stands for is the constant `AcPowerRatio`.
- The registers that a point shows are those of the README's "Data Mapping"
  (`MappedTo`), and for six points which that section leaves out, the row of the
  register table that has the point's name in the JSON (`NamedLike`).

The code never reads register 54, so it cannot know the unit of the powers when
that is 10 W. `UnitKnown` says where it can, and `FieldsDecoded` and `ScalesAgree`
claim units for those registers only; without it TLC refutes `FieldsDecoded` for
`AcPowerRatio = 10`.

Some words have no statement in a document to be compared with, or one that the
code does not follow, and are left free by the properties: `St`, `InvSt`, `VA`,
`Var`, `PF`, `Alrm`, `WL1`, `WL2`, `SoH` and the texts and addresses of the common
model. What is known of them is under "Disagreements".

### MqttClient

`transport` is the socket's belief, `state` the client's, `session` and
`subscribed` the broker's. The client notices a lost socket in `connected()`
only (`Noticed`); a session lost while the network is bad leaves a socket that
is closed some time later (`SocketCloses`). `mqtt_connect` is one action with
all its outcomes: TCP or CONNECT fails, all succeeds, or the subscription
fails; when the client still believes in its old session (the retry in `setup`
after a failed subscription) CONNECT is not sent on the new socket. Every
publish is a step of its own that may fail in the bad network. The timers of
`loop()` that start `poll_mqtt` and `loop_mqtt` come due alone or together
(`PassDue`); what follows `maintain_mqtt_connection` is `AfterMaintain`.

### SdLogger and LoggedLoop

Power may be cut at any step, the card exchanged for a blank one, and any open
may fail. A line is `header` or `row`; `polled` is the test of the success count,
which by itself may come true at any time. `SD.exists()` is assumed to answer
rightly even on a card that fails every open: if it said "no" of a file that is
there, `sd_logger.cpp:31` would open it anew and lose its lines.

`LoggedLoop` puts the logger and `SolArkPoll` into one thread (`turn`) and takes
`polled` from the poller's count. A row is the generations of the blocks that its
columns come from (`RowBlocks`, some of those read); `rows` is the history of the
rows in the file. Power takes the cache, the count and all timers with it and
leaves the file; the inverter goes on. `LoggerInLoop` says that the logger in the
loop is the logger of `SdLogger`.

### OledPanel, Uplink and Firmware

A drawing is the set of the items on it, each a row and a text; `buffer` is the
driver's, `panel` what was last sent to the glass. The lines are drawn by
`redrawConsole`, at once, and by `drawConsoleFrame`, from the frame clock;
`update`, `tick` and `render` follow `SH1106Ui`, with the ticks a late pass
skips. The counter in the overlay is three texts in turn. `added` is a history of
the lines handed to the console.

`Uplink` has the attempts of `setup_wifi`, the reset of the W5500, the wait for
the link, the address (DHCP or static) and `maintain()`. An address once leased is
kept: `localIP()` goes on answering it when a renewal fails. `SPI_begin` takes effect
once; `readers` is a history of the devices that have been read.

`Firmware` puts them in order. `Stages` lists all stages in the order of the code;
a build compiles in some of them by the feature flags. `at` walks through those of
`setup()`, each time to the first one the build still has ahead (`Upcoming`,
`Follows`), and then goes round those of `loop()`.
Modbus, MQTT, buttons and log are the stage `rest`, which takes time and nothing
else here. Each stage of `loop()` may take up to its `Budget` of ticks, and the
readings of `millis()` in different stages are different steps. Within `update`, and
within the seconds counter, the readings are taken at one moment. `ConsoleCall`
stands for code that hands lines to the console from `loop()`, each of `MoreLines`
once, with a piece appended to it perhaps: none does today, the interface is there
for it. `NetworkChanges` goes on after boot only where the code would notice.

## 3. Runs

Bounds are in the `.cfg` files and `MC` modules; each is named in its module.

| Run | Question | Bounds |
|---|---|---|
| `poll` | safety of the poller; cycles end, changes arrive | 3 blocks, 2 generations, `millis` modulo 5, rate 1 |
| `server` | replies and writes | 2 blocks, points on one and on both, 2 generations, 2 clients (symmetric) |
| `gateway` | the composition: refinement, starvation, end-to-end liveness | 2 blocks, 2 points, 2 generations, one client, `millis` modulo 2 |
| `mapping` | agreement of points | raw values on both sides of each threshold and sign |
| `registers` | the map against the reference; the client's walk | all registers; 2 cycles, 1 failed read in each, alarm texts of 24 and 31 characters, 1 stray word, AC powers in units of 1 W |
| `mqtt` | commands are heard; recovery | 2 of the 7 subtopics, one waiting command |
| `logged_loop` | file and attempts; what the rows show | 2 blocks, 1 of them in the rows, 2 generations, 2 power cuts or exchanges, 3 lines, `millis` modulo 3 |
| `firmware` | panel, bus, boot | 5 builds, `millis` modulo 8, frame period 2, second 3, 2 frames between transitions, budgets 2 and 1, 1 Wi-Fi retry, link wait 2, one line and one appended piece beside those of `setup()` |

What they show: all of these hold. Why the bounds are enough:

- A torn cycle needs two blocks, of which one is read before the other; mixed
  outcomes and "the last one failed" need no more than three. Two generations
  tell old from new, and going back needs no third.
- The wrap of `millis()` is met many times with any modulus above `MaxLag`;
  `gateway` takes the smallest one, since the timer's arithmetic is the business
  of `poll`.
- Two clients are what it takes for one to interfere with the other's write. Two
  subtopics give a loss before, between and after messages.
- To go back in time a row needs an earlier one, the same block at two generations
  and, across a boot, one power cut; the second block is the one that raises the
  success count while the rows' own is unread.
- The register tables are not cut down at all. With `AcPowerRatio` 1 the properties
  speak of every unit the table states; with 10 they say less. A buffer that keeps another
  block's words needs one failed or shorter read after a longer one; a text that
  leaves the end of a longer one behind needs one of each. 24 and 31 are the
  lengths of two alarm texts, one even and one odd.
- The five builds have each network, static and dynamic addresses, and the OLED
  and the SD card with and without the other; the builds that differ from these
  in more parts differ in no interaction that the model has. The console gets one
  more line than it has room for. Budgets let a pass of `loop()` skip frame ticks
  and fall on both sides of every timer, over the wrap.

The remaining runs show disagreements between the code and what its comments,
tables and README say; each checks one property and must find it violated:

| Run | The code | What is said |
|---|---|---|
| `boot_points` | version and serial number are converted before the first poll only | `README.md:136` |
| `subscribe` | a failed subscription on a live session stays failed | `mqtt_client.cpp:77` |
| `log_header` | rows in a file without header | `sd_logger.cpp:24` |
| `energy_scale` | the total energy holds watt-hours under the factor -3 (`sunspec_mapper.cpp:103`) | `README.md:177`: "converted from kWh to Wh" |

### Disagreements

More of them, met while modelling, which no run checks:

- `modbus_master.h:32` takes a non-zero success count for a sign that the cache
  holds real data; one block read is enough to raise it. `CountMeansData` and
  `RowsFollowData` say what it does mean. When that block is not among those of the
  row, the log opens with rows of zeros, which `sd_logger.cpp:5` and
  `CHANGELOG.md:42` say it never does.
- `modbus_server.cpp:105` announces "initial Sol-Ark data" after the first pass,
  whether or not a block has been read.
- `modbus_solark.h:231` subtracts 65535 for a negative word, so every negative
  value is one too high; the register table gives two's complement words. The
  model keeps the constant of the code.
- `modbus_solark.cpp:183` decodes the signed inverter currents (register table,
  164) as unsigned.
- `isGridConnected` (`modbus_solark.cpp:433`) is true for an open relay as well
  (`sunspec_mapper.cpp:169`: 1 is open), so the alarm text says "Connected" while
  the connection point says 0.
- The energy rating (`README.md:194`; register table, 204) is a product in 16
  bits and overflows above 1279 Ah; it too is in watt-hours under a factor of -3
  (`sunspec_mapper.cpp:246`, `README.md:151`).
- The AC powers (register table, 167 to 178) are in units of 1 W or 10 W, by register
  54 (`solark_modbus_map_v130.csv:32`), which nothing reads: on an inverter with
  10 W units every AC power is decoded, logged and served as a tenth of what it is.
  The list in the row of register 54 and the rows themselves do not agree on the
  registers meant: the list leaves out 173 to 175 and has 179, 180 and 190.
- `WL1` and `WL2` show the load side's power (176, 177), while beside them `AL1` and
  `AL2` are the inverter's currents; the inverter's own power by leg is 173 and 174.
  `VA` is the active power (175) once more; the table has an apparent power (38).
- The inverter state `St` comes from register 59 and never from the power, as
  `README.md:188` has it.
- `sunspec_mapper.cpp:280` never sets the state of health that `README.md:154` and
  `README.md:197` say defaults to 100 %.
- `0xFFFF` marks every unimplemented point; SunSpec gives signed points 0x8000.
- The total energy is register 84, which the register table has as the load
  energy of the *day*: the total falls back every midnight.
- `set_sunspec_string` (`sunspec_mapper.cpp:16`) steps two characters at a time
  and, for a text of odd length, over its terminator and on into the memory
  behind it until a zero, though `sunspec_mapper.cpp:26` says "Pad with zeros".
  "Sol-Ark" and "Sol-Ark-12K-P" are odd. The model lets such words be `Stray`;
  the alarm text sits in a cleared buffer and has none.
- `utilities/test_sunspec_registers.py:116` looks for model 701 at 69; the map,
  and the walk by lengths, have it at 70. The strings it reads from the common
  model are off as well.
- `sd_card.cpp:45` says it re-initialises the bus "to include MISO", and
  `FEATURE_FLAGS.md:237` that each driver does so; `main.cpp:147` rightly calls the
  second `begin` a no-op; `BusReadable` holds because the first
  `begin` has MISO already.
- `main.cpp:186` wants the network up before the server starts; neither
  `setup_wifi` nor `setup_ethernet` stops boot when it is not, and a station that
  was out of reach at boot is not tried again.
- The panel's address line is composed once, at `main.cpp:213`; an address that
  DHCP gives later is served but never shown (`README.md:204`).
- `show_seconds_counter` (`display.cpp:276`) divides before it subtracts:
  `millis()-start_millis/1000`.

No run switches the check for deadlock off.

## 4. Fairness

- `loop()` is called for ever, and every library call returns: weak fairness of
  each step of the master, the server and the MQTT client; time passes.
- `Firmware`: one task runs `setup()` and `loop()` (weak fairness of the two
  together), and time goes on (strong fairness of `Tick`, which is not possible
  in every stage of the model). The network is free: `BootEnds` and
  `OverlayRefreshed` hold without it.
- `LineWorksFor(b)` is the premise, not a fairness condition, of the two
  properties that changes arrive: block `b`, asked for again and again, is
  answered again and again, whatever the line does to the other blocks. Without
  it nothing can be promised; every other liveness property holds with a line
  that is dead.
- `mb.task()` goes once round its clients and returns.
- MQTT: a timer of `loop()` that has run out stays so until its pass, hence each of
  the two is due again and again, alone or with the other (strong: passes for the
  other come in between); and a socket without a session is closed in the end
  (keep-alive or reset). Commands and the network are unconstrained; recovery is
  claimed from when the network stays good.
- `SdLogger`, `LoggedLoop` and `RegisterMap` claim no liveness.

## 5. Proofs

TLC checks the instances above; the theorems hold for every value of the
constants that satisfies the named assumptions of the modules. Most proof modules
have one inductive invariant `IInv`, proved inductive once (`Inductive`), from which
the rest follows; where there are more of them, or other names, it is said below.

**`SolArkPoll_proofs`** (any blocks, read order, modulus, rate): `TypeCorrect`,
`CacheIsReal`, `CyclesAreFresh`, `ReportIsHonest`, `CountIsHonest` and the action
properties `NoStepBack` and `PollsAreSpaced`. `LoopInv` ties the loop variable to
`pc` and the response buffer to the block being processed: without it
`processBlock` could decode another block's registers, and `CacheFromInverter` is
not inductive. `CycleInv` says that `any_success` is true exactly when `got` is
not empty and that `floor` never runs ahead of the inverter. `TimerInv` says that
`UnsignedMinus(millis, lastSolArkMillis)` is `sincePoll` as long as `MaxLag` keeps
the distance below one wrap: the arithmetic of the rate test, and the only place
where the assumption on `MaxLag` is used. The real board meets it as long as
`loop()` comes round within 49 days.

**`SunSpecServer_proofs`** (any points, sources, clients, windows): `TypeCorrect`,
`RepliesWhole`, `RepliesCurrent`, `WritesUndone`. `BankInv` says that while
`mb.task()` runs the map is the one computed from the cache of this moment, and
the bank is the map but for what clients have written since the mirror. A reply
taken then is current, and what is current is whole.

**`Gateway_proofs`** (the same, composed): `Refinement`, that `Spec` implements
`SunSpecView`, and `FreshReplies`. The poller in `loop()` is shown to take only
steps of `SolArkPoll`, so its invariant carries over. `MirrorInv` says that the
map is one earlier state of the cache and never ahead of it; `TaskInv` that while
requests are answered the poller rests and map and bank are up to date. A pass
then maps to the abstract view stepping forward, a read to a reply taken from the
view at one moment, and all else to a change of the inverter or a stutter.

**`SunSpecMapping_proofs`** (every 16-bit value of every register): `TypeCorrect`,
`StatesAgree`, `EnergyAgrees`, `NeverAboveRating`. TLC looks at both sides of each
threshold; the proof looks at all values, with every outcome of the undefined
conversion. The properties relate points that one update writes, so the invariant
is their conjunction and the range of the decoded fields.

**`SdLogger_proofs`** (any interval, modulus, number of cuts): `TypeCorrect`,
`HeadersFirst`, `LinesKept`, `AttemptsApart`. `StageInv` says that a header is
written to an empty file only; `TimerInv` is the unsigned arithmetic again: while
`quiet` is below `MaxLag` it is the unsigned difference, and at `MaxLag` the interval
has long passed.

The same module has the theorems about `LoggedLoop` (any blocks, columns, rates),
from its invariant `LoopIInv`:

- The poller under the loop keeps its own invariant (`PollerStep`): most steps are
  steps of `SolArkPoll` or leave it alone, and a power cut takes it back to what its
  theorems assume at boot (`PowerFailsPoller`), with an inverter that has moved on.
- `TurnInv`: the logger's turn comes between two cycles, and its gate is the
  poller's success count. The count never falls under power (`CountGrows`); hence
  `LogRefinement`, that the loop implements `SdLogger`, and with it the four
  theorems above hold of the loop. `DataFirst` follows from it and `CountMeansData`.
- `RowInv`: no row is ahead of the inverter, of a cache that has been read since
  boot, or of the reply being decoded. The last part is what makes it inductive: a
  reply is decoded one step after it was read. `LogNeverBack` and `RowsCurrent`
  follow, the latter with the poller's `CycleIsFresh`.

**`MqttClient_proofs`** (any subtopics, attempts, bounds): `TypeCorrect`, the number
of attempts in `setup()` included. `QueueInv` says that what waits is of the burst
and never empty while the client publishes; `AttemptInv` that setup has an attempt left.

**`RegisterMap_proofs`** (any number of cycles, failures, stray words, any alarm
lengths up to 63, AC powers in units of 1 W or of 10 W): `FieldsAreTheirOwn`,
`MapIsRight`, `WalkArrives`, `ScalesAreRight`. The tables are the code's own, so what
is general here is the history: TLC runs two cycles with one failed read in each, the theorems hold
however many come and whatever a failed read leaves in the response buffer. The
argument goes from the inverter to the client:

- `BlockCoversFields`: a field that `processBlock` decodes lies within the words
  that this very read overwrote. So no origin is ever left over from an earlier
  read, and `FieldInv`, that a field is zero or its own register under its own
  divisor, is inductive without a word about the buffer. `DivisorsAreUnits`
  compares the divisors with the register table, for the registers of known unit.
- `SetupApart`, `UpdateApart`: the runs written do not touch each other. Hence a
  run's words are those found at its place afterwards (`RunLands`) and all others
  stay (`RestStays`); with overlapping runs the order of the writes would matter.
- `BankInv`, the second inductive invariant: what `setup_sunspec_models` prepared and
  no update writes is still there (`Prepared`), and after an update every run of it is
  in the registers (`UpdateShows`). Both are needed because a map is never written
  whole: headers and factors are of `setup()`, points of the last update.
- `PointShows`: each point that the reference gives registers or calls "none" is one
  run or an untouched word; `ShownAsDocumented` goes through those with registers.
- `FactorTakesBack`, `OneUnit`: the factor takes the multiplier back, and the two
  currents averaged into one point have one divisor.

**`Firmware_proofs`** (any builds, intervals, frame counts, budgets and lines):
`TypeCorrect`, `PanelIsRight`, `BusIsReadable`, `NoTextSkipped`. The invariant has
one part for each question.

- `PlaceInv`: the stage is one the build has, and its time is within the budget.
- `BusInv`: a build that begins the bus without MISO has neither Ethernet nor an SD
  card, so nothing of it will read. The network cannot change that.
- `ConsoleInv`: the console's ring is the last five of all lines ever added
  (`Console`, `Newest`), and until there is one the splash pictures may be on the
  panel. That makes both drawing routines draw the same, since both draw the ring.
- `FrameInv`, `ClockInv`: a text waiting for the panel (`Pending`) is no older than
  the last frame, and the last frame no older than one interval and the time
  since the last call of `update` (`FrameAge`, `Waited`). When the next text is due a
  second has passed since this one; by then a frame has been drawn.

`ClockInv` needs `BudgetAssumption`: a pass of `loop()` and one frame interval fit
into one period of `millis()`, and the display's part of a pass is shorter than the
rest of a second. The first is 49 days on the board, where the longest pass
is fifteen reads that time out; of the second, the frame interval is 33 ms and
drawing one frame follows at once. Without the first `millis()` could go round
unnoticed between two frames and the frame clock see no time pass.

Only model-checked: all liveness (`PollEnds`, `ChangesReachCache`, `MasterKeepsRunning`,
`ClientsAnswered`, `ChangesReachClients`, `CommandsServed`, `TelemetryResumes`,
`LoopGoesOn`, `BootEnds`, `OverlayRefreshed`), since fairness and ENABLED are beyond the prover. Every safety
and action property of the passing runs is also a theorem. The other way round, the
type invariants of poller, server, logger and firmware are theorems (`TypeCorrect`,
`LoopTypeCorrect`) and no longer part of a run. The properties that
runs refute are no theorems, of course; their counterexamples are TLC's.

## 6. Not modelled

- Buttons: the four handlers are empty. Relays: nothing toggles them.
- The RS-485 scanner, which nothing calls; configuration and device identifier,
  constants and one string built at boot.
- The contents of MQTT messages, the byte counters, and `mqtt_restart`, which
  nothing calls.
- On the panel: fonts, columns, the demo frames that nothing selects, the
  controller's start-up commands.
- The exchange with the DHCP server and how long it takes, chip selects and
  transfers on the SPI bus, the SD card's directory listing.
- The Python utilities, desk tools beside the firmware; the vendored
  `ModbusRTUSlave`, which is in no build; pictures and fonts, which are data.

Library behaviour that the models assume (Modbus RTU and TCP, PubSubClient, SD,
Ethernet, SPI) is written down in the modules, in the definitions that `map` marks
external. `PROJECT.json` gives the reason for each component.

## 7. Plan

1. (done) poller, server, composition with refinement, mapping, MQTT, SD log.
2. (done) register layout against the model definitions; panel, network and bus
   under `setup()` and `loop()`.
3. (done) proofs of the poller, the server, the gateway's refinement, the mapping,
   the SD log and the MQTT client's types; of the register map against the model
   definitions; of panel, bus and overlay under `setup()` and `loop()`.
4. (done) the poller composed with the SD log, for what a row shows of a cycle, and
   its proof.
5. Left: the same for MQTT messages; the library and the configuration behind the
   parts that are modelled partly.
