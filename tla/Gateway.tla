------------------------------- MODULE Gateway -------------------------------
(***************************************************************************)
(* loop() of main.cpp as far as the data path goes: the master polls the   *)
(* inverter (SolArkPoll), then the server refreshes its map and serves     *)
(* clients (SunSpecServer), in one thread, for ever.  The other sub-loops  *)
(* of loop() touch neither the cache nor the map.                          *)
(***************************************************************************)
EXTENDS Integers, Sequences, FiniteSets

CONSTANTS
  Blocks, ReadBlocks, MillisMod, PollRate, MaxLag, MaxGen, MaxCount,
  Registers, BootRegisters, Sources, Windows, Clients,
  Unset, Written, None

\* The assumptions of SolArkPoll and of SunSpecServer.
ASSUME PollAssumption ==
  /\ ReadBlocks \in Seq(Blocks) /\ Len(ReadBlocks) > 0
  /\ MillisMod \in Nat /\ PollRate \in Nat /\ MaxLag \in Nat
  /\ PollRate < MaxLag /\ MaxLag < MillisMod
  /\ MaxGen \in Nat \ {0} /\ MaxCount \in Nat \ {0}

ASSUME ServerAssumption ==
  /\ BootRegisters \subseteq Registers
  /\ Sources \in [Registers -> SUBSET Blocks]
  /\ Windows \subseteq SUBSET Registers
  /\ Unset # Written /\ None \notin [op : {"read", "write"}, points : Windows]
  /\ \A r \in Registers : {Unset, Written} \cap [Sources[r] -> 0 .. MaxGen] = {}

VARIABLES
  inverter, cache, response, pc, index, any_success, last_result,
  solark_success_count, millis, lastSolArkMillis, sincePoll, floor, got,
  holding, bank, sunspec_initialized, phase, todo, request, reply, dirty,
  turn                   \* the sub-loop that loop() is in: "master" or "server"

Poll   == INSTANCE SolArkPoll
Server == INSTANCE SunSpecServer

pollSide   == << inverter, cache, response, pc, index, any_success, last_result,
                 solark_success_count, millis, lastSolArkMillis, sincePoll, floor, got >>
serverSide == << holding, bank, sunspec_initialized, phase, todo, request, reply, dirty >>
vars       == << pollSide, serverSide, turn >>

\* setup() runs setup_modbus_server before any poll: the cache is the
\* constructor's.
Init ==
  /\ Poll!Init
  /\ Server!Init
  /\ turn = "master"

-----------------------------------------------------------------------------
\* A step of loop_modbus_master; on its return loop() goes on to the server.
Master ==
  /\ turn = "master"
  /\ Poll!MasterStep
  /\ turn' = IF pc' = "gate" THEN "server" ELSE "master"
  /\ UNCHANGED serverSide

\* The rate test fails: loop_solark returns at once.
MasterIdle ==
  /\ turn = "master"
  /\ pc = "gate"
  /\ ~Poll!PollDue
  /\ turn' = "server"
  /\ UNCHANGED << pollSide, serverSide >>

\* A step of loop_modbus_server; at its end loop() starts over.
ServerPass ==
  /\ turn = "server"
  /\ Server!ServerStep
  /\ turn' = IF phase = "task" /\ phase' = "rest" THEN "master" ELSE "server"
  /\ UNCHANGED pollSide

LateRequest ==
  /\ turn = "server"
  /\ Server!ServeLate
  /\ UNCHANGED << pollSide, turn >>

Environment ==
  \/ /\ Poll!Tick \/ \E b \in Blocks : Poll!InverterChanges(b)
     /\ UNCHANGED << serverSide, turn >>
  \/ /\ \E c \in Clients, q \in Server!Requests : Server!Send(c, q)
     /\ UNCHANGED << pollSide, turn >>

LoopStep == Master \/ MasterIdle \/ ServerPass

Next == LoopStep \/ LateRequest \/ Environment

\* loop() is never descheduled: one of its steps is always enabled, and one is
\* always taken.  mb.task() returns although late requests keep coming.
Fairness ==
  /\ WF_vars(Poll!Tick /\ UNCHANGED << serverSide, turn >>)
  /\ WF_vars(LoopStep)

Spec == Init /\ [][Next]_vars /\ Fairness

\* The line lets block b through now and then.
LineWorksFor(b) == SF_vars(Master /\ Poll!Reply /\ Poll!CurrentBlock = b)

-----------------------------------------------------------------------------
\* The generation of each block that the map shows: of the points computed from
\* it, any one tells.
Mirrored(b) ==
  LET points == {r \in Registers \ BootRegisters : b \in Sources[r] /\ holding[r] # Unset}
  IN  IF points = {} THEN 0 ELSE holding[CHOOSE r \in points : TRUE][b]

\* The gateway implements the view: whatever loop() does, clients see one
\* monotone view of the inverter, and each reply is taken at one moment.
View == INSTANCE SunSpecView WITH view <- [b \in Blocks |-> Mirrored(b)]

ImplementsView == View!Spec

\* Seen from the master, the composed loop is still a fair run of SolArkPoll:
\* serving clients, who may send at any time, never stops the polling.
MasterKeepsRunning == Poll!Spec

\* End to end: a reply shows every block that the last cycle read with success
\* at least as new as the inverter was when that cycle began.
RepliesAreFresh ==
  [][\A c \in Clients : reply'[c] # reply[c] =>
       \A r \in DOMAIN reply'[c] \ BootRegisters : reply'[c][r] # Written =>
         \A b \in Sources[r] \cap got : reply'[c][r][b] >= floor[b]]_vars

\* A client is answered even when the inverter never answers a single request.
ClientsAnswered == \A c \in Clients : request[c] # None ~> request[c] = None

\* End to end: whatever value a block comes to rest at, the map that clients read
\* shows it in the end, when the line lets this block through now and then.
ChangesReachClients ==
  \A b \in Blocks : LineWorksFor(b) => []<>(Mirrored(b) = inverter[b])

=============================================================================
