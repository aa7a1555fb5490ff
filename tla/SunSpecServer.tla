---------------------------- MODULE SunSpecServer ----------------------------
(***************************************************************************)
(* The SunSpec Modbus TCP server: setup_modbus_server, loop_modbus_server  *)
(* (modbus_server.cpp) and the data flow of the mapper it calls            *)
(* (sunspec_mapper.cpp), with the TCP clients.                             *)
(*                                                                         *)
(* A register stands for one SunSpec point (one or more 16-bit registers). *)
(* The mapper computes it from the decoded fields of the read blocks       *)
(* Sources[r], so its value is abstracted to the generations of those      *)
(* blocks it was computed from.  The library's store (bank) is what        *)
(* clients read and write; holdingRegisters (holding) is the firmware's    *)
(* own copy.  The decoded cache is the master's: here it is an             *)
(* environment that decodes new blocks whenever loop() is in the master.   *)
(***************************************************************************)
EXTENDS Integers, FiniteSets

CONSTANTS
  Blocks,         \* SolArkBlockType
  Registers,      \* points of the SunSpec map
  BootRegisters,  \* the points only setup_sunspec_models writes
  Sources,        \* Sources[r]: the blocks whose fields point r is computed from
  Windows,        \* sets of points that one request can cover (at most 125 registers)
  Clients,        \* TCP clients, at most one request of each under way
  MaxGen,         \* bound: generations of a block
  Unset,          \* what setup_sunspec_models leaves in a point it does not compute
  Written,        \* a value some client wrote
  None            \* no request under way

ASSUME MapAssumption ==
  /\ BootRegisters \subseteq Registers
  /\ Sources \in [Registers -> SUBSET Blocks]
  /\ Windows \subseteq SUBSET Registers
  /\ MaxGen \in Nat \ {0}

Requests == [op : {"read", "write"}, points : Windows]

\* The requests and the marks are told apart from each other and from values.
ASSUME MarksAssumption ==
  /\ Unset # Written
  /\ None \notin Requests
  /\ \A r \in Registers : {Unset, Written} \cap [Sources[r] -> 0 .. MaxGen] = {}

VARIABLES
  cache,                \* generation held by the decoded fields of each block
  holding,              \* holdingRegisters
  bank,                 \* the library's own copy of the holding registers
  sunspec_initialized,
  phase,                \* "rest": elsewhere in loop(); "task": inside mb.task()
  todo,                 \* clients whose request mb.task() found and has not served
  request,              \* request of each client, or None
  reply,                \* last answer to a read of each client: point |-> value
  dirty                 \* history: points written by clients since the last mirror

serverVars == << holding, bank, sunspec_initialized, phase, todo >>
clientVars == << request, reply, dirty >>
vars       == << cache, serverVars, clientVars >>

LiveRegisters == Registers \ BootRegisters

\* A point computed from the cache as it is now.
Computed(r) == [b \in Sources[r] |-> cache[b]]

\* setup_sunspec_models: serial number and version are converted here, from
\* the cache of the moment.
setup_sunspec_models ==
  holding = [r \in Registers |-> IF r \in BootRegisters THEN Computed(r) ELSE Unset]

\* setup_modbus_server registers every holding register with its setup value.
setup_modbus_server ==
  /\ setup_sunspec_models
  /\ bank = holding
  /\ sunspec_initialized = FALSE

Init ==
  /\ cache = [b \in Blocks |-> 0]
  /\ setup_modbus_server
  /\ phase = "rest"
  /\ todo = {}
  /\ request = [c \in Clients |-> None]
  /\ reply = [c \in Clients |-> << >>]
  /\ dirty = {}

-----------------------------------------------------------------------------
(* The environment: poll cycles decode blocks, clients send requests.      *)

\* A poll cycle decodes some blocks anew.
PollCycle(S) ==
  /\ phase = "rest"
  /\ \A b \in S : cache[b] < MaxGen
  /\ cache' = [b \in Blocks |-> IF b \in S THEN cache[b] + 1 ELSE cache[b]]
  /\ UNCHANGED << serverVars, clientVars >>

Send(c, q) ==
  /\ request[c] = None
  /\ request' = [request EXCEPT ![c] = q]
  /\ UNCHANGED << cache, serverVars, reply, dirty >>

-----------------------------------------------------------------------------
(* loop_modbus_server                                                      *)

\* Mutant of update_sunspec_from_solark: the map is filled once, then left alone.
UpdateOnce ==
  holding' = IF sunspec_initialized THEN holding
             ELSE [r \in Registers |-> IF r \in BootRegisters THEN holding[r] ELSE Computed(r)]

\* Every point but the boot ones is computed anew in every pass.
update_sunspec_from_solark ==
  holding' = [r \in Registers |-> IF r \in BootRegisters THEN holding[r] ELSE Computed(r)]

\* Mutant of Mirror: the map is mirrored before it is updated.
MirrorTooEarly == bank' = holding

\* Mutant of Mirror: the loop leaves one point behind.
MirrorShort ==
  LET last == CHOOSE r \in LiveRegisters : \A s \in LiveRegisters : Sources[r] \subseteq Sources[s]
  IN  bank' = [r \in Registers |-> IF r = last /\ bank[r] # Unset THEN bank[r] ELSE holding'[r]]

\* Mutant of Mirror: only a map that has changed is mirrored.
MirrorOnChange == bank' = IF holding' = holding THEN bank ELSE holding'

\* The loop of mb.Hreg(i, holdingRegisters[i]) over the whole map.
Mirror == bank' = holding'

\* One call: update, mirror, and entry into mb.task(), which finds the requests
\* that have arrived.
BeginPass ==
  /\ phase = "rest"
  /\ update_sunspec_from_solark
  /\ Mirror
  /\ dirty' = {}
  /\ phase' = "task"
  /\ todo' = {c \in Clients : request[c] # None}
  /\ UNCHANGED << cache, sunspec_initialized, request, reply >>

\* mb.task() answers a read from the bank.
ServeRead(c) ==
  /\ phase = "task"
  /\ request[c] # None
  /\ request[c].op = "read"
  /\ reply' = [reply EXCEPT ![c] = [r \in request[c].points |-> bank[r]]]
  /\ request' = [request EXCEPT ![c] = None]
  /\ todo' = todo \ {c}
  /\ UNCHANGED << cache, holding, bank, sunspec_initialized, phase, dirty >>

\* mb.task() executes a write on the bank; no callback tells the firmware.
ServeWrite(c) ==
  /\ phase = "task"
  /\ request[c] # None
  /\ request[c].op = "write"
  /\ bank' = [r \in Registers |-> IF r \in request[c].points THEN Written ELSE bank[r]]
  /\ dirty' = dirty \cup request[c].points
  /\ request' = [request EXCEPT ![c] = None]
  /\ todo' = todo \ {c}
  /\ UNCHANGED << cache, holding, sunspec_initialized, phase, reply >>

\* Mutant of EndPass: mb.task() stays until no client has anything to ask.
EndPassIdle ==
  /\ phase = "task"
  /\ todo = {}
  /\ \A c \in Clients : request[c] = None
  /\ sunspec_initialized' = TRUE
  /\ phase' = "rest"
  /\ UNCHANGED << cache, holding, bank, todo, clientVars >>

\* mb.task() returns once it has been round its clients.
EndPass ==
  /\ phase = "task"
  /\ todo = {}
  /\ sunspec_initialized' = TRUE
  /\ phase' = "rest"
  /\ UNCHANGED << cache, holding, bank, todo, clientVars >>

-----------------------------------------------------------------------------
Serve == \E c \in todo : ServeRead(c) \/ ServeWrite(c)

\* A request that arrives while mb.task() is running may still be served.
ServeLate == \E c \in Clients \ todo : ServeRead(c) \/ ServeWrite(c)

ServerStep == BeginPass \/ Serve \/ EndPass

Next ==
  \/ \E S \in SUBSET Blocks : S # {} /\ PollCycle(S)
  \/ \E c \in Clients, q \in Requests : Send(c, q)
  \/ ServerStep
  \/ ServeLate

Spec == Init /\ [][Next]_vars

-----------------------------------------------------------------------------
Generations(r) == [Sources[r] -> 0 .. MaxGen]

TypeOK ==
  /\ cache \in [Blocks -> 0 .. MaxGen]
  /\ \A r \in Registers : holding[r] \in Generations(r) \cup {Unset}
  /\ \A r \in Registers : bank[r] \in Generations(r) \cup {Unset, Written}
  /\ DOMAIN holding = Registers /\ DOMAIN bank = Registers
  /\ sunspec_initialized \in BOOLEAN
  /\ phase \in {"rest", "task"}
  /\ todo \subseteq Clients
  /\ request \in [Clients -> Requests \cup {None}]
  /\ DOMAIN reply = Clients
  /\ dirty \subseteq Registers

\* The points of a reply that tell the state of the inverter.
Telling(a) == {r \in DOMAIN a : r \in LiveRegisters /\ a[r] # Written}

\* One reply is never torn: all points that are computed from one block show
\* the same reading of it.
ReplyUntorn ==
  \A c \in Clients : \A r, s \in Telling(reply[c]) :
    \A b \in Sources[r] \cap Sources[s] : reply[c][r][b] = reply[c][s][b]

\* A reply shows the cache of the moment it is served, whatever happened to the
\* bank before this pass.
RepliesAreCurrent ==
  [][\A c \in Clients : reply'[c] # reply[c] =>
       \A r \in Telling(reply'[c]) : reply'[c][r] = Computed(r)]_vars

\* A client's write is undone by the next mirror: a reply shows a written value
\* only if the write was served in the same pass.
WritesLastOnePass ==
  [][\A c \in Clients : reply'[c] # reply[c] =>
       \A r \in DOMAIN reply'[c] : reply'[c][r] = Written => r \in dirty]_vars

\* README.md: version and serial number are "dynamically read" from the
\* inverter: once their block has been decoded, the map shows it.
BootPointsFollowInverter ==
  phase = "task" =>
    \A r \in BootRegisters : \A b \in Sources[r] :
      cache[b] # 0 => holding[r][b] # 0

=============================================================================
