---------------------------- MODULE Gateway_proofs ----------------------------
(***************************************************************************)
(* The gateway implements what SunSpecView promises, for any blocks,       *)
(* points, sources, windows and clients.  What SolArkPoll_proofs shows of  *)
(* the poller is used here for the poller inside loop().                   *)
(***************************************************************************)
EXTENDS Gateway, TLAPS

Proved == INSTANCE SolArkPoll_proofs

-----------------------------------------------------------------------------
(* The poller inside loop() is the poller that the theorems are about.     *)

\* A step of loop_modbus_master is a step of the poller.
LEMMA MasterStepsAgree == Poll!MasterStep => Proved!Next
<1>1. Poll!PassGate => Proved!PassGate
  BY DEF Poll!PassGate, Proved!PassGate, Poll!PollDue, Proved!PollDue, Poll!UnsignedMinus,
         Proved!UnsignedMinus, Poll!timerVars, Proved!timerVars
<1>2. Poll!StartPoll => Proved!StartPoll
  BY DEF Poll!StartPoll, Proved!StartPoll
<1>3. Poll!Reply => Proved!Reply
  BY DEF Poll!Reply, Proved!Reply, Poll!CurrentBlock, Proved!CurrentBlock,
         Poll!timerVars, Proved!timerVars
<1>4. Poll!NoReply => Proved!NoReply
  BY DEF Poll!NoReply, Proved!NoReply, Poll!NextBlock, Proved!NextBlock,
         Poll!timerVars, Proved!timerVars
<1>5. Poll!processBlock => Proved!processBlock
  BY DEF Poll!processBlock, Proved!processBlock, Poll!NextBlock, Proved!NextBlock,
         Poll!CurrentBlock, Proved!CurrentBlock, Poll!timerVars, Proved!timerVars
<1>6. Poll!FinishPoll => Proved!FinishPoll
  BY DEF Poll!FinishPoll, Proved!FinishPoll, Poll!PollResult, Proved!PollResult,
         Poll!timerVars, Proved!timerVars
<1> QED
  BY <1>1, <1>2, <1>3, <1>4, <1>5, <1>6 DEF Poll!MasterStep, Proved!MasterStep, Proved!Next

\* Every step of loop() is a step of the poller or leaves it alone.
LEMMA PollStepsAgree == [Next]_vars => [Proved!Next]_(Proved!vars)
<1>1. CASE Master
  BY <1>1, MasterStepsAgree DEF Master
<1>2. CASE Environment
  <2>1. Poll!Tick => Proved!Tick
    BY DEF Poll!Tick, Proved!Tick, Poll!pollVars, Proved!pollVars
  <2>2. ASSUME NEW b \in Blocks, Poll!InverterChanges(b)
        PROVE  Proved!InverterChanges(b)
    BY <2>2 DEF Poll!InverterChanges, Proved!InverterChanges, Poll!pollVars, Proved!pollVars,
                Poll!timerVars, Proved!timerVars
  <2>3. UNCHANGED pollSide => UNCHANGED Proved!vars
    BY DEF pollSide, Proved!vars, Proved!pollVars, Proved!timerVars
  <2> QED
    BY <1>2, <2>1, <2>2, <2>3 DEF Environment, Proved!Next
<1>3. CASE MasterIdle \/ ServerPass \/ LateRequest \/ UNCHANGED vars
  BY <1>3 DEF MasterIdle, ServerPass, LateRequest, vars, pollSide, Proved!vars,
              Proved!pollVars, Proved!timerVars
<1> QED
  BY <1>1, <1>2, <1>3 DEF Next, LoopStep

\* setup() leaves the poller as its theorems assume.
LEMMA PollerInit == Init => Proved!IInv
<1>1. Init => Proved!Init
  BY DEF Init, Poll!Init, Proved!Init
<1> QED
  BY <1>1, PollAssumption, Proved!InitIInv

\* What the gateway needs of the poller.
LEMMA PollerFacts ==
  ASSUME Proved!IInv
  PROVE  /\ inverter \in [Blocks -> 1 .. MaxGen] /\ cache \in [Blocks -> 0 .. MaxGen]
         /\ floor \in [Blocks -> 0 .. MaxGen]
         /\ \A b \in Blocks : cache[b] <= inverter[b]
         /\ \A b \in got : cache[b] >= floor[b]
BY DEF Proved!IInv, Proved!TypeOK, Proved!CacheFromInverter, Proved!CycleIsFresh

\* Nor does any step of loop() take the cache back.
LEMMA CacheNotBack ==
  ASSUME Proved!IInv, [Next]_vars
  PROVE  \A b \in Blocks : cache'[b] >= cache[b]
BY PollStepsAgree, PollAssumption, Proved!StepNotBack

-----------------------------------------------------------------------------
\* The points that every update computes.
Live == Registers \ BootRegisters

\* The map shows one state of the cache, an earlier one perhaps.
MirrorInv ==
  /\ \A r \in BootRegisters : holding[r] = [b \in Sources[r] |-> 0]
  /\ \A r \in Live : holding[r] = Unset \/ holding[r] = [b \in Sources[r] |-> Mirrored(b)]
  /\ \A b \in Blocks : Mirrored(b) \in Nat /\ Mirrored(b) <= cache[b]

\* While mb.task() runs the map is up to date, and the bank shows it but for what
\* clients have written.
TaskInv ==
  phase = "task" =>
    /\ turn = "server"
    /\ \A r \in Live : holding[r] = [b \in Sources[r] |-> cache[b]]
    /\ \A r \in Registers : bank[r] = holding[r] \/ bank[r] = Written

\* Clients, their requests and their replies.
RequestInv ==
  /\ todo \subseteq Clients
  /\ request \in [Clients -> Server!Requests \cup {None}]
  /\ DOMAIN reply = Clients

IInv == Proved!IInv /\ MirrorInv /\ TaskInv /\ RequestInv

-----------------------------------------------------------------------------
\* The map decides what is mirrored.
LEMMA MirrorKept ==
  ASSUME holding' = holding
  PROVE  \A b : Mirrored(b)' = Mirrored(b)
BY DEF Mirrored

\* A point computed from the cache is not the mark of setup.
LEMMA ComputedIsValue ==
  ASSUME Proved!IInv, NEW r \in Registers
  PROVE  [b \in Sources[r] |-> cache[b]] # Unset
<1>1. Sources[r] \subseteq Blocks
  BY ServerAssumption
<1>2. [b \in Sources[r] |-> cache[b]] \in [Sources[r] -> 0 .. MaxGen]
  BY <1>1, PollerFacts
<1> QED
  BY <1>2, ServerAssumption

\* The update shows the cache in every live point, and so in the view.
LEMMA UpdateShowsCache ==
  ASSUME Proved!IInv, Server!update_sunspec_from_solark
  PROVE  /\ \A r \in Live : holding'[r] = [b \in Sources[r] |-> cache[b]]
         /\ \A r \in BootRegisters : holding'[r] = holding[r]
         /\ \A b \in Blocks : Mirrored(b)' = IF \E r \in Live : b \in Sources[r] THEN cache[b] ELSE 0
<1>1. \A r \in Live : holding'[r] = [b \in Sources[r] |-> cache[b]]
  BY DEF Server!update_sunspec_from_solark, Server!Computed, Live
<1>2. \A r \in BootRegisters : holding'[r] = holding[r]
  BY ServerAssumption DEF Server!update_sunspec_from_solark
<1>3. ASSUME NEW b \in Blocks
      PROVE  Mirrored(b)' = IF \E r \in Live : b \in Sources[r] THEN cache[b] ELSE 0
  <2> DEFINE points == {r \in Registers \ BootRegisters : b \in Sources[r] /\ holding'[r] # Unset}
  <2>1. points = {r \in Live : b \in Sources[r]}
    BY <1>1, ComputedIsValue DEF Live
  <2>2. ASSUME NEW r \in points
        PROVE  holding'[r][b] = cache[b]
    <3>1. r \in Live /\ b \in Sources[r]
      BY <2>1
    <3>2. holding'[r] = [x \in Sources[r] |-> cache[x]]
      BY <3>1, <1>1
    <3> QED
      BY <3>1, <3>2
  <2>3. Mirrored(b)' = IF points = {} THEN 0 ELSE holding'[CHOOSE r \in points : TRUE][b]
    BY DEF Mirrored
  <2> HIDE DEF points
  <2>4. points # {} => (CHOOSE r \in points : TRUE) \in points
    OBVIOUS
  <2>5. points = {} <=> ~ \E r \in Live : b \in Sources[r]
    BY <2>1
  <2> QED
    BY <2>2, <2>3, <2>4, <2>5
<1> QED
  BY <1>1, <1>2, <1>3

\* A block of which no live point is computed is not seen.
LEMMA UnseenBlocks ==
  ASSUME NEW b, ~ \E r \in Live : b \in Sources[r]
  PROVE  Mirrored(b) = 0
BY DEF Mirrored, Live

-----------------------------------------------------------------------------
\* setup(): the map without a reading, and no request.
LEMMA InitIInv ==
  ASSUME Init
  PROVE  MirrorInv /\ TaskInv /\ RequestInv /\ \A b : Mirrored(b) = 0
<1> USE DEF Init, Server!Init, Server!setup_modbus_server, Server!setup_sunspec_models
<1>1. \A b : Mirrored(b) = 0
  BY DEF Mirrored
<1>2. MirrorInv
  <2>1. \A r \in BootRegisters : Sources[r] \subseteq Blocks /\ r \in Registers
    BY ServerAssumption
  <2>2. \A r \in BootRegisters : holding[r] = [b \in Sources[r] |-> 0]
    BY <2>1 DEF Server!Computed
  <2>3. \A r \in Live : holding[r] = Unset
    BY DEF Live
  <2>4. \A b \in Blocks : Mirrored(b) \in Nat /\ Mirrored(b) <= cache[b]
    BY <1>1
  <2> QED
    BY <2>2, <2>3, <2>4 DEF MirrorInv
<1>3. TaskInv /\ RequestInv
  BY DEF TaskInv, RequestInv, Server!Requests
<1> QED
  BY <1>1, <1>2, <1>3

\* Steps that leave the server's side alone: the cache only moves forward, and not
\* while requests are served.
LEMMA ServerIdleIInv ==
  ASSUME IInv, [Next]_vars, UNCHANGED serverSide,
         (turn' = turn /\ cache' = cache) \/ turn = "master"
  PROVE  MirrorInv' /\ TaskInv' /\ RequestInv'
<1> USE DEF IInv, serverSide
<1>1. MirrorInv'
  <2>1. \A b \in Blocks : cache'[b] >= cache[b] /\ cache[b] \in Nat /\ cache'[b] \in Nat
    <3>1. Proved!IInv'
      BY PollStepsAgree, PollAssumption, Proved!NextIInv
    <3>2. (cache \in [Blocks -> 0 .. MaxGen])'
      BY <3>1 DEF Proved!IInv, Proved!TypeOK
    <3>3. cache \in [Blocks -> 0 .. MaxGen]
      BY PollerFacts
    <3> QED
      BY <3>2, <3>3, CacheNotBack
  <2>2. \A b \in Blocks : Mirrored(b)' \in Nat /\ Mirrored(b)' <= cache'[b]
    BY <2>1, MirrorKept DEF MirrorInv
  <2> QED
    BY <2>2, MirrorKept, ServerAssumption DEF MirrorInv, Live
<1>2. TaskInv'
  BY DEF TaskInv, Live
<1>3. RequestInv'
  BY DEF RequestInv, Server!Requests
<1> QED
  BY <1>1, <1>2, <1>3

\* Update and mirror.
LEMMA BeginPassIInv ==
  ASSUME IInv, ServerPass, Server!BeginPass
  PROVE  MirrorInv' /\ TaskInv' /\ RequestInv'
<1> USE DEF IInv, Server!BeginPass
<1>0. cache' = cache
  OBVIOUS
<1>1. /\ \A r \in Live : holding'[r] = [b \in Sources[r] |-> cache[b]]
      /\ \A r \in BootRegisters : holding'[r] = holding[r]
      /\ \A b \in Blocks : Mirrored(b)' = IF \E r \in Live : b \in Sources[r] THEN cache[b] ELSE 0
  BY UpdateShowsCache
<1>2. MirrorInv'
  <2>1. \A b \in Blocks : cache[b] \in Nat
    BY PollerFacts
  <2>2. \A b \in Blocks : Mirrored(b)' \in Nat /\ Mirrored(b)' <= cache'[b]
    BY <1>0, <1>1, <2>1
  <2>3. \A r \in Live : holding'[r] = [b \in Sources[r] |-> Mirrored(b)']
    BY <1>1, ServerAssumption DEF Live
  <2> QED
    BY <1>1, <2>2, <2>3 DEF MirrorInv, Live
<1>3. TaskInv'
  BY <1>0, <1>1 DEF TaskInv, Live, ServerPass, Server!Mirror
<1>4. RequestInv'
  BY DEF RequestInv, Server!Requests
<1> QED
  BY <1>2, <1>3, <1>4

\* An answer or a write, in its turn or late.
LEMMA ServeIInv ==
  ASSUME IInv, NEW c \in Clients, Server!ServeRead(c) \/ Server!ServeWrite(c),
         turn' = turn \/ turn' = "server"
  PROVE  MirrorInv' /\ TaskInv' /\ RequestInv'
<1> USE DEF IInv
<1>1. cache' = cache /\ holding' = holding /\ phase' = phase
  BY DEF Server!ServeRead, Server!ServeWrite
<1>2. MirrorInv'
  BY <1>1, MirrorKept DEF MirrorInv, Live
<1>3. TaskInv'
  <2>1. \A r \in Registers : bank'[r] = bank[r] \/ bank'[r] = Written
    BY DEF Server!ServeRead, Server!ServeWrite
  <2> QED
    BY <1>1, <2>1 DEF TaskInv, Live
<1>4. RequestInv'
  BY DEF RequestInv, Server!ServeRead, Server!ServeWrite, Server!Requests
<1> QED
  BY <1>2, <1>3, <1>4

\* The end of a pass.
LEMMA EndPassIInv ==
  ASSUME IInv, Server!EndPass
  PROVE  MirrorInv' /\ TaskInv' /\ RequestInv'
<1> USE DEF IInv, Server!EndPass, Server!clientVars
<1>1. MirrorInv'
  BY MirrorKept DEF MirrorInv, Live
<1>2. TaskInv' /\ RequestInv'
  BY DEF TaskInv, RequestInv, Server!Requests
<1> QED
  BY <1>1, <1>2

\* Every step of the composed loop preserves the invariant.
LEMMA StepIInv ==
  ASSUME IInv, [Next]_vars
  PROVE  IInv'
<1>1. Proved!IInv'
  BY PollStepsAgree, PollAssumption, Proved!NextIInv DEF IInv
<1>2. MirrorInv' /\ TaskInv' /\ RequestInv'
  <2>1. CASE Master \/ MasterIdle
    BY <2>1, ServerIdleIInv DEF Master, MasterIdle
  <2>2. CASE ServerPass
    <3>1. CASE Server!BeginPass
      BY <2>2, <3>1, BeginPassIInv
    <3>2. CASE Server!Serve
      <4>1. PICK c \in Clients : Server!ServeRead(c) \/ Server!ServeWrite(c)
        BY <3>2 DEF Server!Serve, IInv, RequestInv
      <4>2. turn' = "server"
        BY <2>2, <4>1 DEF ServerPass, Server!ServeRead, Server!ServeWrite
      <4> QED
        BY <4>1, <4>2, ServeIInv
    <3>3. CASE Server!EndPass
      BY <3>3, EndPassIInv
    <3> QED
      BY <2>2, <3>1, <3>2, <3>3 DEF ServerPass, Server!ServerStep
  <2>3. CASE LateRequest
    <3>1. PICK c \in Clients : Server!ServeRead(c) \/ Server!ServeWrite(c)
      BY <2>3 DEF LateRequest, Server!ServeLate
    <3> QED
      BY <2>3, <3>1, ServeIInv DEF LateRequest
  <2>4. CASE (Poll!Tick \/ \E b \in Blocks : Poll!InverterChanges(b)) /\ UNCHANGED << serverSide, turn >>
    <3>1. cache' = cache
      BY <2>4 DEF Poll!Tick, Poll!InverterChanges, Poll!pollVars
    <3> QED
      BY <2>4, <3>1, ServerIdleIInv
  <2>5. ASSUME NEW c \in Clients, NEW q \in Server!Requests, Server!Send(c, q),
               UNCHANGED << pollSide, turn >>
        PROVE  MirrorInv' /\ TaskInv' /\ RequestInv'
    <3>1. holding' = holding /\ cache' = cache /\ bank' = bank /\ phase' = phase /\ turn' = turn
      BY <2>5 DEF Server!Send, Server!serverVars
    <3>2. MirrorInv' /\ TaskInv'
      BY <3>1, MirrorKept DEF IInv, MirrorInv, TaskInv, Live
    <3>3. RequestInv'
      BY <2>5 DEF IInv, RequestInv, Server!Send, Server!serverVars, Server!Requests
    <3> QED
      BY <3>2, <3>3
  <2>6. CASE UNCHANGED vars
    BY <2>6, ServerIdleIInv DEF vars, pollSide
  <2> QED
    BY <2>1, <2>2, <2>3, <2>4, <2>5, <2>6 DEF Next, LoopStep, Environment
<1> QED
  BY <1>1, <1>2 DEF IInv

\* The invariant holds in every reachable state.
THEOREM Inductive == Spec => []IInv
<1>1. Init => MirrorInv /\ TaskInv /\ RequestInv
  BY InitIInv
<1>2. Init => IInv
  BY <1>1, PollerInit DEF IInv
<1> QED
  BY <1>2, StepIInv, PTL DEF Spec

-----------------------------------------------------------------------------
(* The refinement.                                                         *)

\* The first state shows nothing.
LEMMA InitRefines == Init => View!Init
<1> SUFFICES ASSUME Init PROVE View!Init
  OBVIOUS
<1>1. \A b : Mirrored(b) = 0
  BY InitIInv
<1> QED
  BY <1>1 DEF View!Init, Init, Poll!Init, Server!Init

\* With the map as it is, and no answer and no change of the inverter, nothing
\* happens in the view.
LEMMA Stutters ==
  ASSUME holding' = holding, reply' = reply, inverter' = inverter
  PROVE  UNCHANGED View!vars
BY MirrorKept DEF View!vars

\* BeginPass is a refresh: the view comes up to the cache.
LEMMA BeginPassRefreshes ==
  ASSUME IInv, Server!BeginPass, inverter' = inverter
  PROVE  View!Next
<1> DEFINE v == [b \in Blocks |-> Mirrored(b)']
<1>1. \A b \in Blocks : Mirrored(b)' = IF \E r \in Live : b \in Sources[r] THEN cache[b] ELSE 0
  BY UpdateShowsCache DEF IInv, Server!BeginPass
<1>2. \A b \in Blocks : /\ cache[b] \in 0 .. MaxGen /\ inverter[b] \in 1 .. MaxGen
                        /\ cache[b] <= inverter[b]
  BY PollerFacts DEF IInv
<1>3. \A b \in Blocks : Mirrored(b) \in Nat /\ Mirrored(b) <= Mirrored(b)'
  BY <1>1, <1>2, UnseenBlocks DEF IInv, MirrorInv
<1>4. v \in [Blocks -> 0 .. MaxGen]
  BY <1>1, <1>2, PollAssumption
<1>5. \A b \in Blocks : Mirrored(b)' <= inverter[b]
  BY <1>1, <1>2
<1>6. View!Refresh(v)
  BY <1>3, <1>5 DEF View!Refresh, Server!BeginPass
<1> QED
  BY <1>4, <1>6 DEF View!Next

\* What the bank holds while requests are served is the view, but for writes.
LEMMA BankShowsView ==
  ASSUME IInv, phase = "task", NEW r \in Registers, bank[r] # Written
  PROVE  bank[r] = [b \in Sources[r] |-> IF r \in BootRegisters THEN 0 ELSE Mirrored(b)]
<1>1. bank[r] = holding[r]
  BY DEF IInv, TaskInv
<1>2. CASE r \in BootRegisters
  BY <1>1, <1>2 DEF IInv, MirrorInv
<1>3. CASE r \notin BootRegisters
  <2>1. holding[r] # Unset
    BY <1>3, ComputedIsValue DEF IInv, TaskInv, Live
  <2> QED
    BY <1>1, <1>3, <2>1 DEF IInv, MirrorInv, Live
<1> QED
  BY <1>2, <1>3

\* A read is an answer of the view at this moment.
LEMMA ServeReadAnswers ==
  ASSUME IInv, NEW c \in Clients, Server!ServeRead(c), inverter' = inverter
  PROVE  View!Next
<1> DEFINE points == request[c].points
           overwritten == {r \in points : bank[r] = Written}
<1>1. points \subseteq Registers
  BY ServerAssumption DEF IInv, RequestInv, Server!ServeRead, Server!Requests
<1>2. \A r \in points : bank[r] = IF r \in overwritten THEN Written ELSE View!Shown(r)
  <2> SUFFICES ASSUME NEW r \in points, r \notin overwritten
               PROVE  bank[r] = View!Shown(r)
    OBVIOUS
  <2>1. bank[r] = [b \in Sources[r] |-> IF r \in BootRegisters THEN 0 ELSE Mirrored(b)]
    BY <1>1, BankShowsView DEF Server!ServeRead
  <2>2. Sources[r] \subseteq Blocks
    BY <1>1, ServerAssumption
  <2> QED
    BY <2>1, <2>2 DEF View!Shown
<1>3. View!Answer(c, points, overwritten)
  <2>1. holding' = holding
    BY DEF Server!ServeRead
  <2>2. reply' = [reply EXCEPT ![c] =
                    [r \in points |-> IF r \in overwritten THEN Written ELSE View!Shown(r)]]
    BY <1>2 DEF Server!ServeRead
  <2> QED
    BY <2>1, <2>2, MirrorKept DEF View!Answer
<1> QED
  BY <1>1, <1>3 DEF View!Next

\* Every step of the gateway is a step of the view or leaves it alone.
LEMMA StepRefines ==
  ASSUME IInv, [Next]_vars
  PROVE  [View!Next]_(View!vars)
<1>1. CASE Master \/ MasterIdle
  <2>1. holding' = holding /\ reply' = reply /\ inverter' = inverter
    BY <1>1 DEF Master, MasterIdle, serverSide, pollSide, Poll!MasterStep, Poll!PassGate,
                Poll!StartPoll, Poll!Reply, Poll!NoReply, Poll!processBlock, Poll!FinishPoll
  <2> QED
    BY <2>1, Stutters
<1>2. CASE ServerPass \/ LateRequest
  <2>1. inverter' = inverter
    BY <1>2 DEF ServerPass, LateRequest, pollSide
  <2>2. CASE Server!BeginPass
    BY <2>1, <2>2, BeginPassRefreshes
  <2>3. ASSUME NEW c \in Clients, Server!ServeRead(c)
        PROVE  View!Next
    BY <2>1, <2>3, ServeReadAnswers
  <2>4. ASSUME NEW c \in Clients, Server!ServeWrite(c)
        PROVE  UNCHANGED View!vars
    BY <2>1, <2>4, Stutters DEF Server!ServeWrite
  <2>5. CASE Server!EndPass
    BY <2>1, <2>5, Stutters DEF Server!EndPass, Server!clientVars
  <2>6. todo \subseteq Clients
    BY DEF IInv, RequestInv
  <2> QED
    BY <1>2, <2>2, <2>3, <2>4, <2>5, <2>6
       DEF ServerPass, LateRequest, Server!ServerStep, Server!Serve, Server!ServeLate
<1>3. CASE Environment
  <2>1. ASSUME NEW b \in Blocks, Poll!InverterChanges(b), UNCHANGED serverSide
        PROVE  View!Change(b)
    BY <2>1, MirrorKept DEF Poll!InverterChanges, serverSide, View!Change
  <2>2. CASE Poll!Tick /\ UNCHANGED serverSide
    BY <2>2, Stutters DEF Poll!Tick, serverSide
  <2>3. ASSUME NEW c \in Clients, NEW q \in Server!Requests, Server!Send(c, q),
               UNCHANGED pollSide
        PROVE  UNCHANGED View!vars
    BY <2>3, Stutters DEF Server!Send, Server!serverVars, pollSide
  <2> QED
    BY <1>3, <2>1, <2>2, <2>3 DEF Environment, View!Next
<1>4. CASE UNCHANGED vars
  BY <1>4, Stutters DEF vars, pollSide, serverSide
<1> QED
  BY <1>1, <1>2, <1>3, <1>4 DEF Next, LoopStep

\* The gateway implements the view: however poll cycles fail and requests arrive,
\* loop() shows its clients one monotone view of the inverter, and each reply of
\* mb.task() is taken from it at one moment.
THEOREM Refinement == Spec => ImplementsView
BY InitRefines, StepRefines, Inductive, PTL DEF Spec, ImplementsView, View!Spec

\* End to end, from poll() to mb.task(): a reply shows every block of the last cycle at least as
\* new as it was at the inverter when that cycle began.
THEOREM FreshReplies == Spec => RepliesAreFresh
<1>1. ASSUME IInv, [Next]_vars, NEW c \in Clients, reply'[c] # reply[c],
             NEW r \in DOMAIN reply'[c] \ BootRegisters, reply'[c][r] # Written,
             NEW b \in Sources[r] \cap got
      PROVE  reply'[c][r][b] >= floor[b]
  <2>1. /\ phase = "task" /\ request[c].points \subseteq Registers
        /\ reply'[c] = [p \in request[c].points |-> bank[p]]
    <3>1. PICK d \in Clients : Server!ServeRead(d)
      BY <1>1 DEF IInv, RequestInv, Next, LoopStep, Master, MasterIdle, ServerPass, LateRequest,
                  Environment, vars, serverSide, Server!ServerStep, Server!Serve,
                  Server!ServeLate, Server!BeginPass, Server!ServeWrite, Server!EndPass,
                  Server!clientVars, Server!Send
    <3>2. d = c
      BY <1>1, <3>1 DEF IInv, RequestInv, Server!ServeRead
    <3>3. request[c].points \subseteq Registers
      BY <1>1, <3>1, <3>2, ServerAssumption DEF IInv, RequestInv, Server!ServeRead, Server!Requests
    <3>4. reply'[c] = [p \in request[c].points |-> bank[p]]
      BY <1>1, <3>1, <3>2 DEF IInv, RequestInv, Server!ServeRead
    <3> QED
      BY <3>1, <3>3, <3>4 DEF Server!ServeRead
  <2>2. reply'[c][r] = bank[r] /\ r \in Live
    BY <2>1 DEF Live
  <2>3. bank[r] = [x \in Sources[r] |-> cache[x]]
    BY <1>1, <2>1, <2>2 DEF IInv, TaskInv, Live
  <2>4. cache[b] >= floor[b]
    BY <1>1, PollerFacts DEF IInv
  <2> QED
    BY <2>2, <2>3, <2>4
<1>2. IInv /\ [Next]_vars =>
        [\A c \in Clients : reply'[c] # reply[c] =>
           \A r \in DOMAIN reply'[c] \ BootRegisters : reply'[c][r] # Written =>
             \A b \in Sources[r] \cap got : reply'[c][r][b] >= floor[b]]_vars
  BY <1>1
<1> QED
  BY <1>2, Inductive, PTL DEF Spec, RepliesAreFresh
===============================================================================
