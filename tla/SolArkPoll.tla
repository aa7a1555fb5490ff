------------------------------ MODULE SolArkPoll ------------------------------
(***************************************************************************)
(* The Modbus RTU master: loop_solark (modbus_master.cpp) and the poll     *)
(* cycle of Modbus_SolArkLV (modbus_solark.cpp), with the inverter at the  *)
(* far end of the RS-485 line.                                             *)
(*                                                                         *)
(* The fields decoded from one read block always travel together, so their *)
(* values are abstracted to a generation: inverter[b] counts the changes   *)
(* of the registers of block b at the inverter, and cache[b] is the        *)
(* generation that the last processBlock(b) decoded, 0 being the zeros of  *)
(* the constructor.  The inverter moves between any two steps of a cycle.  *)
(* timestamp_last_report and timestamp_last_failure are written and never  *)
(* read by the firmware; they are left out.                                *)
(***************************************************************************)
EXTENDS Integers, Sequences

CONSTANTS
  Blocks,       \* SolArkBlockType
  ReadBlocks,   \* solark_read_blocks: the blocks in the order poll() reads them
  MillisMod,    \* millis() counts modulo this (2^32 on the board)
  PollRate,     \* SolArkPoll_rate, in ticks of millis()
  MaxLag,       \* bound: ticks between two polls; loop() comes round before millis() wraps
  MaxGen,       \* bound: generations of a block
  MaxCount      \* bound: solark_success_count saturates here

ASSUME ReadBlocksAssumption ==
  /\ ReadBlocks \in Seq(Blocks)
  /\ Len(ReadBlocks) > 0

ASSUME BoundsAssumption ==
  /\ MillisMod \in Nat /\ PollRate \in Nat /\ MaxLag \in Nat
  /\ PollRate < MaxLag
  /\ MaxLag < MillisMod
  /\ MaxGen \in Nat \ {0}
  /\ MaxCount \in Nat \ {0}

VARIABLES
  inverter,              \* generation of each block's registers at the inverter
  cache,                 \* generation held by the decoded fields of each block
  response,              \* ModbusMaster's response buffer: the generation last received
  pc,                    \* where the master is: see Steps
  index,                 \* the loop variable of poll(): position in ReadBlocks
  any_success,
  last_result,
  solark_success_count,
  millis,
  lastSolArkMillis,
  sincePoll,             \* history: ticks since lastSolArkMillis was last written
  floor,                 \* history: inverter when the current or last cycle was started
  got                    \* history: blocks decoded in the current or last cycle

pollVars  == << cache, response, pc, index, any_success, last_result,
                solark_success_count, floor, got >>
timerVars == << millis, lastSolArkMillis, sincePoll >>
vars      == << inverter, pollVars, timerVars >>

\* "gate" is the rest of loop(), up to the rate test at the head of loop_solark.
Steps   == {"gate", "stamp", "request", "process", "finish"}
Results == {"success", "failure"}

CurrentBlock == ReadBlocks[index]

\* Mutant of UnsignedMinus: a signed distance, blind to the wrap.
UnsignedMinusNoWrap(a, b) == IF a >= b THEN a - b ELSE b - a

\* a - b on unsigned long, for a and b below MillisMod.
UnsignedMinus(a, b) == IF a >= b THEN a - b ELSE (a + MillisMod) - b

Init ==
  /\ inverter = [b \in Blocks |-> 1]
  /\ cache = [b \in Blocks |-> 0]
  /\ response = 0
  /\ pc = "gate"
  /\ index = 1
  /\ any_success = FALSE
  /\ last_result = "success"
  /\ solark_success_count = 0
  /\ millis = 0
  /\ lastSolArkMillis = 0
  /\ sincePoll = 0
  /\ floor = [b \in Blocks |-> 0]
  /\ got = {}

-----------------------------------------------------------------------------
(* The environment: the inverter's registers change, and time passes.      *)

InverterChanges(b) ==
  /\ inverter[b] < MaxGen
  /\ inverter' = [inverter EXCEPT ![b] = @ + 1]
  /\ UNCHANGED << pollVars, timerVars >>

Tick ==
  /\ sincePoll < MaxLag
  /\ millis' = (IF millis + 1 = MillisMod THEN 0 ELSE millis + 1)
  /\ sincePoll' = sincePoll + 1
  /\ UNCHANGED << inverter, pollVars, lastSolArkMillis >>

-----------------------------------------------------------------------------
(* loop_solark: the rate test and the stamp each call millis(), and time   *)
(* may pass between the two calls.                                         *)

PollDue == UnsignedMinus(millis, lastSolArkMillis) > PollRate

PassGate ==
  /\ pc = "gate"
  /\ PollDue
  /\ pc' = "stamp"
  /\ UNCHANGED << inverter, cache, response, index, any_success, last_result,
                  solark_success_count, floor, got, timerVars >>

StartPoll ==
  /\ pc = "stamp"
  /\ lastSolArkMillis' = millis
  /\ sincePoll' = 0
  /\ index' = 1
  /\ any_success' = FALSE
  /\ last_result' = "success"
  /\ floor' = inverter
  /\ got' = {}
  /\ pc' = "request"
  /\ UNCHANGED << inverter, cache, response, solark_success_count, millis >>

-----------------------------------------------------------------------------
(* poll(): one blocking readHoldingRegisters per block.                    *)

\* Mutant of NextBlock: the loop stops one block short.
NextBlockShort ==
  /\ index' = index + 1
  /\ pc' = IF index + 1 >= Len(ReadBlocks) THEN "finish" ELSE "request"

NextBlock ==
  /\ index' = index + 1
  /\ pc' = IF index = Len(ReadBlocks) THEN "finish" ELSE "request"

\* Mutant of Reply: the buffer is read before the answer is in it.
ReplyTooEarly ==
  /\ pc = "request"
  /\ last_result' = "success"
  /\ pc' = "process"
  /\ UNCHANGED << inverter, cache, response, index, any_success,
                  solark_success_count, floor, got, timerVars >>

\* The inverter answers: the registers it sends are those of this moment.
Reply ==
  /\ pc = "request"
  /\ response' = inverter[CurrentBlock]
  /\ last_result' = "success"
  /\ pc' = "process"
  /\ UNCHANGED << inverter, cache, index, any_success, solark_success_count,
                  floor, got, timerVars >>

\* Mutant of NoReply: the result is not tested before the block is decoded.
NoReplyDecoded ==
  /\ pc = "request"
  /\ last_result' = "failure"
  /\ pc' = "process"
  /\ UNCHANGED << inverter, cache, response, index, any_success,
                  solark_success_count, floor, got, timerVars >>

\* Mutant of NoReply: a failed block sends the cycle back to its first block.
NoReplyRestarted ==
  /\ pc = "request"
  /\ last_result' = "failure"
  /\ index' = 1
  /\ UNCHANGED << inverter, cache, response, pc, any_success,
                  solark_success_count, floor, got, timerVars >>

\* Timeout, CRC error or exception reply: the response buffer keeps what an
\* earlier request left in it, and the cycle goes on with the next block.
NoReply ==
  /\ pc = "request"
  /\ last_result' = "failure"
  /\ NextBlock
  /\ UNCHANGED << inverter, cache, response, any_success,
                  solark_success_count, floor, got, timerVars >>

\* Mutant of processBlock: the block is decoded into the next block's fields.
processBlockNext ==
  /\ pc = "process"
  /\ cache' = [cache EXCEPT ![ReadBlocks[(index % Len(ReadBlocks)) + 1]] = response]
  /\ any_success' = TRUE
  /\ got' = got \cup {CurrentBlock}
  /\ NextBlock
  /\ UNCHANGED << inverter, response, last_result, solark_success_count,
                  floor, timerVars >>

processBlock ==
  /\ pc = "process"
  /\ cache' = [cache EXCEPT ![CurrentBlock] = response]
  /\ any_success' = TRUE
  /\ got' = got \cup {CurrentBlock}
  /\ NextBlock
  /\ UNCHANGED << inverter, response, last_result, solark_success_count,
                  floor, timerVars >>

\* Mutant of PollResult: the result of the last block decides.
PollResultLast == last_result

\* The value poll() returns.
PollResult == IF any_success THEN "success" ELSE last_result

\* Mutant of FinishPoll: the cycle is counted before its result is tested.
FinishPollCounted ==
  /\ pc = "finish"
  /\ solark_success_count' =
       IF solark_success_count < MaxCount THEN solark_success_count + 1 ELSE solark_success_count
  /\ pc' = "gate"
  /\ UNCHANGED << inverter, cache, response, index, any_success, last_result,
                  floor, got, timerVars >>

\* Mutant of FinishPoll: the count is of the cycles that succeeded in a row.
FinishPollReset ==
  /\ pc = "finish"
  /\ solark_success_count' =
       IF PollResult = "success"
       THEN IF solark_success_count < MaxCount THEN solark_success_count + 1 ELSE solark_success_count
       ELSE 0
  /\ pc' = "gate"
  /\ UNCHANGED << inverter, cache, response, index, any_success, last_result,
                  floor, got, timerVars >>

FinishPoll ==
  /\ pc = "finish"
  /\ solark_success_count' =
       IF PollResult = "success" /\ solark_success_count < MaxCount
       THEN solark_success_count + 1
       ELSE solark_success_count
  /\ pc' = "gate"
  /\ UNCHANGED << inverter, cache, response, index, any_success, last_result,
                  floor, got, timerVars >>

-----------------------------------------------------------------------------
MasterStep == PassGate \/ StartPoll \/ Reply \/ NoReply \/ processBlock \/ FinishPoll

Next ==
  \/ \E b \in Blocks : InverterChanges(b)
  \/ Tick
  \/ MasterStep

\* loop() runs for ever, so the master always takes its next step, and a
\* request ends in a reply or, after the library's timeout, without one.
Fairness == WF_vars(Tick) /\ WF_vars(MasterStep)

Spec == Init /\ [][Next]_vars /\ Fairness

\* The line lets block b through now and then: requested for ever, it is
\* answered for ever.
LineWorksFor(b) == SF_vars(Reply /\ CurrentBlock = b)

-----------------------------------------------------------------------------
TypeOK ==
  /\ inverter \in [Blocks -> 1 .. MaxGen]
  /\ cache \in [Blocks -> 0 .. MaxGen]
  /\ response \in 0 .. MaxGen
  /\ pc \in Steps
  /\ index \in 1 .. Len(ReadBlocks) + 1
  /\ any_success \in BOOLEAN
  /\ last_result \in Results
  /\ solark_success_count \in 0 .. MaxCount
  /\ millis \in 0 .. MillisMod - 1
  /\ lastSolArkMillis \in 0 .. MillisMod - 1
  /\ sincePoll \in 0 .. MaxLag
  /\ floor \in [Blocks -> 0 .. MaxGen]
  /\ got \in SUBSET Blocks

\* The cache never holds a value of a block the inverter did not have for that
\* block: a reply decoded under the wrong block, or a buffer left over from
\* another request, would break this.
CacheFromInverter == \A b \in Blocks : cache[b] <= inverter[b]

\* What a cycle decoded is no older than the start of that cycle: a block read
\* with success shows nothing the inverter had already replaced when poll()
\* was entered.
CycleIsFresh == \A b \in got : cache[b] >= floor[b]

\* poll() reports failure exactly when no block of the cycle was decoded, so a
\* cycle that changed the cache is always counted.
ReportMatchesCycle == pc = "finish" => (PollResult = "success" <=> got # {})

\* A non-zero success count means that some block of the cache was read from
\* the inverter.
CountMeansData ==
  solark_success_count > 0 => \E b \in Blocks : cache[b] # 0

\* No step replaces a decoded value by an older one.
CacheNeverGoesBack == [][\A b \in Blocks : cache'[b] >= cache[b]]_vars

\* Two polls are more than SolArkPoll_rate apart in real time, also across the
\* wrap of millis() and whatever time passes between test and stamp.
PollSpacing == [][pc' = "request" /\ pc = "stamp" => sincePoll > PollRate]_vars

\* A cycle ends even when the inverter never answers, and loop() gets control back.
PollEnds == pc # "gate" ~> pc = "gate"

\* Every change of a block reaches the cache, or is overtaken by a later one that
\* does, when the line lets this block through now and then: it does not matter
\* what happens to the other blocks of the cycle.
ChangesReachCache ==
  \A b \in Blocks :
    LineWorksFor(b) => \A g \in 1 .. MaxGen : inverter[b] = g ~> cache[b] >= g

=============================================================================
