-------------------------- MODULE SolArkPoll_proofs --------------------------
(***************************************************************************)
(* Proofs about SolArkPoll, for any set of blocks, any reading order, any  *)
(* modulus of millis(), any poll rate and any bounds.                      *)
(***************************************************************************)
EXTENDS SolArkPoll, TLAPS

\* The reading loop: where the index stands, and what a reply in the response
\* buffer is worth until it is decoded.
LoopInv ==
  /\ pc \in {"request", "process"} => index <= Len(ReadBlocks)
  /\ pc = "process" =>
       /\ response > 0
       /\ response <= inverter[CurrentBlock]
       /\ response >= floor[CurrentBlock]
       /\ response >= cache[CurrentBlock]

\* The bookkeeping of a cycle agrees with what the cycle decoded.
CycleInv ==
  /\ \A b \in Blocks : floor[b] <= inverter[b]
  /\ \A b \in got : cache[b] # 0
  /\ pc \in {"request", "process", "finish"} => (any_success <=> got # {})
  /\ (pc = "request" /\ index > 1 /\ ~any_success) => last_result = "failure"
  /\ (pc = "finish" /\ ~any_success) => last_result = "failure"

\* The unsigned difference is the true time since the last stamp, and the
\* rate test cannot be undone by time passing before the stamp.
TimerInv ==
  /\ UnsignedMinus(millis, lastSolArkMillis) = sincePoll
  /\ pc = "stamp" => sincePoll > PollRate

IInv ==
  /\ TypeOK
  /\ CacheFromInverter
  /\ CycleIsFresh
  /\ CountMeansData
  /\ LoopInv
  /\ CycleInv
  /\ TimerInv

-----------------------------------------------------------------------------
\* The block at a position of the reading order is a block.
LEMMA CurrentBlockInBlocks ==
  ASSUME index \in 1 .. Len(ReadBlocks)
  PROVE  CurrentBlock \in Blocks
BY ReadBlocksAssumption DEF CurrentBlock

\* The inductive invariant holds when the firmware has booted.
LEMMA InitIInv == Init => IInv
<1> SUFFICES ASSUME Init PROVE IInv
  OBVIOUS
<1> USE BoundsAssumption, ReadBlocksAssumption DEF Init
<1>1. TypeOK
  <2>1. inverter \in [Blocks -> 1 .. MaxGen] /\ cache \in [Blocks -> 0 .. MaxGen]
    OBVIOUS
  <2>2. index \in 1 .. Len(ReadBlocks) + 1
    OBVIOUS
  <2>3. floor \in [Blocks -> 0 .. MaxGen] /\ got \in SUBSET Blocks
    OBVIOUS
  <2>4. /\ response \in 0 .. MaxGen /\ solark_success_count \in 0 .. MaxCount
        /\ millis \in 0 .. MillisMod - 1 /\ lastSolArkMillis \in 0 .. MillisMod - 1
        /\ sincePoll \in 0 .. MaxLag
    OBVIOUS
  <2> QED
    BY <2>1, <2>2, <2>3, <2>4 DEF TypeOK, Steps, Results
<1>2. CacheFromInverter /\ CycleIsFresh /\ CountMeansData
  BY DEF CacheFromInverter, CycleIsFresh, CountMeansData
<1>3. LoopInv /\ CycleInv
  BY DEF LoopInv, CycleInv
<1>4. TimerInv
  BY DEF TimerInv, UnsignedMinus
<1> QED
  BY <1>1, <1>2, <1>3, <1>4 DEF IInv

-----------------------------------------------------------------------------
(* One lemma per action: each preserves the inductive invariant.           *)

\* A change at the inverter only raises a generation.
LEMMA InverterChangesIInv ==
  ASSUME IInv, NEW b \in Blocks, InverterChanges(b)
  PROVE  IInv'
<1> USE BoundsAssumption, ReadBlocksAssumption DEF IInv, InverterChanges, pollVars, timerVars
<1>1. TypeOK'
  <2>1. inverter' \in [Blocks -> 1 .. MaxGen]
    BY DEF TypeOK
  <2> QED
    BY <2>1 DEF TypeOK
<1>2. \A c \in Blocks : inverter'[c] >= inverter[c]
  BY DEF TypeOK
<1>3. CacheFromInverter'
  BY <1>2 DEF TypeOK, CacheFromInverter
<1>4. (CycleIsFresh /\ CountMeansData /\ TimerInv)'
  BY DEF CycleIsFresh, CountMeansData, TimerInv, UnsignedMinus
<1>5. LoopInv'
  <2>1. CurrentBlock' = CurrentBlock
    BY DEF CurrentBlock
  <2>2. pc = "process" => CurrentBlock \in Blocks
    BY CurrentBlockInBlocks DEF TypeOK, LoopInv
  <2>3. pc = "process" => response <= inverter'[CurrentBlock]
    BY <1>2, <2>2 DEF TypeOK, LoopInv
  <2> QED
    BY <2>1, <2>3 DEF LoopInv
<1>6. CycleInv'
  BY <1>2 DEF TypeOK, CycleInv
<1> QED
  BY <1>1, <1>3, <1>4, <1>5, <1>6

\* Time passing keeps the unsigned difference equal to the true one.
LEMMA TickIInv ==
  ASSUME IInv, Tick
  PROVE  IInv'
<1> USE BoundsAssumption, ReadBlocksAssumption DEF IInv, Tick, pollVars
<1>1. TypeOK'
  BY DEF TypeOK
<1>2. (CacheFromInverter /\ CycleIsFresh /\ CountMeansData)'
  BY DEF CacheFromInverter, CycleIsFresh, CountMeansData
<1>3. (LoopInv /\ CycleInv)'
  BY DEF LoopInv, CycleInv, CurrentBlock
<1>4. TimerInv'
  BY DEF TypeOK, TimerInv, UnsignedMinus
<1> QED
  BY <1>1, <1>2, <1>3, <1>4

\* The gate is passed only when more than PollRate ticks have gone by.
LEMMA PassGateIInv ==
  ASSUME IInv, PassGate
  PROVE  IInv'
<1> USE BoundsAssumption, ReadBlocksAssumption DEF IInv, PassGate, timerVars
<1>1. TypeOK'
  BY DEF TypeOK, Steps
<1>2. (CacheFromInverter /\ CycleIsFresh /\ CountMeansData)'
  BY DEF CacheFromInverter, CycleIsFresh, CountMeansData
<1>3. (LoopInv /\ CycleInv)'
  BY DEF LoopInv, CycleInv
<1>4. TimerInv'
  BY DEF TimerInv, UnsignedMinus, PollDue
<1> QED
  BY <1>1, <1>2, <1>3, <1>4

\* The start of a cycle.
LEMMA StartPollIInv ==
  ASSUME IInv, StartPoll
  PROVE  IInv'
<1> USE BoundsAssumption, ReadBlocksAssumption DEF IInv, StartPoll
<1>1. TypeOK'
  <2>1. floor' \in [Blocks -> 0 .. MaxGen]
    BY DEF TypeOK
  <2>2. index' \in 1 .. Len(ReadBlocks) + 1
    OBVIOUS
  <2>3. got' \in SUBSET Blocks /\ sincePoll' \in 0 .. MaxLag
    OBVIOUS
  <2>4. any_success' \in BOOLEAN /\ last_result' \in Results /\ pc' \in Steps
    BY DEF Steps, Results
  <2>5. lastSolArkMillis' \in 0 .. MillisMod - 1
    BY DEF TypeOK
  <2> QED
    BY <2>1, <2>2, <2>3, <2>4, <2>5 DEF TypeOK
<1>2. (CacheFromInverter /\ CycleIsFresh /\ CountMeansData)'
  BY DEF CacheFromInverter, CycleIsFresh, CountMeansData
<1>3. LoopInv'
  BY DEF LoopInv
<1>4. CycleInv'
  BY DEF CycleInv, TypeOK
<1>5. TimerInv'
  BY DEF TypeOK, TimerInv, UnsignedMinus
<1> QED
  BY <1>1, <1>2, <1>3, <1>4, <1>5

\* A reply carries what the inverter holds now, which is no older than the
\* start of the cycle nor than the cache.
LEMMA ReplyIInv ==
  ASSUME IInv, Reply
  PROVE  IInv'
<1> USE BoundsAssumption, ReadBlocksAssumption DEF IInv, Reply, timerVars
<1>1. index \in 1 .. Len(ReadBlocks) /\ CurrentBlock \in Blocks
  BY CurrentBlockInBlocks DEF TypeOK, LoopInv
<1>2. TypeOK'
  BY <1>1 DEF TypeOK, Steps, Results
<1>3. (CacheFromInverter /\ CycleIsFresh /\ CountMeansData)'
  BY DEF CacheFromInverter, CycleIsFresh, CountMeansData
<1>4. LoopInv'
  BY <1>1 DEF LoopInv, TypeOK, CurrentBlock, CacheFromInverter, CycleInv
<1>5. CycleInv'
  BY DEF CycleInv
<1>6. TimerInv'
  BY DEF TimerInv, UnsignedMinus
<1> QED
  BY <1>2, <1>3, <1>4, <1>5, <1>6

\* A failed read moves on and leaves the cache alone.
LEMMA NoReplyIInv ==
  ASSUME IInv, NoReply
  PROVE  IInv'
<1> USE BoundsAssumption, ReadBlocksAssumption DEF IInv, NoReply, NextBlock, timerVars
<1>1. index \in 1 .. Len(ReadBlocks)
  BY DEF TypeOK, LoopInv
<1>2. TypeOK'
  BY <1>1 DEF TypeOK, Steps, Results
<1>3. (CacheFromInverter /\ CycleIsFresh /\ CountMeansData)'
  BY DEF CacheFromInverter, CycleIsFresh, CountMeansData
<1>4. LoopInv'
  BY <1>1 DEF LoopInv
<1>5. CycleInv'
  BY <1>1 DEF CycleInv
<1>6. TimerInv'
  BY DEF TimerInv, UnsignedMinus
<1> QED
  BY <1>2, <1>3, <1>4, <1>5, <1>6

\* Decoding a block stores the reply that LoopInv vouches for.
LEMMA processBlockIInv ==
  ASSUME IInv, processBlock
  PROVE  IInv'
<1> USE BoundsAssumption, ReadBlocksAssumption DEF IInv, processBlock, NextBlock, timerVars
<1>1. index \in 1 .. Len(ReadBlocks) /\ CurrentBlock \in Blocks
  BY CurrentBlockInBlocks DEF TypeOK, LoopInv
<1>2. /\ response > 0 /\ response <= inverter[CurrentBlock]
      /\ response >= floor[CurrentBlock]
  BY DEF LoopInv
<1>3. cache'[CurrentBlock] = response
  BY <1>1 DEF TypeOK
<1>4. \A b \in Blocks : b # CurrentBlock => cache'[b] = cache[b]
  BY <1>1 DEF TypeOK
<1>5. TypeOK'
  BY <1>1 DEF TypeOK, Steps
<1>6. CacheFromInverter'
  BY <1>1, <1>2, <1>3, <1>4 DEF CacheFromInverter
<1>7. CycleIsFresh'
  BY <1>1, <1>2, <1>3, <1>4 DEF CycleIsFresh, TypeOK
<1>8. CountMeansData'
  BY <1>1, <1>2, <1>3 DEF CountMeansData, TypeOK
<1>9. LoopInv'
  BY <1>1 DEF LoopInv
<1>10. CycleInv'
  BY <1>1, <1>2, <1>3, <1>4 DEF CycleInv, TypeOK
<1>11. TimerInv'
  BY DEF TimerInv, UnsignedMinus
<1> QED
  BY <1>5, <1>6, <1>7, <1>8, <1>9, <1>10, <1>11

\* The count goes up only when the cycle decoded a block.
LEMMA FinishPollIInv ==
  ASSUME IInv, FinishPoll
  PROVE  IInv'
<1> USE BoundsAssumption, ReadBlocksAssumption DEF IInv, FinishPoll, timerVars
<1>1. TypeOK'
  BY DEF TypeOK, Steps
<1>2. (CacheFromInverter /\ CycleIsFresh)'
  BY DEF CacheFromInverter, CycleIsFresh
<1>3. CountMeansData'
  <2>1. CASE any_success
    <3>1. PICK b \in got : TRUE
      BY <2>1 DEF CycleInv
    <3>2. b \in Blocks /\ cache[b] # 0
      BY <3>1 DEF CycleInv, TypeOK
    <3> QED
      BY <3>2 DEF CountMeansData
  <2>2. CASE ~any_success
    <3>1. solark_success_count' = solark_success_count
      BY <2>2 DEF CycleInv, PollResult
    <3> QED
      BY <3>1 DEF CountMeansData
  <2> QED
    BY <2>1, <2>2
<1>4. (LoopInv /\ CycleInv)'
  BY DEF LoopInv, CycleInv
<1>5. TimerInv'
  BY DEF TimerInv, UnsignedMinus
<1> QED
  BY <1>1, <1>2, <1>3, <1>4, <1>5

\* Every step of the specification preserves the inductive invariant.
LEMMA NextIInv == IInv /\ [Next]_vars => IInv'
<1> SUFFICES ASSUME IInv, [Next]_vars PROVE IInv'
  OBVIOUS
<1>1. ASSUME NEW b \in Blocks, InverterChanges(b) PROVE IInv'
  BY <1>1, InverterChangesIInv
<1>2. CASE Tick
  BY <1>2, TickIInv
<1>3. CASE MasterStep
  BY <1>3, PassGateIInv, StartPollIInv, ReplyIInv, NoReplyIInv,
     processBlockIInv, FinishPollIInv DEF MasterStep
<1>4. CASE UNCHANGED vars
  BY <1>4 DEF vars, pollVars, timerVars, IInv, TypeOK, CacheFromInverter,
     CycleIsFresh, CountMeansData, LoopInv, CycleInv, TimerInv, CurrentBlock,
     UnsignedMinus
<1> QED
  BY <1>1, <1>2, <1>3, <1>4 DEF Next

-----------------------------------------------------------------------------
\* Every reachable state satisfies the inductive invariant.
THEOREM Inductive == Spec => []IInv
BY InitIInv, NextIInv, PTL DEF Spec

\* Type correctness of the master's state.
THEOREM TypeCorrect == Spec => []TypeOK
<1>1. IInv => TypeOK
  BY DEF IInv
<1> QED
  BY <1>1, Inductive, PTL

\* The cache holds, for each block, a value the inverter had for that block:
\* processBlock never decodes a buffer that another request left.
THEOREM CacheIsReal == Spec => []CacheFromInverter
<1>1. IInv => CacheFromInverter
  BY DEF IInv
<1> QED
  BY <1>1, Inductive, PTL

\* A block that poll() decoded in a cycle is no older than the start of the cycle.
THEOREM CyclesAreFresh == Spec => []CycleIsFresh
<1>1. IInv => CycleIsFresh
  BY DEF IInv
<1> QED
  BY <1>1, Inductive, PTL

\* poll() reports success exactly when the cycle decoded some block.
THEOREM ReportIsHonest == Spec => []ReportMatchesCycle
<1>1. IInv => ReportMatchesCycle
  BY DEF IInv, CycleInv, ReportMatchesCycle, PollResult
<1> QED
  BY <1>1, Inductive, PTL

\* A non-zero solark_success_count means that some block was decoded.
THEOREM CountIsHonest == Spec => []CountMeansData
<1>1. IInv => CountMeansData
  BY DEF IInv
<1> QED
  BY <1>1, Inductive, PTL

\* No step takes a block of the cache back.
LEMMA StepNotBack ==
  IInv /\ [Next]_vars => \A b \in Blocks : cache'[b] >= cache[b]
<1> SUFFICES ASSUME IInv, [Next]_vars, NEW b \in Blocks
             PROVE  cache'[b] >= cache[b]
  OBVIOUS
<1>1. CASE processBlock
  <2>1. response >= cache[CurrentBlock] /\ response \in Nat
    BY <1>1, BoundsAssumption DEF processBlock, IInv, LoopInv, TypeOK
  <2>2. cache'[b] = IF b = CurrentBlock THEN response ELSE cache[b]
    BY <1>1 DEF processBlock, IInv, TypeOK
  <2> QED
    BY <2>1, <2>2 DEF IInv, TypeOK
<1>2. CASE ~processBlock
  <2>1. cache' = cache
    BY <1>2 DEF Next, MasterStep, InverterChanges, Tick, PassGate, StartPoll,
       Reply, NoReply, FinishPoll, vars, pollVars
  <2> QED
    BY <2>1 DEF IInv, TypeOK
<1> QED
  BY <1>1, <1>2

\* A decoded value is never replaced by an older one.
THEOREM NoStepBack == Spec => CacheNeverGoesBack
<1>1. IInv /\ [Next]_vars => [\A b \in Blocks : cache'[b] >= cache[b]]_vars
  BY StepNotBack
<1> QED
  BY <1>1, Inductive, PTL DEF Spec, CacheNeverGoesBack

\* Two polls are more than the poll rate apart, also across the wrap of millis().
THEOREM PollsAreSpaced == Spec => PollSpacing
<1>1. IInv /\ [Next]_vars =>
        [pc' = "request" /\ pc = "stamp" => sincePoll > PollRate]_vars
  BY DEF IInv, TimerInv
<1> QED
  BY <1>1, Inductive, PTL DEF Spec, PollSpacing
=============================================================================
