------------------------ MODULE SunSpecServer_proofs ------------------------
(***************************************************************************)
(* Proofs about SunSpecServer, for any points and sources, any clients and *)
(* any windows of their requests.                                          *)
(***************************************************************************)
EXTENDS SunSpecServer, TLAPS

\* While mb.task() runs, the bank shows the cache as it is, but for what clients
\* have written since the mirror.
BankInv ==
  phase = "task" =>
    \A r \in Registers :
      /\ r \in LiveRegisters => holding[r] = Computed(r)
      /\ bank[r] = holding[r] \/ (bank[r] = Written /\ r \in dirty)

IInv == TypeOK /\ BankInv /\ ReplyUntorn

-----------------------------------------------------------------------------
\* A value computed from the cache is a value: neither of the two marks.
LEMMA ComputedIsValue ==
  ASSUME NEW r \in Registers, cache \in [Blocks -> 0 .. MaxGen]
  PROVE  /\ Computed(r) \in Generations(r)
         /\ Computed(r) # Written /\ Computed(r) # Unset
<1>1. Sources[r] \subseteq Blocks
  BY MapAssumption
<1>2. Computed(r) \in Generations(r)
  BY <1>1 DEF Computed, Generations
<1> QED
  BY <1>2, MarksAssumption DEF Generations

\* What the firmware keeps in its own map is never what a client wrote.
LEMMA HoldingNotWritten ==
  ASSUME TypeOK, NEW r \in Registers
  PROVE  holding[r] # Written
BY MarksAssumption DEF TypeOK, Generations

\* What the bank tells of the inverter is the cache of this moment.
LEMMA BankTells ==
  ASSUME IInv, phase = "task", NEW r \in LiveRegisters, bank[r] # Written
  PROVE  bank[r] = Computed(r)
BY DEF IInv, BankInv, LiveRegisters

-----------------------------------------------------------------------------
\* After setup_modbus_server the invariant holds.
LEMMA InitIInv == Init => IInv
<1> SUFFICES ASSUME Init PROVE IInv
  OBVIOUS
<1> USE DEF Init, setup_modbus_server, setup_sunspec_models
<1>1. cache \in [Blocks -> 0 .. MaxGen]
  BY MapAssumption
<1>2. \A r \in Registers : Computed(r) \in Generations(r)
  BY <1>1, ComputedIsValue
<1>3. TypeOK
  BY <1>1, <1>2 DEF TypeOK, Requests
<1>4. BankInv
  BY DEF BankInv
<1>5. ReplyUntorn
  <2>1. \A c \in Clients : Telling(reply[c]) = {}
    BY DEF Telling
  <2> QED
    BY <2>1 DEF ReplyUntorn
<1> QED
  BY <1>3, <1>4, <1>5 DEF IInv

\* Replies that stay as they are stay untorn.
LEMMA RepliesKept ==
  ASSUME ReplyUntorn, reply' = reply
  PROVE  ReplyUntorn'
BY DEF ReplyUntorn, Telling, LiveRegisters

\* Poll cycles come between the passes, so they disturb nothing but the cache.
LEMMA PollCycleIInv ==
  ASSUME IInv, NEW S \in SUBSET Blocks, PollCycle(S)
  PROVE  IInv'
<1> USE DEF IInv, PollCycle, serverVars, clientVars
<1>1. TypeOK'
  <2>1. cache' \in [Blocks -> 0 .. MaxGen]
    BY MapAssumption DEF TypeOK
  <2> QED
    BY <2>1 DEF TypeOK, Generations
<1>2. BankInv'
  BY DEF BankInv
<1> QED
  BY <1>1, <1>2, RepliesKept

\* A request that arrives changes nothing but itself.
LEMMA SendIInv ==
  ASSUME IInv, NEW c \in Clients, NEW q \in Requests, Send(c, q)
  PROVE  IInv'
<1> USE DEF IInv, Send, serverVars
<1>1. TypeOK'
  BY DEF TypeOK, Generations
<1>2. BankInv'
  BY DEF BankInv, Computed, LiveRegisters
<1> QED
  BY <1>1, <1>2, RepliesKept

\* Update and mirror leave map and bank equal, and both up to date.
LEMMA BeginPassIInv ==
  ASSUME IInv, BeginPass
  PROVE  IInv'
<1> USE DEF IInv, BeginPass, update_sunspec_from_solark, Mirror
<1>1. \A r \in Registers : holding'[r] \in Generations(r) \cup {Unset}
  BY ComputedIsValue DEF TypeOK
<1>2. TypeOK'
  BY <1>1 DEF TypeOK, Generations
<1>3. BankInv'
  BY DEF BankInv, LiveRegisters, Computed
<1> QED
  BY <1>2, <1>3, RepliesKept

\* A read is answered from one bank at one moment.
LEMMA ServeReadIInv ==
  ASSUME IInv, NEW c \in Clients, ServeRead(c)
  PROVE  IInv'
<1> USE DEF IInv, ServeRead
<1>1. TypeOK'
  BY DEF TypeOK, Generations
<1>2. BankInv'
  BY DEF BankInv, Computed, LiveRegisters
<1>3. request[c].points \subseteq Registers
  BY MapAssumption DEF TypeOK, Requests
<1>4. \A r \in Telling(reply'[c]) : reply'[c][r] = Computed(r)
  BY <1>3, BankTells DEF TypeOK, Telling, LiveRegisters
<1>5. ReplyUntorn'
  <2> SUFFICES ASSUME NEW d \in Clients,
                      NEW r \in Telling(reply'[d]), NEW s \in Telling(reply'[d]),
                      NEW b \in Sources[r] \cap Sources[s]
               PROVE  reply'[d][r][b] = reply'[d][s][b]
    BY DEF ReplyUntorn, Telling, LiveRegisters
  <2>1. CASE d = c
    <3>1. reply'[d][r] = Computed(r) /\ reply'[d][s] = Computed(s)
      BY <2>1, <1>4
    <3>2. Computed(r)[b] = cache[b] /\ Computed(s)[b] = cache[b]
      BY DEF Computed
    <3> QED
      BY <3>1, <3>2
  <2>2. CASE d # c
    <3>1. reply'[d] = reply[d]
      BY <2>2 DEF TypeOK
    <3> QED
      BY <3>1 DEF ReplyUntorn
  <2> QED
    BY <2>1, <2>2
<1> QED
  BY <1>1, <1>2, <1>5

\* A write marks the points it covers.
LEMMA ServeWriteIInv ==
  ASSUME IInv, NEW c \in Clients, ServeWrite(c)
  PROVE  IInv'
<1> USE DEF IInv, ServeWrite
<1>1. request[c].points \subseteq Registers
  BY MapAssumption DEF TypeOK, Requests
<1>2. TypeOK'
  BY <1>1 DEF TypeOK, Generations
<1>3. BankInv'
  BY DEF BankInv, Computed, LiveRegisters
<1> QED
  BY <1>2, <1>3, RepliesKept

\* The end of a pass leaves the bank as it is.
LEMMA EndPassIInv ==
  ASSUME IInv, EndPass
  PROVE  IInv'
<1> USE DEF IInv, EndPass, clientVars
<1>1. TypeOK'
  BY DEF TypeOK, Generations
<1>2. BankInv'
  BY DEF BankInv
<1> QED
  BY <1>1, <1>2, RepliesKept

-----------------------------------------------------------------------------
\* Every step preserves the invariant.
LEMMA StepIInv == IInv /\ [Next]_vars => IInv'
<1> SUFFICES ASSUME IInv, [Next]_vars PROVE IInv'
  OBVIOUS
<1>1. ASSUME NEW S \in SUBSET Blocks, PollCycle(S) PROVE IInv'
  BY <1>1, PollCycleIInv
<1>2. ASSUME NEW c \in Clients, NEW q \in Requests, Send(c, q) PROVE IInv'
  BY <1>2, SendIInv
<1>3. CASE BeginPass
  BY <1>3, BeginPassIInv
<1>4. ASSUME NEW c \in Clients, ServeRead(c) PROVE IInv'
  BY <1>4, ServeReadIInv
<1>5. ASSUME NEW c \in Clients, ServeWrite(c) PROVE IInv'
  BY <1>5, ServeWriteIInv
<1>6. CASE EndPass
  BY <1>6, EndPassIInv
<1>7. CASE UNCHANGED vars
  BY <1>7 DEF IInv, TypeOK, Generations, BankInv, Computed, LiveRegisters, ReplyUntorn, Telling,
              vars, serverVars, clientVars
<1>8. todo \subseteq Clients
  BY DEF IInv, TypeOK
<1> QED
  BY <1>1, <1>2, <1>3, <1>4, <1>5, <1>6, <1>7, <1>8 DEF Next, ServerStep, Serve, ServeLate

\* The inductive invariant of the server: types, the bank against the cache while
\* requests are served, and whole replies.
THEOREM Inductive == Spec => []IInv
BY InitIInv, StepIInv, PTL DEF Spec

\* Every variable of the server keeps its type.
THEOREM TypeCorrect == Spec => []TypeOK
<1>1. IInv => TypeOK
  BY DEF IInv
<1> QED
  BY <1>1, Inductive, PTL

\* No reply of loop_modbus_server is torn between two readings of a block,
\* whichever points a request covers and however requests and polls interleave.
THEOREM RepliesWhole == Spec => []ReplyUntorn
<1>1. IInv => ReplyUntorn
  BY DEF IInv
<1> QED
  BY <1>1, Inductive, PTL

-----------------------------------------------------------------------------
\* Only a read changes a reply, that of its own client, to what the bank holds.
LEMMA OnlyReadsReply ==
  ASSUME IInv, [Next]_vars, NEW c \in Clients, reply'[c] # reply[c]
  PROVE  /\ ServeRead(c)
         /\ reply'[c] = [r \in request[c].points |-> bank[r]]
         /\ request[c].points \subseteq Registers
<1>1. ASSUME NEW d \in Clients, ServeRead(d) PROVE d = c
  BY <1>1 DEF ServeRead, IInv, TypeOK
<1>2. ServeRead(c)
  <2>1. todo \subseteq Clients
    BY DEF IInv, TypeOK
  <2>2. PICK d \in Clients : ServeRead(d)
    BY <2>1 DEF Next, PollCycle, Send, ServerStep, Serve, ServeLate, BeginPass, ServeWrite, EndPass,
                vars, serverVars, clientVars
  <2> QED
    BY <2>2, <1>1
<1>3. request[c].points \subseteq Registers
  BY <1>2, MapAssumption DEF ServeRead, IInv, TypeOK, Requests
<1> QED
  BY <1>2, <1>3 DEF ServeRead, IInv, TypeOK

\* A reply of loop_modbus_server shows the cache of the moment it is served.
THEOREM RepliesCurrent == Spec => RepliesAreCurrent
<1>1. ASSUME IInv, [Next]_vars, NEW c \in Clients, reply'[c] # reply[c],
             NEW r \in Telling(reply'[c])
      PROVE  reply'[c][r] = Computed(r)
  <2>1. /\ phase = "task"
        /\ reply'[c] = [p \in request[c].points |-> bank[p]]
    BY <1>1, OnlyReadsReply DEF ServeRead
  <2>2. r \in LiveRegisters /\ reply'[c][r] = bank[r] /\ bank[r] # Written
    BY <2>1 DEF Telling
  <2> QED
    BY <1>1, <2>1, <2>2, BankTells
<1>2. IInv /\ [Next]_vars =>
        [\A c \in Clients : reply'[c] # reply[c] =>
           \A r \in Telling(reply'[c]) : reply'[c][r] = Computed(r)]_vars
  BY <1>1
<1> QED
  BY <1>2, Inductive, PTL DEF Spec, RepliesAreCurrent

\* A client's write is gone with the next mirror: a reply shows it only in the
\* pass that served it.
THEOREM WritesUndone == Spec => WritesLastOnePass
<1>1. ASSUME IInv, [Next]_vars, NEW c \in Clients, reply'[c] # reply[c],
             NEW r \in DOMAIN reply'[c], reply'[c][r] = Written
      PROVE  r \in dirty
  <2>1. /\ ServeRead(c)
        /\ reply'[c] = [p \in request[c].points |-> bank[p]]
        /\ request[c].points \subseteq Registers
    BY <1>1, OnlyReadsReply
  <2>2. phase = "task" /\ r \in Registers /\ bank[r] = Written
    BY <1>1, <2>1 DEF ServeRead
  <2>3. holding[r] # Written
    BY <1>1, <2>2, HoldingNotWritten DEF IInv
  <2> QED
    BY <1>1, <2>2, <2>3 DEF IInv, BankInv
<1>2. IInv /\ [Next]_vars =>
        [\A c \in Clients : reply'[c] # reply[c] =>
           \A r \in DOMAIN reply'[c] : reply'[c][r] = Written => r \in dirty]_vars
  BY <1>1
<1> QED
  BY <1>2, Inductive, PTL DEF Spec, WritesLastOnePass
=============================================================================
