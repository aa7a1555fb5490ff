-------------------------- MODULE MqttClient_proofs --------------------------
(***************************************************************************)
(* Proofs about MqttClient, for any subtopics, any number of connection    *)
(* attempts and any bound on commands and counters.                        *)
(***************************************************************************)
EXTENDS MqttClient, TLAPS

StatSet == {StatTopics[i] : i \in DOMAIN StatTopics}

\* What waits to be published are subtopics, no more than one burst, and while
\* the client publishes there is something left: PublishNext takes the head.
QueueInv ==
  /\ queue \in Seq(Topics \union StatSet)
  /\ Len(queue) <= Len(Subtopics) + Len(StatTopics)
  /\ pc \in {"report", "burst", "stats"} => queue # << >>

\* setup has an attempt left.
AttemptInv == pc = "setup" => attempt < Attempts

IInv == TypeOK /\ QueueInv /\ AttemptInv

\* The socket, the session and the receive buffer are of their types.
LinkType ==
  /\ transport \in BOOLEAN /\ session \in BOOLEAN /\ subscribed \in BOOLEAN
  /\ state \in {"connected", "down"}
  /\ inbox \in Seq(Commands) /\ Len(inbox) <= MaxInbox

-----------------------------------------------------------------------------
\* The two kinds of burst, and the empty one, are queues that can be published.
LEMMA Bursts ==
  /\ Subtopics \in Seq(Topics \union StatSet) /\ Subtopics # << >>
  /\ StatTopics \in Seq(Topics \union StatSet) /\ StatTopics # << >>
  /\ << >> \in Seq(Topics \union StatSet)
  /\ Len(Subtopics) \in Nat /\ Len(StatTopics) = 2 /\ Len(<< >>) = 0
<1>1. Subtopics \in Seq(Topics \union StatSet)
  <2>1. \A i \in 1 .. Len(Subtopics) : Subtopics[i] \in Topics
    BY ClientAssumption DEF Topics
  <2> QED
    BY <2>1, ClientAssumption
<1>2. StatTopics \in Seq(Topics \union StatSet) /\ StatTopics # << >> /\ Len(StatTopics) = 2
  <2>1. DOMAIN StatTopics = 1 .. 2 /\ Len(StatTopics) = 2
    BY DEF StatTopics
  <2>2. \A i \in 1 .. 2 : StatTopics[i] \in StatSet
    BY <2>1 DEF StatSet
  <2>3. StatTopics = << StatTopics[1], StatTopics[2] >>
    BY DEF StatTopics
  <2> HIDE DEF StatTopics, StatSet
  <2>4. << StatTopics[1], StatTopics[2] >> \in Seq(Topics \union StatSet)
    BY <2>2
  <2>5. StatTopics # << >>
    BY <2>1
  <2> QED
    BY <2>1, <2>3, <2>4, <2>5
<1> QED
  BY <1>1, <1>2, ClientAssumption

\* Either burst fits the bound of the type invariant, and so does the empty queue.
LEMMA BurstsFit ==
  /\ Len(Subtopics) <= Len(Subtopics) + Len(StatTopics)
  /\ Len(StatTopics) <= Len(Subtopics) + Len(StatTopics)
  /\ Len(<< >>) <= Len(Subtopics) + Len(StatTopics)
<1>1. Len(Subtopics) \in Nat /\ Len(StatTopics) = 2 /\ Len(<< >>) = 0
  BY Bursts
<1> QED
  BY <1>1

\* Whatever becomes of a connection attempt, the link stays of its type.
LEMMA ConnectKeepsTypes ==
  ASSUME TypeOK, NEW known \in {"connected", "down"}, NEW ok \in BOOLEAN, mqtt_connect(known, ok)
  PROVE  LinkType'
<1> USE DEF mqtt_connect, LinkType
<1>1. transport' \in BOOLEAN /\ session' \in BOOLEAN /\ subscribed' \in BOOLEAN
  OBVIOUS
<1>2. state' \in {"connected", "down"}
  OBVIOUS
<1>3. inbox' \in Seq(Commands) /\ Len(inbox') <= MaxInbox
  <2>1. inbox' = << >>
    OBVIOUS
  <2> QED
    BY <2>1, ClientAssumption
<1> QED
  BY <1>1, <1>2, <1>3

\* What connected() leaves in state is a state.
LEMMA NoticedIsState == TypeOK => Noticed \in {"connected", "down"}
BY DEF TypeOK, Noticed

-----------------------------------------------------------------------------
\* At power-up.
LEMMA InitIInv == Init => IInv
<1> SUFFICES ASSUME Init PROVE IInv
  OBVIOUS
<1> USE ClientAssumption DEF Init
<1>1. TypeOK
  <2>1. inbox \in Seq(Commands) /\ Len(inbox) <= MaxInbox
    <3>1. inbox = << >>
      OBVIOUS
    <3> QED
      BY <3>1
  <2>2. Len(queue) <= Len(Subtopics) + Len(StatTopics)
    BY BurstsFit
  <2>3. pc \in Steps /\ attempt \in 0 .. Attempts
    BY DEF Steps
  <2> QED
    BY <2>1, <2>2, <2>3 DEF TypeOK
<1>2. QueueInv /\ AttemptInv
  BY Bursts DEF QueueInv, AttemptInv
<1> QED
  BY <1>1, <1>2 DEF IInv

\* One message: the rest of the queue is what PublishNext goes on with.
LEMMA PublishKeeps ==
  ASSUME IInv, PublishNext
  PROVE  IInv'
<1> PICK ok \in BOOLEAN : mqtt_publish_json(Head(queue), ok) /\ queue' = Tail(queue)
  BY DEF PublishNext, Remaining
<1> USE DEF IInv
<1>1. queue # << >> /\ queue \in Seq(Topics \union StatSet) /\ Head(queue) \in Topics \union StatSet
  BY DEF PublishNext, QueueInv
<1>2. queue' \in Seq(Topics \union StatSet) /\ Len(queue') = Len(queue) - 1 /\ Len(queue) \in Nat
  BY <1>1
<1>3. pc' \in Steps /\ pc' # "setup"
  BY DEF PublishNext, AfterQueue, AfterPoll, Steps
<1>4. QueueInv'
  <2>1. pc' \in {"report", "burst", "stats"} => queue' # << >>
    BY DEF PublishNext, AfterQueue, AfterPoll
  <2> QED
    BY <1>2, <2>1, Bursts DEF QueueInv
<1>5. mqtt_publish_count' \in Nat
  BY DEF TypeOK, mqtt_publish_json
<1>6. transport' \in BOOLEAN /\ state' \in {"connected", "down"}
  BY NoticedIsState DEF TypeOK, mqtt_publish_json
<1>7. session' \in BOOLEAN /\ subscribed' \in BOOLEAN
  BY DEF mqtt_publish_json
<1>8. delivered' \subseteq Topics \union StatSet
  BY <1>1 DEF mqtt_publish_json, TypeOK, StatSet
<1>9. TypeOK'
  BY <1>2, <1>3, <1>4, <1>5, <1>6, <1>7, <1>8 DEF TypeOK, QueueInv, StatSet, PublishNext
<1>10. AttemptInv'
  BY <1>3 DEF AttemptInv
<1> QED
  BY <1>4, <1>9, <1>10

\* One handled command.
LEMMA CommandKeeps ==
  ASSUME IInv, subscriber_callback
  PROVE  IInv'
<1> USE DEF IInv, subscriber_callback
<1>1. inbox' \in Seq(Commands) /\ Len(inbox') <= MaxInbox
  BY ClientAssumption DEF TypeOK
<1>2. pc' \in Steps /\ pc' \in {"report", "publish", "idle"} /\ (pc' = "report" => queue' = Subtopics)
  BY DEF AfterPoll, Steps
<1>3. QueueInv'
  BY <1>2, Bursts DEF QueueInv
<1>4. mqtt_cmd_count' \in Nat
  BY DEF TypeOK
<1>5. TypeOK'
  BY <1>1, <1>2, <1>3, <1>4 DEF TypeOK, QueueInv, linkVars
<1>6. AttemptInv'
  BY <1>2 DEF AttemptInv
<1> QED
  BY <1>3, <1>5, <1>6

\* Every step keeps the invariant.
LEMMA NextIInv ==
  ASSUME IInv, [Next]_vars
  PROVE  IInv'
<1> USE DEF IInv
<1>1. CASE NetChanges \/ BrokerForgets \/ SocketCloses
  <2> USE <1>1 DEF NetChanges, BrokerForgets, SocketCloses, linkVars, countVars
  <2>1. TypeOK'
    BY DEF TypeOK
  <2>2. QueueInv' /\ AttemptInv'
    BY DEF QueueInv, AttemptInv
  <2> QED
    BY <2>1, <2>2
<1>2. ASSUME NEW c \in Commands, Command(c)
      PROVE  IInv'
  <2> USE <1>2 DEF Command, linkVars, countVars
  <2>1. inbox' \in Seq(Commands) /\ Len(inbox') <= MaxInbox
    BY ClientAssumption DEF TypeOK
  <2>2. TypeOK'
    BY <2>1 DEF TypeOK
  <2>3. QueueInv' /\ AttemptInv'
    BY DEF QueueInv, AttemptInv
  <2> QED
    BY <2>2, <2>3
<1>3. CASE Timer
  <2> PICK timers \in SUBSET {"poll", "publish"} : PassDue(timers)
    BY <1>3 DEF Timer
  <2> USE DEF PassDue, linkVars, countVars
  <2>1. TypeOK'
    BY DEF TypeOK, Steps
  <2>2. QueueInv' /\ AttemptInv'
    BY DEF QueueInv, AttemptInv
  <2> QED
    BY <2>1, <2>2
<1>4. CASE Setup
  <2> PICK ok \in BOOLEAN : mqtt_connect(state, ok) /\ attempt' = attempt + 1
                            /\ pc' = IF ok \/ attempt + 1 = Attempts THEN "idle" ELSE "setup"
    BY <1>4 DEF Setup
  <2>1. LinkType'
    BY ConnectKeepsTypes DEF TypeOK
  <2>2. attempt' \in 0 .. Attempts /\ AttemptInv' /\ pc' \in Steps /\ pc' \in {"idle", "setup"}
    BY <1>4, ClientAssumption DEF Setup, TypeOK, AttemptInv, Steps
  <2>3. TypeOK'
    BY <1>4, <2>1, <2>2 DEF Setup, TypeOK, LinkType, countVars
  <2>4. QueueInv'
    BY <1>4, <2>2 DEF Setup, QueueInv, countVars
  <2> QED
    BY <2>2, <2>3, <2>4
<1>5. CASE maintain_mqtt_connection
  <2> USE <1>5 DEF maintain_mqtt_connection, AfterMaintain
  <2>1. LinkType'
    <3>1. CASE UNCHANGED << linkVars, inbox >>
      BY <3>1 DEF TypeOK, LinkType, linkVars
    <3>2. ASSUME NEW ok \in BOOLEAN, mqtt_connect(Noticed, ok)
          PROVE  LinkType'
      BY <3>2, ConnectKeepsTypes, NoticedIsState
    <3> QED
      BY <3>1, <3>2
  <2>2. pc' \in Steps /\ pc' \in {"poll", "publish"}
    BY DEF Steps
  <2>3. TypeOK'
    BY <2>1, <2>2 DEF TypeOK, LinkType, countVars
  <2>4. QueueInv' /\ AttemptInv'
    BY <2>2 DEF QueueInv, AttemptInv, countVars
  <2> QED
    BY <2>3, <2>4
<1>6. CASE PollNothing
  <2> USE <1>6 DEF PollNothing, countVars
  <2>1. pc' \in Steps /\ pc' \in {"publish", "idle"}
    BY DEF AfterPoll, Steps
  <2>2. TypeOK'
    BY <2>1, NoticedIsState DEF TypeOK
  <2>3. QueueInv' /\ AttemptInv'
    BY <2>1 DEF QueueInv, AttemptInv
  <2> QED
    BY <2>2, <2>3
<1>7. CASE BeginBurst
  <2> USE <1>7 DEF BeginBurst, countVars
  <2>1. pc' \in Steps /\ pc' \in {"burst", "idle"} /\ (pc' = "burst" => queue' = Subtopics)
    BY DEF Steps
  <2>2. QueueInv'
    BY <2>1, Bursts DEF QueueInv
  <2>3. TypeOK'
    BY <2>1, <2>2, NoticedIsState DEF TypeOK, QueueInv
  <2>4. AttemptInv'
    BY <2>1 DEF AttemptInv
  <2> QED
    BY <2>2, <2>3, <2>4
<1>8. CASE ReportElapsed
  <2> USE <1>8 DEF ReportElapsed, linkVars, countVars
  <2>0. queue' = StatTopics \/ queue' = << >>
    OBVIOUS
  <2>1. pc' \in Steps /\ pc' \in {"stats", "idle"} /\ (pc' = "stats" => queue' = StatTopics)
    BY DEF Steps
  <2>2. QueueInv'
    <3>1. queue' \in Seq(Topics \union StatSet)
      BY <2>0, Bursts
    <3>2. Len(queue') <= Len(Subtopics) + Len(StatTopics)
      BY <2>0, BurstsFit
    <3>3. pc' = "stats" => queue' # << >>
      BY <2>1, Bursts
    <3> QED
      BY <2>1, <3>1, <3>2, <3>3 DEF QueueInv
  <2>3. TypeOK'
    BY <2>1, <2>2 DEF TypeOK, QueueInv
  <2>4. AttemptInv'
    BY <2>1 DEF AttemptInv
  <2> QED
    BY <2>2, <2>3, <2>4
<1>9. CASE ResetCounters
  <2> USE <1>9 DEF ResetCounters, linkVars
  <2>1. TypeOK'
    BY DEF TypeOK, Steps
  <2>2. QueueInv' /\ AttemptInv'
    BY DEF QueueInv, AttemptInv
  <2> QED
    BY <2>1, <2>2
<1>10. CASE UNCHANGED vars
  <2> USE <1>10 DEF vars, linkVars, countVars
  <2>1. TypeOK'
    BY DEF TypeOK
  <2>2. QueueInv' /\ AttemptInv'
    BY DEF QueueInv, AttemptInv
  <2> QED
    BY <2>1, <2>2
<1> QED
  BY <1>1, <1>2, <1>3, <1>4, <1>5, <1>6, <1>7, <1>8, <1>9, <1>10, PublishKeeps, CommandKeeps
     DEF Next, Loop

-----------------------------------------------------------------------------
\* The invariant holds in every reachable state.
THEOREM Inductive == Spec => []IInv
BY InitIInv, NextIInv, PTL DEF Spec

\* The variables keep the values the code gives them: in particular setup stops
\* at its last attempt, and no burst outlives its queue.
THEOREM TypeCorrect == Spec => []TypeOK
<1>1. IInv => TypeOK
  BY DEF IInv
<1> QED
  BY <1>1, Inductive, PTL
=============================================================================
