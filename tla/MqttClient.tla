------------------------------ MODULE MqttClient ------------------------------
(***************************************************************************)
(* The MQTT client (mqtt_client.cpp) and the part of loop() that drives it *)
(* (main.cpp): connection, subscription, telemetry bursts, commands and    *)
(* the bandwidth counters.                                                 *)
(*                                                                         *)
(* The socket and PubSubClient are libraries, modelled from their use:     *)
(* transport is the socket's own view of the TCP connection and state the  *)
(* client's, which notices a lost socket only when connected() is called.  *)
(* The broker's side is session (it has accepted CONNECT on this socket)   *)
(* and subscribed.  A call that talks to the broker may fail only while    *)
(* net is "bad".  The content of a message is its subtopic.                *)
(***************************************************************************)
EXTENDS Integers, Sequences

CONSTANTS
  Subtopics,    \* the subtopics of one telemetry cycle, in the order published
  Attempts,     \* connection attempts of setup_mqtt_client
  MaxInbox,     \* bound: commands waiting in the socket
  MaxCount      \* bound: with more messages counted, no command comes before a report

ASSUME ClientAssumption ==
  /\ Subtopics \in Seq(STRING) /\ Subtopics # << >>
  /\ Attempts \in Nat \ {0}
  /\ MaxInbox \in Nat
  /\ MaxCount \in Nat

VARIABLES
  net,             \* the network between board and broker
  transport, state, session, subscribed,
  inbox,           \* commands in the socket's receive buffer
  pc,              \* where the client is: see Steps
  attempt,         \* the loop variable of setup_mqtt_client
  due,             \* poll_due and publish_due of this pass of loop()
  queue,           \* messages that the burst in progress has still to publish
  mqtt_publish_count, mqtt_cmd_count,
  delivered        \* history: subtopics the broker took since the last burst began

linkVars  == << transport, state, session, subscribed >>
countVars == << mqtt_publish_count, mqtt_cmd_count >>
vars      == << net, linkVars, inbox, pc, attempt, due, queue, countVars, delivered >>

Steps      == {"setup", "idle", "maintain", "poll", "report", "publish", "burst", "elapsed", "stats", "reset"}
Commands   == {"report", "other", "garbage", "overrun"}
StatTopics == << "stats/BWPubOut", "stats/BWCmdIn" >>
Topics     == {Subtopics[i] : i \in DOMAIN Subtopics}

Init ==
  /\ net \in {"good", "bad"}
  /\ transport = FALSE /\ state = "down" /\ session = FALSE /\ subscribed = FALSE
  /\ inbox = << >>
  /\ pc = "setup"
  /\ attempt = 0
  /\ due = {}
  /\ queue = << >>
  /\ mqtt_publish_count = 0 /\ mqtt_cmd_count = 0
  /\ delivered = {}

-----------------------------------------------------------------------------
(* The network, the broker and whoever sends commands.                     *)

NetChanges ==
  /\ net' \in {"good", "bad"} \ {net}
  /\ UNCHANGED << linkVars, inbox, pc, attempt, due, queue, countVars, delivered >>

\* The broker gives the session up; the socket does not know it yet.
BrokerForgets ==
  /\ net = "bad" /\ session
  /\ session' = FALSE /\ subscribed' = FALSE
  /\ UNCHANGED << net, transport, state, inbox, pc, attempt, due, queue, countVars, delivered >>

\* A socket on which the broker holds no session is closed in the end.
SocketCloses ==
  /\ transport /\ ~session
  /\ transport' = FALSE
  /\ UNCHANGED << net, state, session, subscribed, inbox, pc, attempt, due, queue,
                  countVars, delivered >>

Command(c) ==
  /\ subscribed /\ net = "good"
  /\ Len(inbox) < MaxInbox
  /\ mqtt_publish_count + mqtt_cmd_count <= MaxCount
  /\ inbox' = Append(inbox, c)
  /\ UNCHANGED << net, linkVars, pc, attempt, due, queue, countVars, delivered >>

-----------------------------------------------------------------------------
(* PubSubClient as the code uses it.                                       *)

\* What connected() answers.
Connected == transport /\ state = "connected"

\* Mutant of Noticed: a lost socket does not end the client's session.
NoticedNever == state

\* What connected() leaves in state: a lost socket ends the session.
Noticed == IF transport THEN state ELSE "down"

\* mqtt_connect() returning ok, with the client's state known when it is called.
\* The library sends no CONNECT when it believes it is connected already.
mqtt_connect(known, ok) ==
  \/ /\ net = "bad" /\ ~ok                                \* connect() or CONNECT fails
     /\ transport' = FALSE /\ session' = FALSE /\ subscribed' = FALSE
     /\ state' \in {known, "down"}
     /\ inbox' = << >>
  \/ /\ ok \/ net = "bad"                                 \* then subscribe() does or does not
     /\ state' = "connected"
     /\ transport' \in {TRUE, ok}
     /\ session' = (transport' /\ known # "connected")
     /\ subscribed' = (ok /\ session')
     /\ inbox' = << >>

\* mqtt_publish_json(subtopic), up to the end of which publish() has returned ok.
mqtt_publish_json(subtopic, ok) ==
  /\ IF ok THEN Connected ELSE Connected => (net = "bad")
  /\ transport' \in IF ok THEN {TRUE} ELSE {FALSE, transport}
  /\ state' = Noticed
  /\ session' = (session /\ transport') /\ subscribed' = (subscribed /\ transport')
  /\ mqtt_publish_count' = IF ok THEN mqtt_publish_count + 1 ELSE mqtt_publish_count
  /\ delivered' = IF ok /\ session THEN delivered \union {subtopic} ELSE delivered

-----------------------------------------------------------------------------
(* setup_mqtt_client.                                                      *)

\* Mutant of Setup: the attempts are not limited.
SetupForever ==
  /\ pc = "setup"
  /\ \E ok \in BOOLEAN :
       /\ mqtt_connect(state, ok)
       /\ attempt' = attempt + 1
       /\ pc' = IF ok THEN "idle" ELSE "setup"
  /\ UNCHANGED << net, due, queue, countVars, delivered >>

Setup ==
  /\ pc = "setup"
  /\ \E ok \in BOOLEAN :
       /\ mqtt_connect(state, ok)
       /\ attempt' = attempt + 1
       /\ pc' = IF ok \/ attempt + 1 = Attempts THEN "idle" ELSE "setup"
  /\ UNCHANGED << net, due, queue, countVars, delivered >>

-----------------------------------------------------------------------------
(* The MQTT part of loop().                                                *)

AfterPoll == IF "publish" \in due THEN "publish" ELSE "idle"

\* One or both of the two rate timers have run out.
PassDue(timers) ==
  /\ pc = "idle" /\ timers # {}
  /\ due' = timers
  /\ pc' = "maintain"
  /\ UNCHANGED << net, linkVars, inbox, attempt, queue, countVars, delivered >>

\* Mutant of AfterMaintain: a publish that is due takes the place of the poll.
AfterMaintainElse == IF "publish" \in due THEN "publish" ELSE "poll"

\* Both are tested, the poll first.
AfterMaintain == IF "poll" \in due THEN "poll" ELSE "publish"

maintain_mqtt_connection ==
  /\ pc = "maintain"
  /\ pc' = AfterMaintain
  /\ \/ Connected /\ UNCHANGED << linkVars, inbox >>
     \/ ~Connected /\ \E ok \in BOOLEAN : mqtt_connect(Noticed, ok)
  /\ UNCHANGED << net, attempt, due, queue, countVars, delivered >>

\* poll_mqtt: loop() has nothing to handle.
PollNothing ==
  /\ pc = "poll"
  /\ ~Connected \/ inbox = << >>
  /\ state' = Noticed
  /\ pc' = AfterPoll
  /\ UNCHANGED << net, transport, session, subscribed, inbox, attempt, due, queue,
                  countVars, delivered >>

\* poll_mqtt: loop() hands one message to subscriber_callback.
subscriber_callback ==
  /\ pc = "poll"
  /\ Connected /\ inbox # << >>
  /\ inbox' = Tail(inbox)
  /\ mqtt_cmd_count' = mqtt_cmd_count + (IF Head(inbox) = "overrun" THEN 0 ELSE 1)
  /\ pc' = IF Head(inbox) = "report" THEN "report" ELSE AfterPoll
  /\ queue' = IF Head(inbox) = "report" THEN Subtopics ELSE << >>
  /\ UNCHANGED << net, linkVars, attempt, due, mqtt_publish_count, delivered >>

\* loop_mqtt: nothing is published when the connection is known to be lost.
BeginBurst ==
  /\ pc = "publish"
  /\ state' = Noticed
  /\ pc' = IF Connected THEN "burst" ELSE "idle"
  /\ queue' = IF Connected THEN Subtopics ELSE << >>
  /\ delivered' = {}
  /\ UNCHANGED << net, transport, session, subscribed, inbox, attempt, due, countVars >>

\* Mutant of Remaining: a message that could not be published is tried again.
RemainingRetry(ok) == IF ok THEN Tail(queue) ELSE queue

\* What a burst has left after one message: a failure is not retried.
Remaining(ok) == Tail(queue)

\* Where the client goes when its queue is empty.
AfterQueue ==
  CASE pc = "report" -> AfterPoll
    [] pc = "burst"  -> "elapsed"
    [] pc = "stats"  -> "reset"

\* One message of cmd_report, of loop_mqtt or of the bandwidth report.
PublishNext ==
  /\ pc \in {"report", "burst", "stats"}
  /\ \E ok \in BOOLEAN :
       /\ mqtt_publish_json(Head(queue), ok)
       /\ queue' = Remaining(ok)
  /\ pc' = IF queue' = << >> THEN AfterQueue ELSE pc
  /\ UNCHANGED << net, inbox, attempt, due, mqtt_cmd_count >>

\* The end of loop_mqtt: the test of BANDWIDTH_REPORT_INTERVAL_MS.
ReportElapsed ==
  /\ pc = "elapsed"
  /\ \E elapsed \in BOOLEAN :
       /\ mqtt_publish_count + mqtt_cmd_count > MaxCount => elapsed
       /\ pc' = IF elapsed THEN "stats" ELSE "idle"
       /\ queue' = IF elapsed THEN StatTopics ELSE << >>
  /\ UNCHANGED << net, linkVars, inbox, attempt, due, countVars, delivered >>

\* The end of mqtt_publish_bandwidth_stats.
ResetCounters ==
  /\ pc = "reset"
  /\ mqtt_publish_count' = 0 /\ mqtt_cmd_count' = 0
  /\ pc' = "idle"
  /\ UNCHANGED << net, linkVars, inbox, attempt, due, queue, delivered >>

-----------------------------------------------------------------------------
Loop ==
  \/ Setup \/ maintain_mqtt_connection
  \/ PollNothing \/ subscriber_callback
  \/ BeginBurst \/ PublishNext \/ ReportElapsed \/ ResetCounters

Timer == \E timers \in SUBSET {"poll", "publish"} : PassDue(timers)

Next == NetChanges \/ BrokerForgets \/ SocketCloses \/ (\E c \in Commands : Command(c))
          \/ Timer \/ Loop

(* loop() runs for ever, so every step of the client is taken.  Either      *)
(* timer, once it has run out, stays so until a pass has seen to it: each   *)
(* is due again and again, alone or with the other.  A dead socket is       *)
(* closed by the peer's reset or the keep-alive.  Commands and the network  *)
(* are free.                                                                *)
DueFor(timer) == \E timers \in SUBSET {"poll", "publish"} : timer \in timers /\ PassDue(timers)

Fairness ==
  /\ WF_vars(Loop)
  /\ SF_vars(DueFor("poll"))
  /\ SF_vars(DueFor("publish"))
  /\ WF_vars(SocketCloses)

Spec == Init /\ [][Next]_vars /\ Fairness

-----------------------------------------------------------------------------
(* Properties.                                                             *)

\* The variables keep the values the code gives them.
TypeOK ==
  /\ net \in {"good", "bad"}
  /\ transport \in BOOLEAN /\ session \in BOOLEAN /\ subscribed \in BOOLEAN
  /\ state \in {"connected", "down"}
  /\ inbox \in Seq(Commands) /\ Len(inbox) <= MaxInbox
  /\ pc \in Steps
  /\ attempt \in 0..Attempts
  /\ due \subseteq {"poll", "publish"}
  /\ Len(queue) <= Len(Subtopics) + Len(StatTopics)
  /\ mqtt_publish_count \in Nat /\ mqtt_cmd_count \in Nat
  /\ delivered \subseteq Topics \union {StatTopics[i] : i \in DOMAIN StatTopics}

\* Commands are heard: the receive buffer never stays full, so what waits in it is
\* handled, or lost with its session, however many publish passes come in between
\* and whatever the network does (the two timers of loop(), poll_mqtt).
CommandsServed ==
  Len(inbox) = MaxInbox /\ MaxInbox > 0 ~> Len(inbox) < MaxInbox

\* Once the network stays good, telemetry recovers by itself for good: every
\* cycle that completes has delivered all the subtopics, however the session was
\* lost (maintain_mqtt_connection, loop_mqtt).
TelemetryResumes ==
  <>[](net = "good") => <>[](pc = "idle" => Topics \subseteq delivered)

\* setup, a command or a burst never keeps loop() from going on to poll the
\* inverter, not even on a network that stays bad (setup_mqtt_client, loop_mqtt).
LoopGoesOn == pc # "idle" ~> pc = "idle"

\* Claim of mqtt_connect's comment, "Returns false on any step failing; the
\* caller retries": a subscription that failed is made once the network is good.
FailedSubscribeRetried == <>[](net = "good") => <>[]subscribed
=============================================================================
