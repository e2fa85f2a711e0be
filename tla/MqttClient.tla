----------------------------- MODULE MqttClient -----------------------------
(***************************************************************************)
(* The MQTT client (src/transports/mqtt/MqttClient.cpp) driven by its      *)
(* service (src/service_provider/transport/MqttServiceProvider.cpp), over  *)
(* a TCP connection that can fail without notice, with a broker.           *)
(*                                                                         *)
(* The client is one record mq: the MQTT_Client structure and the state of *)
(* the socket.  Its methods call one another (the timer calls MQTT_Task,   *)
(* which calls Connect, which calls MQTT_Task), so a method is an operator *)
(* from the record to the record after it, and an action of the service is *)
(* one call.  Every handler runs to completion on the inline scheduler.    *)
(*                                                                         *)
(* The message queue is the queue of whole packets of PacketFifo, its size *)
(* counted in packets; a write that does not fit may leave a Cut behind,   *)
(* which counts as content but holds no packet.  sendTimeout is left out:  *)
(* it is only counted down.                                                *)
(***************************************************************************)
EXTENDS Integers, SequencesExt, FiniteSets

CONSTANTS
    Topics,             \* topics the subscribe table may name
    PubQos,             \* the QoS levels the service publishes with
    BrokerQos,          \* the QoS levels of messages from the broker
    KeepAlive,          \* 85% of the keepalive time, in timer ticks
    Patience,           \* 150% of it: a broker ends a session silent for longer
    ReadTimeout,        \* MQTT_READ_TIMEOUT
    HostTimeout,        \* MQTT_HOST_CONNECT_TIMEOUT
    QueueCap,           \* packets that fit QUEUE_BUFFER_SIZE
    MaxId,              \* the largest message id, 65535
    MaxOut, MaxRx,      \* packets the two directions of the connection hold
    MaxLag,             \* ticks within which a reachable broker answers
    MaxDrops,           \* network failures in a behaviour
    MaxChanges          \* configuration changes, stops and disconnects in a behaviour

ASSUME MqttAssumption ==
    /\ PubQos \subseteq 0..2 /\ BrokerQos \subseteq 0..2
    /\ KeepAlive \in Nat /\ ReadTimeout \in Nat /\ HostTimeout \in Nat
    /\ Patience \in Nat
    /\ QueueCap \in Nat \ {0} /\ MaxId \in Nat \ {0}

VARIABLES
    mq,                 \* the client and its socket
    timer,              \* the task of mqtt_timer is scheduled
    begins,             \* one-shot tasks that will call begin
    config,             \* the topics of the subscribe table
    valid,              \* the general table names a usable broker
    stopped,            \* which of stop and Disconnect followed the last configuration
    net,                \* the broker can be reached
    live,               \* topics subscribed at the broker in this session
    lag,                \* ticks the broker has owed an answer
    budget              \* failures and changes left

vars == <<mq, timer, begins, config, valid, stopped, net, live, lag, budget>>

serviceVars == <<timer, begins, config, valid, stopped>>

NoTopic == "-"
Cut == [type |-> "Cut", id |-> 0, qos |-> 0, topic |-> NoTopic]

Message(type, id) == [type |-> type, id |-> id, qos |-> 0, topic |-> NoTopic]
OnTopic(type, id, t) == [type |-> type, id |-> id, qos |-> 1, topic |-> t]
Publication(id, q) == [type |-> "PUBLISH", id |-> id, qos |-> q, topic |-> NoTopic]

(***************************************************************************)
(* The message queue: a reply from the receive path is dropped when the    *)
(* queue is full, a packet of Publish, Subscribe or UnSubscribe pushes out *)
(* the e oldest ones (or, for e = 0, is lost with everything queued).      *)
(***************************************************************************)
Full(q) == Len(q) >= QueueCap

QUEUE_Puts(s, p, cut) ==
    [s EXCEPT !.msgQueue = IF ~Full(@) THEN Append(@, p)
                           ELSE IF cut /\ Len(@) = QueueCap THEN Append(@, Cut) ELSE @]

PutMakingRoom(s, p, e) ==
    [s EXCEPT !.msgQueue = IF ~Full(@) THEN Append(@, p)
                           ELSE IF e = 0 THEN <<>>
                           ELSE Append(SubSeq(@, e + 1, Len(@)), p),
              !.lost = @ \/ Full(s.msgQueue)]

Queued(s, e) == ~Full(s.msgQueue) \/ e > 0

(* The queue without the remains before its oldest packet.                 *)
Uncut(q) ==
    LET whole == {i \in 1..Len(q) : q[i] # Cut}
    IN IF whole = {} THEN <<>> ELSE SubSeq(q, Min(whole), Len(q))

(***************************************************************************)
(* The socket, and the callbacks the service installs.                     *)
(***************************************************************************)
mqttDisconnectedCb(s) == [s EXCEPT !.mqtt_connected = FALSE, !.subscribed_topics = <<>>]

(* Mutant: the topics of the session that ended stay recorded.             *)
KeepsTopics(s) == [s EXCEPT !.mqtt_connected = FALSE, !.up = FALSE, !.link = FALSE, !.out = <<>>]

disconnectServer(s) ==
    [mqttDisconnectedCb(s) EXCEPT !.up = FALSE, !.link = FALSE, !.out = <<>>]

(* sendPacket fails without a connection and when the send buffer stays    *)
(* full.                                                                   *)
Sendable(s) == s.up /\ Len(s.out) < MaxOut

Sent(s, p) == [s EXCEPT !.out = Append(@, p), !.sinceSend = 0]

is_mqtt_connected(s) ==
    s.connState \notin {"DELETING", "DISCONNECTED"} /\ s.client /\ s.up /\ s.mqtt_connected

NextId(s) == IF s.message_id = MaxId THEN 1 ELSE s.message_id + 1

(***************************************************************************)
(* MqttClient.cpp: sending.                                                *)
(***************************************************************************)
Pending(s, p) == [s EXCEPT !.pending_msg_type = p.type]

mqtt_client_connect(s0) ==
    LET p == Message("CONNECT", 0)
        s == Pending([s0 EXCEPT !.message_id = 0], p)
    IN IF Sendable(s)
       THEN [Sent(s, p) EXCEPT !.connState = "CONNECT_SENT", !.readTimeout = 0]
       ELSE disconnectServer([s EXCEPT !.connState = "CONNECT_FAILED", !.host_connect_tick = 0])

mqtt_client_disconnect(s0) ==
    LET p == Message("DISCONNECT", 0)
        s == Pending(s0, p)
    IN disconnectServer(
         IF Sendable(s)
         THEN [Sent(s, p) EXCEPT !.connState = "DISCONNECT_SENT", !.readTimeout = 0]
         ELSE [s EXCEPT !.connState = "DISCONNECT_FAILED", !.host_connect_tick = 0])

mqtt_send_keepalive(s0) ==
    LET p == Message("PINGREQ", 0)
        s == Pending(s0, p)
    IN IF Sendable(s)
       THEN [Sent(s, p) EXCEPT !.connState = "PING_SENT", !.readTimeout = 0, !.keepAliveTick = 0]
       ELSE disconnectServer([s EXCEPT !.connState = "PING_FAILED", !.host_connect_tick = 0])

SendQueued(s0) ==
    LET p == Head(Uncut(s0.msgQueue))
        s == Pending([s0 EXCEPT !.msgQueue = Tail(Uncut(@))], p)
    IN IF Sendable(s)
       THEN [Sent(s, p) EXCEPT !.readTimeout = 0,
                               !.connState = IF p.type = "PUBLISH" /\ p.qos = 0
                                             THEN "DATA" ELSE "DATA_SENT"]
       ELSE disconnectServer([s EXCEPT !.connState = "DATA_FAILED", !.host_connect_tick = 0])

(* Mutant: input of the connection before is kept.                         *)
KeepsInput(s) ==
    [s EXCEPT !.keepAliveTick = 0, !.host_connect_tick = 0, !.connState = "HOST_CONNECTING",
              !.up = net, !.link = net, !.out = <<>>, !.acked = FALSE]

(* Connect opens the socket, which succeeds when the broker can be         *)
(* reached, and goes on to MQTT_Task in the state HOST_CONNECTING.         *)
Opened(s) ==
    [s EXCEPT !.keepAliveTick = 0, !.host_connect_tick = 0, !.connState = "HOST_CONNECTING",
              !.up = net, !.link = net, !.rx = <<>>, !.out = <<>>, !.acked = FALSE]

(* Mutant: a failed attempt to connect is the last one.                    *)
GivesUp(s) ==
    IF ~s.client \/ ~net THEN [s EXCEPT !.connState = "DISCONNECTED"]
    ELSE mqtt_client_connect(Opened(s))

Connect(s) ==
    IF ~s.client THEN s
    ELSE IF net THEN mqtt_client_connect(Opened(s)) ELSE Opened(s)

(***************************************************************************)
(* MqttClient.cpp: receiving.                                              *)
(***************************************************************************)
(* The replies; the callbacks of the application are left out.             *)
Received(s, p, cut) ==
    CASE p.type = "PUBLISH" /\ p.qos = 1 -> QUEUE_Puts(s, Message("PUBACK", p.id), cut)
      [] p.type = "PUBLISH" /\ p.qos = 2 -> QUEUE_Puts(s, Message("PUBREC", p.id), cut)
      [] p.type = "PUBREC"               -> QUEUE_Puts(s, Message("PUBREL", p.id), cut)
      [] p.type = "PUBREL"               -> QUEUE_Puts(s, Message("PUBCOMP", p.id), cut)
      [] OTHER                           -> s

(* Mutant: every packet counts.                                            *)
AlwaysHeard(s, p) == [s EXCEPT !.rx = Tail(@), !.keepAliveTick = 0, !.readTimeout = 0]

(* What a received packet resets: a QoS 0 publication does not count as a  *)
(* sign that the broker answers.                                           *)
Heard(s, p) ==
    IF p.type = "PUBLISH" /\ p.qos = 0 THEN [s EXCEPT !.rx = Tail(@)]
    ELSE [s EXCEPT !.rx = Tail(@), !.keepAliveTick = 0, !.readTimeout = 0]

mqtt_client_recv(s, cut) ==
    IF s.rx = <<>>
    THEN IF s.connState = "PING_SENT" THEN [s EXCEPT !.connState = "DATA"] ELSE s
    ELSE LET p == Head(s.rx)
             h == Heard(s, p)
         IN CASE s.connState = "CONNECT_SENT" ->
                   IF p.type # "CONNACK" THEN h
                   ELSE IF s.pending_msg_type # "CONNECT"
                   THEN [h EXCEPT !.connState = "HOST_RECONNECT_REQ"]
                   ELSE [h EXCEPT !.connState = "DATA", !.mqtt_connected = TRUE]
              [] s.connState = "DISCONNECT_SENT" ->
                   [mqttDisconnectedCb(h) EXCEPT !.connState = "DISCONNECTED"]
              [] OTHER -> Received([h EXCEPT !.connState = "DATA"], p, cut)

MQTT_Task(s, cut) ==
    CASE s.connState \in {"HOST_RECONNECT_REQ", "HOST_RECONNECT"} -> Connect(disconnectServer(s))
      [] s.connState \in {"CONNECT_SENT", "DISCONNECT_SENT", "DATA_SENT", "PING_SENT"} ->
           mqtt_client_recv(s, cut)
      [] s.connState = "HOST_CONNECTING" -> IF s.up THEN mqtt_client_connect(s) ELSE s
      [] s.connState = "DISCONNECT_REQ" -> mqtt_client_disconnect(s)
      [] s.connState = "KEEPALIVE_REQ" -> mqtt_send_keepalive(s)
      [] s.connState = "DATA" ->
           IF s.msgQueue = <<>> THEN mqtt_client_recv(s, cut)
           ELSE IF Uncut(s.msgQueue) = <<>> THEN [s EXCEPT !.msgQueue = <<>>]
           ELSE SendQueued(s)
      [] OTHER -> s

(***************************************************************************)
(* MqttClient.cpp: the timer, which runs every second.                     *)
(***************************************************************************)
(* Mutant: the last tick in which an answer is in time is counted out.     *)
HastyTimeout(s) == s.readTimeout + 1 >= ReadTimeout

TimedOut(s) == s.readTimeout + 1 > ReadTimeout

mqtt_timer(s, cut) ==
    CASE s.connState = "DATA" ->
           MQTT_Task([s EXCEPT !.keepAliveTick = @ + 1,
                               !.connState = IF s.keepAliveTick + 1 > KeepAlive
                                             THEN "KEEPALIVE_REQ" ELSE @], cut)
      [] s.connState \in {"CONNECT_SENT", "DISCONNECT_SENT", "PING_SENT", "DATA_SENT"} ->
           MQTT_Task(IF TimedOut(s)
                     THEN [s EXCEPT !.readTimeout = 0, !.connState = "HOST_RECONNECT_REQ"]
                     ELSE [s EXCEPT !.readTimeout = @ + 1], cut)
      [] s.connState = "HOST_RECONNECT_REQ" -> MQTT_Task(s, cut)
      [] s.connState \in {"HOST_CONNECTING", "CONNECT_FAILED", "DISCONNECT_FAILED",
                          "PING_FAILED", "DATA_FAILED"} ->
           IF s.host_connect_tick + 1 > HostTimeout
           THEN MQTT_Task([s EXCEPT !.host_connect_tick = 0, !.connState = "HOST_RECONNECT"], cut)
           ELSE LET t == [s EXCEPT !.host_connect_tick = @ + 1]
                IN IF s.connState = "HOST_CONNECTING" /\ s.up THEN MQTT_Task(t, cut) ELSE t
      [] OTHER -> s

(***************************************************************************)
(* MqttClient.cpp: the operations of the service.                          *)
(***************************************************************************)
Publish(s, q, e) ==
    LET id == IF q > 0 THEN NextId(s) ELSE 0
        t  == [s EXCEPT !.message_id = IF q > 0 THEN id ELSE @]
    IN IF s.up THEN PutMakingRoom(t, Publication(id, q), e) ELSE s

Subscribe(s, topic, e) ==
    LET id == NextId(s)
        t  == PutMakingRoom([s EXCEPT !.message_id = id],
                            OnTopic("SUBSCRIBE", id, topic), e)
    IN IF ~s.up THEN s
       ELSE IF Queued(s, e) /\ ~Contains(s.subscribed_topics, topic)
       THEN [t EXCEPT !.subscribed_topics = Append(@, topic)]
       ELSE t

UnSubscribe(s, topic, e) ==
    LET id == NextId(s)
        t  == PutMakingRoom([s EXCEPT !.message_id = id],
                            OnTopic("UNSUBSCRIBE", id, topic), e)
    IN IF Queued(s, e) THEN [t EXCEPT !.subscribed_topics = Remove(@, topic)] ELSE t

(* The structure after DeleteClient and after the memset of                *)
(* InitConnection; the queue is freed with the client.                     *)
Blank(connState, client) ==
    [connState |-> connState, client |-> client, keepAliveTick |-> 0, readTimeout |-> 0,
     host_connect_tick |-> 0, pending_msg_type |-> "none",
     message_id |-> 0, msgQueue |-> <<>>, subscribed_topics |-> <<>>, mqtt_connected |-> FALSE,
     up |-> FALSE, link |-> FALSE, rx |-> <<>>, out |-> <<>>,
     acked |-> FALSE, lost |-> FALSE, sinceSend |-> 0]

DeleteClient == Blank("DELETING", FALSE)

begin ==
    CASE valid = "ok"        -> Connect(Blank("PUBLISH_RECV", TRUE))
      [] valid = "no host"   -> Blank("DELETING", TRUE)
      [] valid = "no client" -> Blank("PUBLISH_RECV", FALSE)

-----------------------------------------------------------------------------
(***************************************************************************)
(* MqttServiceProvider.cpp: the tasks and the calls of other services.     *)
(***************************************************************************)
Owes(s) == s.link /\ s.out # <<>>
Room(s) == Len(s.rx) < MaxRx

(* sinceSend counts the ticks of a session without a packet sent.          *)
Ticked(s) == [s EXCEPT !.sinceSend = IF s.mqtt_connected /\ @ <= Patience THEN @ + 1 ELSE @]

Timer ==
    /\ timer
    /\ Owes(mq) /\ Room(mq) => lag < MaxLag
    /\ \E cut \in BOOLEAN : mq' = mqtt_timer(Ticked(mq), cut)
    /\ lag' = IF ~Owes(mq) THEN 0 ELSE IF lag < MaxLag THEN lag + 1 ELSE lag
    /\ UNCHANGED <<serviceVars, net, live, budget>>

handleMqttPublish(sync) ==
    /\ is_mqtt_connected(mq)
    /\ \E q \in PubQos, e \in 0..2, cut \in BOOLEAN :
         LET s == Publish(mq, q, e)
         IN mq' = IF sync /\ Queued(mq, e) THEN MQTT_Task(s, cut) ELSE s
    /\ UNCHANGED <<serviceVars, net, live, lag, budget>>

handleMqttSubScribe ==
    /\ is_mqtt_connected(mq)
    /\ \E e \in 0..2 :
         mq' = FoldLeft(LAMBDA s, t : Subscribe(s, t, e), mq,
                        SetToSeq({t \in config : ~Contains(mq.subscribed_topics, t)}))
    /\ UNCHANGED <<serviceVars, net, live, lag, budget>>

Change == budget.changes > 0 /\ budget' = [budget EXCEPT !.changes = @ - 1]

(* A new general or last-will configuration: the client is deleted now and *)
(* begun again by a one-shot task.                                         *)
handleMqttConfigChange ==
    /\ Change
    /\ valid' \in {"ok", "no host", "no client"}
    /\ mq' = DeleteClient
    /\ begins' = begins + 1
    /\ stopped' = "no"
    /\ UNCHANGED <<timer, config, net, live, lag>>

Begin ==
    /\ begins > 0
    /\ mq' = begin
    /\ timer' = (valid = "ok")
    /\ begins' = begins - 1
    /\ lag' = 0
    /\ UNCHANGED <<config, valid, stopped, net, live, budget>>

(* A new publish/subscribe table.  The loop walks subscribed_topics by     *)
(* index while UnSubscribe erases from it.                                 *)
pubsubConfigChange ==
    /\ Change
    /\ config' \in SUBSET Topics
    /\ \E e \in 0..2 :
         mq' = FoldLeft(LAMBDA s, i :
                          IF i <= Len(s.subscribed_topics) /\ s.subscribed_topics[i] \notin config'
                          THEN UnSubscribe(s, s.subscribed_topics[i], e) ELSE s,
                        mq, [i \in 1..Len(mq.subscribed_topics) |-> i])
    /\ UNCHANGED <<timer, begins, valid, stopped, net, live, lag>>

stop ==
    /\ Change
    /\ mq' = DeleteClient
    /\ timer' = FALSE
    /\ stopped' = "stop"
    /\ UNCHANGED <<begins, config, valid, net, live, lag>>

Disconnect ==
    /\ Change
    /\ mq.client
    /\ mq' = MQTT_Task([mq EXCEPT !.connState = "DISCONNECT_REQ"], FALSE)
    /\ stopped' = "disconnect"
    /\ UNCHANGED <<timer, begins, config, valid, net, live, lag>>

-----------------------------------------------------------------------------
(***************************************************************************)
(* The broker and the network.                                             *)
(***************************************************************************)
Answer(p) ==
    CASE p.type = "CONNECT"     -> <<Message("CONNACK", 0)>>
      [] p.type = "SUBSCRIBE"   -> <<Message("SUBACK", p.id)>>
      [] p.type = "UNSUBSCRIBE" -> <<Message("UNSUBACK", p.id)>>
      [] p.type = "PINGREQ"     -> <<Message("PINGRESP", 0)>>
      [] p.type = "PUBLISH" /\ p.qos = 1 -> <<Message("PUBACK", p.id)>>
      [] p.type = "PUBLISH" /\ p.qos = 2 -> <<Message("PUBREC", p.id)>>
      [] p.type = "PUBREC"      -> <<Message("PUBREL", p.id)>>
      [] p.type = "PUBREL"      -> <<Message("PUBCOMP", p.id)>>
      [] OTHER                  -> <<>>

(* A packet that has no answer takes the broker no time.                   *)
BrokerAnswers ==
    /\ Owes(mq) /\ Room(mq)
    /\ LET p == Head(mq.out) IN
       /\ mq' = [mq EXCEPT !.out = Tail(@), !.rx = @ \o Answer(p),
                           !.acked = @ \/ p.type = "CONNECT"]
       /\ live' = CASE p.type = "CONNECT"     -> {}
                    [] p.type = "SUBSCRIBE"   -> live \cup {p.topic}
                    [] p.type = "UNSUBSCRIBE" -> live \ {p.topic}
                    [] OTHER                  -> live
    /\ lag' = IF Answer(Head(mq.out)) = <<>> /\ Len(mq.out) > 1 THEN lag ELSE 0
    /\ UNCHANGED <<serviceVars, net, budget>>

(* An answer overdue comes before a publication.                           *)
BrokerPublishes ==
    /\ mq.link /\ mq.acked /\ live # {} /\ Room(mq)
    /\ Owes(mq) => lag < MaxLag
    /\ \E q \in BrokerQos :
         mq' = [mq EXCEPT !.rx = Append(@, Publication(IF q = 0 THEN 0 ELSE 1, q))]
    /\ UNCHANGED <<serviceVars, net, live, lag, budget>>

(* The broker goes out of reach; the client's socket does not know.        *)
Drop ==
    /\ net /\ budget.drops > 0
    /\ net' = FALSE
    /\ mq' = [mq EXCEPT !.link = FALSE]
    /\ budget' = [budget EXCEPT !.drops = @ - 1]
    /\ UNCHANGED <<serviceVars, live, lag>>

(* The socket learns it: an error empties the receive buffer, an orderly   *)
(* close leaves it.                                                        *)
Notice ==
    /\ mq.up /\ ~mq.link
    /\ \E rx \in {mq.rx, <<>>} : mq' = [mq EXCEPT !.up = FALSE, !.rx = rx]
    /\ UNCHANGED <<serviceVars, net, live, lag, budget>>

NetUp ==
    /\ ~net /\ net' = TRUE
    /\ UNCHANGED <<mq, serviceVars, live, lag, budget>>

Init ==
    /\ mq = DeleteClient
    /\ timer = FALSE /\ begins = 1
    /\ config \in SUBSET Topics
    /\ valid = "ok" /\ stopped = "no"
    /\ net \in BOOLEAN
    /\ live = {} /\ lag = 0
    /\ budget = [drops |-> MaxDrops, changes |-> MaxChanges]

Next ==
    \/ Timer \/ Begin
    \/ \E sync \in BOOLEAN : handleMqttPublish(sync)
    \/ handleMqttSubScribe
    \/ handleMqttConfigChange \/ pubsubConfigChange \/ stop \/ Disconnect
    \/ BrokerAnswers \/ BrokerPublishes \/ Drop \/ Notice \/ NetUp

Spec == Init /\ [][Next]_vars

(* The inline scheduler runs the timer and the pending begin; a broker in  *)
(* reach answers; an outage ends; data the peer never acknowledges ends a  *)
(* dead connection (an idle one is not noticed).                           *)
FairSpec ==
    /\ Spec
    /\ WF_vars(Timer) /\ WF_vars(Begin) /\ WF_vars(BrokerAnswers) /\ WF_vars(NetUp)
    /\ WF_vars(mq.out # <<>> /\ Notice)

-----------------------------------------------------------------------------
(* The client believes in a session only when the broker has accepted one  *)
(* on the very TCP connection it uses: an acknowledgement left over from   *)
(* an earlier connection is never taken for the current one.               *)
SessionIsCurrent == mq.mqtt_connected => mq.acked

(* A topic the client records as subscribed, and will therefore not        *)
(* subscribe again, is subscribed at the broker in this session or a       *)
(* SUBSCRIBE for it, not followed by an UNSUBSCRIBE, is on its way, unless *)
(* the queue has pushed out packets to make room.                          *)
OnItsWay(t) ==
    LET about == SelectSeq(mq.out \o mq.msgQueue, LAMBDA p : p.topic = t)
    IN IF about = <<>> THEN t \in live ELSE Last(about).type = "SUBSCRIBE"

TopicsReachBroker ==
    mq.up /\ mq.link /\ ~mq.lost => \A t \in Range(mq.subscribed_topics) : OnItsWay(t)

(* While a session is up the client is never silent for longer than a      *)
(* broker tolerates: a packet from the broker postpones the ping of        *)
(* mqtt_timer only when the client has sent something to cause it.         *)
NotSilent == mq.mqtt_connected /\ mq.up /\ mq.link => mq.sinceSend <= Patience

(* With the broker in reach and answering in time, the read timeout never  *)
(* ends a session: whichever packet an answer is taken for, a client that  *)
(* waits for one still has one to come.                                    *)
SessionKept ==
    [][Timer /\ mq.mqtt_connected /\ mq.up /\ mq.link
             /\ mq.connState \in {"PING_SENT", "DATA_SENT"} => mq'.mqtt_connected]_vars

(* Whatever state an outage, a failed send or an unanswered packet leaves  *)
(* the client in, while its timer runs and nobody stops it a session comes *)
(* back.                                                                   *)
Reconnects ==
    (timer /\ stopped = "no") ~> (is_mqtt_connected(mq) \/ ~timer \/ stopped # "no")
=============================================================================
