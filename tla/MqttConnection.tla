--------------------------- MODULE MqttConnection ---------------------------
(***************************************************************************)
(* MQTTModule's connection to the broker.  Three tasks write its state     *)
(* without a lock: the mqtt task (loop), the client's own task (onConnect_ *)
(* and onDisconnect_) and the event task (ConfigChanged).  Each has a list *)
(* of accesses still to make, and makes one at a time: setState_ is two of *)
(* them, the state and the MqttReady flag of the DataStore.                *)
(*                                                                         *)
(* The client is ESP-IDF's, as the code uses it: start succeeds on a       *)
(* stopped client and reconnect on one that waits, so that clientStarted_, *)
(* which only chooses which is tried first, is left out.  A stop waits for *)
(* the end of a callback, may report a disconnection, and does nothing to  *)
(* a client that is not there.  The warm-up and the back-off may end at    *)
(* any time; the connect time-out is longer than an attempt of the client. *)
(*                                                                         *)
(* The operators that no action uses (StopLast, NotDirty...) are           *)
(* mistakes easily made here, kept beside the definition they would        *)
(* replace: each breaks a property below.                                  *)
(***************************************************************************)
EXTENDS Integers, Sequences

CONSTANTS MaxTroubles \* bound: changes of the environment, failures, races

ASSUME TroubleAssumption == MaxTroubles \in Nat

VARIABLES
    state,             \* state_
    ready,             \* MqttReady, which the others read
    net,               \* the network: as it is, as netReady_, change to be seen
    enabled,           \* cfgData_.enabled
    suppress,          \* suppressDisconnectEvent_
    clientConfigDirty, \* clientConfigDirty_
    changed,           \* a ConfigChanged of a connection key is in the queue
    session,           \* the client
    stale,             \* history: it was made of older settings
    todo,              \* what each task has left to do
    troubles           \* bound: what MaxTroubles counts

connectionVars == <<state, ready, net, enabled, suppress, clientConfigDirty,
                    changed, session, stale, todo, troubles>>

MQTTState == {"Disabled", "WaitingNetwork", "Connecting", "Connected", "ErrorWait"}
Sessions == {"None", "Stopped", "Dialling", "Up", "Waiting"}
Tasks == {"loop", "event", "client"}
Accesses ==
    [op : {"State", "Ready"}, to : MQTTState]
    \cup [op : {"Suppress", "Stop", "Joined", "Unsuppress", "Dirty", "Ensure",
                "Destroy", "Read", "Clean", "Dial", "Lost"}]

setState(s) == <<[op |-> "State", to |-> s], [op |-> "Ready", to |-> s]>>

stopClient == <<[op |-> "Suppress"], [op |-> "Stop"], [op |-> "Joined"]>>

StopLast(s) == setState(s) \o stopClient

stopThen(s) == stopClient \o setState(s)

onConnect == <<[op |-> "Unsuppress"]>> \o setState("Connected")

connectMqtt == <<[op |-> "Unsuppress"], [op |-> "Ensure"]>>

Idle(t) == todo[t] = <<>>
AllIdle == \A t \in Tasks : Idle(t)

Begins(t, accesses) == todo' = [todo EXCEPT ![t] = accesses]

(* Task t makes its next access, which is op; what is left, unless more    *)
(* follows from it, is the rest of its list.                               *)
Access(t, op) == ~Idle(t) /\ Head(todo[t]).op = op
Proceeds(t) == Begins(t, Tail(todo[t]))

(* The environment and the failures are bounded.                           *)
Trouble(n) ==
    /\ troubles + n <= MaxTroubles
    /\ troubles' = troubles + n
-----------------------------------------------------------------------------
(* Accesses to the flags.                                                  *)
Sets(t) ==
    /\ \/ /\ Access(t, "State")
          /\ state' = Head(todo[t]).to
          /\ UNCHANGED <<ready, suppress, clientConfigDirty>>
       \/ /\ Access(t, "Ready")
          /\ ready' = (Head(todo[t]).to = "Connected")
          /\ UNCHANGED <<state, suppress, clientConfigDirty>>
       \/ /\ Access(t, "Suppress") \/ Access(t, "Unsuppress")
          /\ suppress' = Access(t, "Suppress")
          /\ UNCHANGED <<state, ready, clientConfigDirty>>
       \/ /\ Access(t, "Dirty") \/ Access(t, "Clean")
          /\ clientConfigDirty' = Access(t, "Dirty")
          /\ UNCHANGED <<state, ready, suppress>>
    /\ Proceeds(t)
    /\ UNCHANGED <<net, enabled, changed, session, stale, troubles>>

(* esp_mqtt_client_stop: the client's task ends, perhaps with an event.    *)
Stop(t) ==
    /\ Access(t, "Stop") /\ Idle("client")
    /\ session' = IF session = "None" THEN "None" ELSE "Stopped"
    /\ \/ Proceeds(t)
       \/ /\ session = "Up"
          /\ todo' = [todo EXCEPT ![t] = Tail(@), !["client"] = <<[op |-> "Lost"]>>]
    /\ UNCHANGED <<state, ready, net, enabled, suppress, clientConfigDirty, changed, stale,
                   troubles>>

Joined(t) ==
    /\ Access(t, "Joined") /\ Idle("client")
    /\ Proceeds(t)
    /\ UNCHANGED <<state, ready, net, enabled, suppress, clientConfigDirty,
                   changed, session, stale, troubles>>

(* onDisconnect_ looks whether the event is to be ignored.                 *)
onDisconnect ==
    /\ Access("client", "Lost")
    /\ suppress' = FALSE
    /\ Begins("client", IF suppress THEN <<>> ELSE setState("ErrorWait"))
    /\ UNCHANGED <<state, ready, net, enabled, clientConfigDirty, changed, session, stale,
                   troubles>>
-----------------------------------------------------------------------------
(* ensureClient_: a client of older settings is destroyed, another made.   *)
NotDirty == ~clientConfigDirty

Usable == session # "None" /\ ~clientConfigDirty

Destruction ==
    IF session = "None" THEN <<>>
    ELSE <<[op |-> "Stop"], [op |-> "Joined"], [op |-> "Destroy"]>>

Ensure ==
    /\ Access("loop", "Ensure")
    /\ Begins("loop", (IF Usable THEN <<>> ELSE Destruction \o <<[op |-> "Read"],
                                        [op |-> "Clean"]>>)
                      \o <<[op |-> "Dial"]>>)
    /\ UNCHANGED <<state, ready, net, enabled, suppress, clientConfigDirty,
                   changed, session, stale, troubles>>

Destroy ==
    /\ Access("loop", "Destroy")
    /\ session' = "None"
    /\ stale' = FALSE
    /\ Proceeds("loop")
    /\ UNCHANGED <<state, ready, net, enabled, suppress, clientConfigDirty, changed, troubles>>

(* The client is made of the settings of this moment, or cannot be.        *)
Read ==
    /\ Access("loop", "Read")
    /\ \/ /\ session' = "Stopped"
          /\ Proceeds("loop")
          /\ UNCHANGED troubles
       \/ /\ Trouble(1)
          /\ Begins("loop", setState("ErrorWait"))
          /\ UNCHANGED session
    /\ UNCHANGED <<state, ready, net, enabled, suppress, clientConfigDirty, changed, stale>>

(* connectMqtt_: start, or reconnect, and the other one if that fails.     *)
Dial ==
    /\ Access("loop", "Dial")
    /\ \/ /\ session \in {"Stopped", "Waiting"}
          /\ session' = "Dialling"
          /\ Begins("loop", setState("Connecting"))
          /\ UNCHANGED troubles
       \/ /\ Trouble(IF session \in {"Stopped", "Waiting"} THEN 1 ELSE 0)
          /\ Begins("loop", setState("ErrorWait"))
          /\ UNCHANGED session
    /\ UNCHANGED <<state, ready, net, enabled, suppress, clientConfigDirty, changed, stale>>
-----------------------------------------------------------------------------
(* The loop of the mqtt task decides.                                      *)
Decides(accesses) ==
    /\ Idle("loop")
    /\ Begins("loop", accesses)
    /\ UNCHANGED <<state, ready, enabled, suppress, clientConfigDirty, changed, session, stale,
                   troubles>>

SeesNetwork ==
    /\ net.key
    /\ net' = [real |-> net.real, seen |-> net.real, key |-> FALSE]
    /\ Decides(IF net.real = net.seen THEN <<>>
               ELSE IF ~net.real THEN stopThen("WaitingNetwork")
               ELSE IF state = "Connected" THEN <<>> ELSE setState("WaitingNetwork"))

Disables == ~enabled /\ state # "Disabled" /\ Decides(stopThen("Disabled"))

Enables == enabled /\ state = "Disabled" /\ Decides(setState("WaitingNetwork"))

Connects == enabled /\ state = "WaitingNetwork" /\ net.seen /\ Decides(connectMqtt)

OnlyTimedOut == setState("ErrorWait")

ConnectTimedOut == stopThen("ErrorWait")

TimesOut ==
    /\ enabled /\ state = "Connecting" /\ session # "Dialling" /\ Idle("client")
    /\ Decides(ConnectTimedOut)

Retries == enabled /\ state = "ErrorWait" /\ Decides(setState("WaitingNetwork"))

Switch ==
    /\ Disables \/ Enables \/ Connects \/ TimesOut \/ Retries
    /\ UNCHANGED net

(* There is nothing to decide, or no time has passed.                      *)
GoesRound == Decides(<<>>) /\ UNCHANGED net

(* The event task: handleEvent_ of a connection key.                       *)
SeesSettings ==
    /\ changed /\ Idle("event")
    /\ changed' = FALSE
    /\ Begins("event", <<[op |-> "Dirty"]>> \o stopThen("WaitingNetwork"))
    /\ UNCHANGED <<state, ready, net, enabled, suppress, clientConfigDirty, session, stale,
                   troubles>>
-----------------------------------------------------------------------------
(* The client's task.  It may overtake the loop that has just started it.  *)
Reports(s, accesses, trouble) ==
    /\ Idle("client")
    /\ session' = s
    /\ Begins("client", accesses)
    /\ Trouble(trouble)
    /\ UNCHANGED <<state, ready, net, enabled, suppress, clientConfigDirty, changed, stale>>

AttemptSucceeds ==
    /\ session = "Dialling" /\ net.real
    /\ Reports("Up", onConnect, IF Idle("loop") THEN 0 ELSE 1)

AttemptFails ==
    /\ session = "Dialling"
    /\ Reports("Waiting", <<[op |-> "Lost"]>>, IF net.real THEN 1 ELSE 0)

ConnectionFails ==
    /\ session = "Up"
    /\ Reports("Waiting", <<[op |-> "Lost"]>>, IF net.real THEN 1 ELSE 0)
-----------------------------------------------------------------------------
(* The network, and the settings.                                          *)
NetworkChanges ==
    /\ net' = [net EXCEPT !.real = ~@, !.key = TRUE]
    /\ Trouble(1)
    /\ UNCHANGED <<state, ready, enabled, suppress, clientConfigDirty, changed, session, stale,
                   todo>>

SettingsChange ==
    /\ stale' = (session # "None")
    /\ changed' = TRUE
    /\ Trouble(1)
    /\ UNCHANGED <<state, ready, net, enabled, suppress, clientConfigDirty, session, todo>>

EnabledChanges ==
    /\ enabled' = ~enabled
    /\ Trouble(1)
    /\ UNCHANGED <<state, ready, net, suppress, clientConfigDirty, changed, session, stale, todo>>
-----------------------------------------------------------------------------
ConnectionInit ==
    /\ enabled = TRUE /\ state = "WaitingNetwork"
    /\ ready = FALSE
    /\ net = [real |-> FALSE, seen |-> FALSE, key |-> FALSE]
    /\ suppress = FALSE /\ clientConfigDirty = FALSE /\ changed = FALSE
    /\ session = "None" /\ stale = FALSE
    /\ todo = [t \in Tasks |-> <<>>]
    /\ troubles = 0

Accessing(t) == Sets(t) \/ Stop(t) \/ Joined(t)
Looping == Ensure \/ Destroy \/ Read \/ Dial \/ SeesNetwork \/ Switch

ConnectionNext ==
    \/ \E t \in Tasks : Accessing(t)
    \/ onDisconnect
    \/ Looping \/ GoesRound \/ SeesSettings
    \/ AttemptSucceeds \/ AttemptFails \/ ConnectionFails
    \/ NetworkChanges \/ SettingsChange \/ EnabledChanges

(* No task rests in the middle of its accesses; the loop goes round, its   *)
(* delays end; the event task serves its queue; a started client tells     *)
(* what became of its attempt, and loses the broker with the network.      *)
ConnectionFairness ==
    /\ \A t \in Tasks : []<>Idle(t)
    /\ WF_connectionVars(Switch)
    /\ WF_connectionVars(SeesNetwork)
    /\ []<>~changed /\ []<>(session # "Dialling") /\ []<>~(session = "Up" /\ ~net.real)

ConnectionSpec == ConnectionInit /\ [][ConnectionNext]_connectionVars /\ ConnectionFairness
-----------------------------------------------------------------------------
(* The client, its state and the deadlines keep their types.               *)
ConnectionTypeOK ==
    /\ state \in MQTTState /\ ready \in BOOLEAN
    /\ net \in [real : BOOLEAN, seen : BOOLEAN, key : BOOLEAN]
    /\ enabled \in BOOLEAN /\ suppress \in BOOLEAN /\ changed \in BOOLEAN
    /\ clientConfigDirty \in BOOLEAN /\ stale \in BOOLEAN
    /\ session \in Sessions
    /\ Access("loop", "Dial") => session # "None"
    /\ \A t \in Tasks : \A i \in DOMAIN todo[t] : todo[t][i] \in Accesses
    /\ troubles \in 0..MaxTroubles

(* Nothing looks after the state Connected but the event of its end, and   *)
(* nothing after Disabled: when no task is at work the first means that    *)
(* the client is connected, and the second that it is stopped.             *)
StateMatchesClient ==
    AllIdle => /\ state = "Connected" => session = "Up"
               /\ state = "Disabled" => session \in {"None", "Stopped"}

(* The connection, between any two steps of its three tasks.               *)
ConnectionSound == ConnectionTypeOK /\ StateMatchesClient

(* Once the network is there to stay, whatever the tasks overwrote, the    *)
(* module ends up connected with the settings in force, and knows it.  Not *)
(* when a change is handled while the loop makes its client: the flag that *)
(* the event task sets is cleared by the loop, and the settings forgotten. *)
Making == \E op \in {"Destroy", "Read", "Clean", "Dial"} : Access("loop", op)

ConnectsAgain ==
    <>[](enabled /\ net.real) /\ [](Making => Idle("event"))
        => <>[](state = "Connected" /\ session = "Up" /\ ~stale)
=============================================================================
