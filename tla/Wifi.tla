-------------------------------- MODULE Wifi --------------------------------
(***************************************************************************)
(* The Wi-Fi station of the C firmware, espidf/main/wifi.c, during one     *)
(* wake of the device: the event handler that retries, the event group     *)
(* that carries its verdict, and the wait of the main task.                *)
(*                                                                         *)
(* Three parties run at once: the Wi-Fi driver (external; it posts events  *)
(* to a queue), the event task (one handler call per event), and the main  *)
(* task.  Static variables of the C file live in RAM that deep sleep does  *)
(* not keep, so a wake starts from the values of WifiReset.                *)
(***************************************************************************)
EXTENDS Integers, Sequences

CONSTANTS
    MAX_RETRY,  \* reconnects before the verdict (5 in the code)
    Creds,      \* credentials: what a wifi_config_t holds
    GoodCreds,  \* those the router accepts
    NoCreds     \* none set

ASSUME WifiAssumption ==
    /\ MAX_RETRY \in Nat
    /\ GoodCreds \subseteq Creds
    /\ NoCreds \notin Creds

VARIABLES
    router,         \* the router is on the air
    sta,            \* the driver's station
    sta_config,     \* the credentials the driver was given
    evq,            \* posted events, oldest first
    s_retry_num,
    bits,           \* s_wifi_event_group
    waiter,         \* the main task in wifi_wait_connected[_timeout]
    streak          \* history: disconnects handled since start or last IP

wifivars == <<router, sta, sta_config, evq, s_retry_num, bits, waiter, streak>>

Started == sta # "stopped"
Verdict == {"CONNECTED", "FAIL"}
Blocked == {"timed", "forever"}     \* with a timeout, and without

(* RAM at power-up and after deep sleep. *)
WifiInit ==
    /\ router \in BOOLEAN
    /\ sta = "stopped"
    /\ sta_config = NoCreds
    /\ evq = <<>>
    /\ s_retry_num = 0
    /\ bits = {}
    /\ waiter = "none"
    /\ streak = 0

WifiReset ==
    /\ sta' = "stopped"
    /\ sta_config' = NoCreds
    /\ evq' = <<>>
    /\ s_retry_num' = 0
    /\ bits' = {}
    /\ waiter' = "none"
    /\ streak' = 0

-----------------------------------------------------------------------------
(* The driver (external): it starts, tries to connect when told to, and    *)
(* tells what came of it.                                                  *)
Post(e) == evq' = Append(evq, e)

Associate ==
    /\ sta = "connecting"
    /\ router /\ sta_config \in GoodCreds
    /\ sta' = "associated"
    /\ UNCHANGED <<router, sta_config, evq, s_retry_num, bits, waiter, streak>>

(* Wrong password, no such network, or the air is bad. *)
ConnectFails ==
    /\ sta = "connecting"
    /\ sta' = "idle"
    /\ Post("DISCONNECTED")
    /\ UNCHANGED <<router, sta_config, s_retry_num, bits, waiter, streak>>

DhcpAnswers ==
    /\ sta = "associated"
    /\ sta' = "online"
    /\ Post("GOT_IP")
    /\ UNCHANGED <<router, sta_config, s_retry_num, bits, waiter, streak>>

LinkLost ==
    /\ sta \in {"associated", "online"}
    /\ sta' = "idle"
    /\ Post("DISCONNECTED")
    /\ UNCHANGED <<router, sta_config, s_retry_num, bits, waiter, streak>>

RouterChanges ==
    /\ router' = ~router
    /\ UNCHANGED <<sta, sta_config, evq, s_retry_num, bits, waiter, streak>>

(* What esp_wifi_connect starts comes to an end, one way or the other.  An  *)
(* address may be long in coming, or never come.                           *)
Attempt == Associate \/ ConnectFails

Driver == Attempt \/ DhcpAnswers \/ LinkLost

-----------------------------------------------------------------------------
(* esp_wifi_connect does nothing unless the station is started and idle. *)
Connect == sta' = IF sta = "idle" THEN "connecting" ELSE sta

OnStart ==
    /\ Head(evq) = "START"
    /\ Connect
    /\ UNCHANGED <<s_retry_num, bits, streak>>

(* Mutant: a retry is not counted. *)
Bug_Uncounted ==
    /\ Head(evq) = "DISCONNECTED"
    /\ streak' = IF streak > MAX_RETRY THEN streak ELSE streak + 1
    /\ Connect
    /\ UNCHANGED <<s_retry_num, bits>>

(* Mutant: a handler that gives up in silence. *)
Bug_SilentEnd ==
    /\ Head(evq) = "DISCONNECTED"
    /\ streak' = streak + 1
    /\ IF s_retry_num < MAX_RETRY
       THEN Connect /\ s_retry_num' = s_retry_num + 1
       ELSE UNCHANGED <<sta, s_retry_num>>
    /\ UNCHANGED bits

OnDisconnected ==
    /\ Head(evq) = "DISCONNECTED"
    /\ streak' = streak + 1
    /\ \/ /\ s_retry_num < MAX_RETRY
          /\ Connect
          /\ s_retry_num' = s_retry_num + 1
          /\ UNCHANGED bits
       \/ /\ s_retry_num >= MAX_RETRY
          /\ bits' = bits \cup {"FAIL"}
          /\ UNCHANGED <<sta, s_retry_num>>

(* Mutant: the retries are not counted anew. *)
Bug_OnGotIp ==
    /\ Head(evq) = "GOT_IP"
    /\ bits' = bits \cup {"CONNECTED"}
    /\ streak' = 0
    /\ UNCHANGED <<sta, s_retry_num>>

OnGotIp ==
    /\ Head(evq) = "GOT_IP"
    /\ s_retry_num' = 0
    /\ bits' = bits \cup {"CONNECTED"}
    /\ streak' = 0
    /\ UNCHANGED sta

(* event_handler, on the event at the head of the queue. *)
EventHandler ==
    /\ evq # <<>>
    /\ OnStart \/ OnDisconnected \/ OnGotIp
    /\ evq' = Tail(evq)
    /\ UNCHANGED <<router, sta_config, waiter>>

-----------------------------------------------------------------------------
(* wifi_init_sta: the event group is made, the station configured and      *)
(* started; it reports its start as an event.  Called once in a wake.      *)
InitSta(c) ==
    /\ ~Started
    /\ waiter = "none"
    /\ sta_config' = c
    /\ sta' = "idle"
    /\ Post("START")
    /\ UNCHANGED <<router, s_retry_num, bits, waiter, streak>>

(* wifi_wait_connected_timeout with a timeout, wifi_wait_connected without. *)
CallWait(how) ==
    /\ Started
    /\ waiter = "none"
    /\ waiter' = how
    /\ UNCHANGED <<router, sta, sta_config, evq, s_retry_num, bits, streak>>

(* The wait ends on a bit, or on the timeout with the bits of that moment. *)
(* CONNECTED wins over FAIL, and neither is cleared.                       *)
WaitReturns ==
    /\ waiter = "timed" \/ (waiter = "forever" /\ bits # {})
    /\ waiter' = IF "CONNECTED" \in bits THEN "true" ELSE "false"
    /\ UNCHANGED <<router, sta, sta_config, evq, s_retry_num, bits, streak>>

(* wifi_stop: a station that was trying or connected reports its end. *)
Stop ==
    /\ Started
    /\ sta' = "stopped"
    /\ IF sta = "idle" THEN UNCHANGED evq ELSE Post("DISCONNECTED")
    /\ UNCHANGED <<router, sta_config, s_retry_num, bits, waiter, streak>>

-----------------------------------------------------------------------------
WifiNext ==
    \/ Driver
    \/ RouterChanges
    \/ EventHandler
    \/ \E c \in Creds : InitSta(c)
    \/ \E how \in Blocked : CallWait(how)
    \/ WaitReturns
    \/ /\ waiter \in {"true", "false"}
       /\ Stop
    \/ /\ ~Started /\ waiter # "none"       \* deep sleep, next wake
       /\ WifiReset /\ UNCHANGED router

(* The event task runs, and the driver ends what it was told to do: ESP-IDF *)
(* associates the station or posts an event.  Nothing is assumed of the    *)
(* router, of its DHCP server, of the air, or of the main task.            *)
WifiSpec ==
    /\ WifiInit /\ [][WifiNext]_wifivars
    /\ WF_wifivars(Attempt)
    /\ WF_wifivars(EventHandler)

-----------------------------------------------------------------------------
(* The verdict FAIL comes after MAX_RETRY + 1 disconnects in a row with no *)
(* address between them: a success in the middle starts the count again    *)
(* (event_handler, s_retry_num).                                           *)
FailMeansExhausted == "FAIL" \in bits /\ Started => streak > MAX_RETRY

(* No lost wakeup: a started station that is idle with no event pending    *)
(* has given its verdict.  Otherwise nothing would ever set a bit and the  *)
(* wait could end by its timeout only (event_handler).                     *)
NeverAbandoned ==
    Started /\ sta = "idle" /\ evq = <<>> => "FAIL" \in bits

(* A started station gives a verdict, though nobody stops it: links that   *)
(* break off before there is an address are retried as often as any other  *)
(* failure and no oftener.  But for one case: an access point that keeps   *)
(* the station and gives it no address, which sends no event and is left   *)
(* to the timeout of the caller (event_handler, s_retry_num).              *)
VerdictComes ==
    (Started ~> bits # {} \/ ~Started) \/ <>[](sta = "associated")
=============================================================================
