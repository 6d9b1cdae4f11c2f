--------------------------- MODULE FirmwareProofs ---------------------------
(***************************************************************************)
(* The C firmware: what its Wi-Fi station promises for every number of     *)
(* retries and all credentials, then the watchdog, the way into AP mode    *)
(* and the page of the portal, for all thresholds, all credentials, any    *)
(* number of resets, hangs and failing calls.  Last, the packets of both   *)
(* firmwares: which of them the server reads back whole, for every length  *)
(* of a topic and of a payload.  The digits of the length are written      *)
(* lowest first and read highest first, and that does no harm exactly when *)
(* the lower digit is not below the higher.                                *)
(***************************************************************************)
EXTENDS Firmware, Wire, FiniteSetTheorems, SequenceTheorems, WellFoundedInduction, TLAPS

-----------------------------------------------------------------------------
(* The station by itself (Wifi.tla). *)

Event == {"START", "DISCONNECTED", "GOT_IP"}

WifiTypeOK ==
    /\ router \in BOOLEAN
    /\ sta \in {"stopped", "idle", "connecting", "associated", "online"}
    /\ sta_config \in Creds \cup {NoCreds}
    /\ evq \in Seq(Event)
    /\ s_retry_num \in 0 .. MAX_RETRY
    /\ bits \subseteq Verdict
    /\ waiter \in {"none", "true", "false"} \cup Blocked
    /\ streak \in Nat

(* The verdict FAIL is the end: a station that has given it stays idle, and no event of it is left. *)
Given == Started /\ "FAIL" \in bits => sta = "idle" /\ evq = <<>> /\ streak > MAX_RETRY

(* Until then an event that makes the handler connect is pending just when the station is idle, *)
(* and it is the last of the queue.                                                             *)
Owed ==
    Started /\ "FAIL" \notin bits =>
        /\ sta = "idle" => evq # <<>> /\ evq[Len(evq)] # "GOT_IP"
        /\ sta # "idle" => \A i \in 1 .. Len(evq) : evq[i] = "GOT_IP"
        /\ \A i \in 1 .. Len(evq) : i < Len(evq) => evq[i] = "GOT_IP"

(* A wake begins with nothing left over from the last one. *)
Fresh == ~Started /\ waiter = "none" => evq = <<>> /\ bits = {}

WaitsStarted == waiter \in Blocked => Started

WifiInv ==
    /\ WifiTypeOK
    /\ s_retry_num <= streak
    /\ Given /\ Owed /\ Fresh /\ WaitsStarted

(* Events are handled in the order they were posted. *)
LEMMA Queue ==
    ASSUME NEW q \in Seq(Event)
    PROVE  /\ Len(q) \in Nat
           /\ q # <<>> <=> Len(q) > 0
           /\ \A e \in Event : /\ Append(q, e) \in Seq(Event)
                               /\ Len(Append(q, e)) = Len(q) + 1
                               /\ Append(q, e)[Len(q) + 1] = e
                               /\ \A i \in 1 .. Len(q) : Append(q, e)[i] = q[i]
           /\ \A i \in 1 .. Len(q) : q[i] \in Event
           /\ q # <<>> => /\ Head(q) = q[1]
                          /\ Tail(q) \in Seq(Event)
                          /\ Len(Tail(q)) = Len(q) - 1
                          /\ \A i \in 1 .. Len(q) - 1 : Tail(q)[i] = q[i + 1]
  BY DEF Event

LEMMA WifiInvInit == WifiInit => WifiInv
  BY WifiAssumption
     DEF WifiInit, WifiInv, WifiTypeOK, Given, Owed, Fresh, WaitsStarted, Started, Blocked, Event, Verdict

(* The driver posts an event only when it leaves the station idle, or an address to one that   *)
(* waits for it.                                                                                *)
LEMMA DriverKeeps == WifiInv /\ (Driver \/ RouterChanges) => WifiInv'
<1> SUFFICES ASSUME WifiInv, Driver \/ RouterChanges PROVE WifiInv'
  OBVIOUS
<1> USE DEF WifiInv, WifiTypeOK, Given, Owed, Fresh, WaitsStarted, Started, Blocked
<1>q. evq \in Seq(Event) /\ Len(evq) \in Nat /\ \A i \in 1 .. Len(evq) : evq[i] \in Event
  BY Queue
<1>1. CASE Associate
  BY <1>1, <1>q DEF Associate
<1>2. CASE DhcpAnswers
  <2>1. /\ evq' \in Seq(Event) /\ Len(evq') = Len(evq) + 1 /\ evq'[Len(evq) + 1] = "GOT_IP"
        /\ \A i \in 1 .. Len(evq) : evq'[i] = evq[i]
    BY <1>2, Queue DEF DhcpAnswers, Post, Event
  <2> QED
    BY <1>2, <1>q, <2>1 DEF DhcpAnswers
<1>3. CASE ConnectFails \/ LinkLost
  <2>1. /\ evq' \in Seq(Event) /\ Len(evq') = Len(evq) + 1 /\ evq'[Len(evq) + 1] = "DISCONNECTED"
        /\ \A i \in 1 .. Len(evq) : evq'[i] = evq[i]
    BY <1>3, Queue DEF ConnectFails, LinkLost, Post, Event
  <2>2. evq' # <<>>
    BY <2>1, <1>q, Queue
  <2>3. /\ sta \in {"connecting", "associated", "online"} /\ sta' = "idle"
        /\ UNCHANGED <<router, sta_config, s_retry_num, bits, waiter, streak>>
    BY <1>3 DEF ConnectFails, LinkLost
  <2>4. Owed'
    BY <1>q, <2>1, <2>2, <2>3
  <2> QED
    BY <1>q, <2>1, <2>3, <2>4
<1>4. CASE RouterChanges
  BY <1>4, <1>q DEF RouterChanges
<1> QED
  BY <1>1, <1>2, <1>3, <1>4 DEF Driver, Attempt

(* The handler connects an idle station or, with no retries left, gives the verdict. *)
LEMMA HandlerKeeps == WifiInv /\ EventHandler => WifiInv'
<1> SUFFICES ASSUME WifiInv, EventHandler PROVE WifiInv'
  OBVIOUS
<1> USE DEF WifiInv, WifiTypeOK, Given, Owed, Fresh, WaitsStarted, Started, Blocked
<1>q. /\ evq \in Seq(Event) /\ Len(evq) \in Nat /\ Len(evq) > 0 /\ evq[1] = Head(evq)
      /\ \A i \in 1 .. Len(evq) : evq[i] \in Event
  BY Queue DEF EventHandler
<1>t. /\ evq' \in Seq(Event) /\ Len(evq') = Len(evq) - 1
      /\ \A i \in 1 .. Len(evq) - 1 : evq'[i] = evq[i + 1]
  BY Queue DEF EventHandler
<1>e. evq' = <<>> <=> Len(evq') = 0
  BY <1>t, Queue
<1>v. UNCHANGED <<router, sta_config, waiter>>
  BY DEF EventHandler
<1>n. waiter # "none" \/ Started
  BY DEF EventHandler
<1>m. MAX_RETRY \in Nat
  BY WifiAssumption
<1>i. ASSUME Started, "FAIL" \notin bits, evq[1] # "GOT_IP"
      PROVE  sta = "idle" /\ Len(evq) = 1
  <2>1. 1 \in 1 .. Len(evq)
    BY <1>q
  <2>2. /\ sta # "idle" => \A i \in 1 .. Len(evq) : evq[i] = "GOT_IP"
        /\ \A i \in 1 .. Len(evq) : i < Len(evq) => evq[i] = "GOT_IP"
    BY <1>i
  <2>3. sta = "idle" /\ ~(1 < Len(evq))
    BY <1>i, <2>1, <2>2, Zenon
  <2>4. Len(evq) \in Nat /\ Len(evq) > 0
    BY <1>q
  <2>5. \A n \in Nat : n > 0 /\ ~(1 < n) => n = 1
    OBVIOUS
  <2> QED
    BY <2>3, <2>4, <2>5, Zenon
<1>1. CASE OnStart \/ (OnDisconnected /\ s_retry_num < MAX_RETRY)
  <2>1. /\ sta' = IF sta = "idle" THEN "connecting" ELSE sta
        /\ bits' = bits /\ streak' \in Nat
        /\ s_retry_num' \in 0 .. MAX_RETRY /\ s_retry_num' <= streak'
        /\ evq[1] # "GOT_IP"
    BY <1>1, <1>q, <1>m DEF OnStart, OnDisconnected, Connect
  <2>2. Started /\ "FAIL" \notin bits => sta = "idle" /\ Len(evq) = 1
    BY <1>i, <2>1
  <2>3. Started /\ "FAIL" \in bits => FALSE
    BY <1>q, Queue
  <2> QED
    BY <1>q, <1>t, <1>e, <1>v, <1>n, <2>1, <2>2, <2>3
<1>2. CASE OnDisconnected /\ s_retry_num >= MAX_RETRY
  <2>1. /\ sta' = sta /\ bits' = bits \cup {"FAIL"} /\ streak' = streak + 1
        /\ s_retry_num' = s_retry_num /\ evq[1] = "DISCONNECTED"
    BY <1>2, <1>q, <1>m DEF OnDisconnected
  <2>2. Started /\ "FAIL" \notin bits => sta = "idle" /\ Len(evq) = 1
    BY <1>i, <2>1
  <2>3. Started /\ "FAIL" \in bits => FALSE
    BY <1>q, Queue
  <2>4. Given'
    BY <1>m, <1>q, <1>t, <1>e, <2>1, <2>2, <2>3, <1>2
  <2>5. Fresh' /\ Owed'
    BY <1>v, <1>n, <2>1
  <2> QED
    BY <1>t, <1>v, <1>n, <2>1, <2>4, <2>5 DEF Verdict
<1>3. CASE OnGotIp
  <2>1. /\ sta' = sta /\ bits' = bits \cup {"CONNECTED"} /\ streak' = 0
        /\ s_retry_num' = 0 /\ evq[1] = "GOT_IP"
    BY <1>3, <1>q DEF OnGotIp
  <2>2. Started /\ "FAIL" \in bits => FALSE
    BY <1>q, Queue
  <2>3. Started /\ sta = "idle" => Len(evq) > 1
    BY <1>q, <2>1, <2>2
  <2>4. Owed'
    BY <1>q, <1>t, <1>e, <2>1, <2>2, <2>3
  <2> QED
    BY <1>m, <1>q, <1>t, <1>v, <1>n, <2>1, <2>2, <2>4 DEF Verdict
<1> QED
  BY <1>1, <1>2, <1>3, <1>m DEF EventHandler, OnDisconnected

(* The main task starts the station with an empty queue, waits, and stops it. *)
LEMMA MainKeeps ==
    ASSUME WifiInv,
           \/ \E c \in Creds : InitSta(c)
           \/ \E how \in Blocked : CallWait(how)
           \/ WaitReturns
           \/ waiter \in {"true", "false"} /\ Stop
           \/ ~Started /\ waiter # "none" /\ WifiReset /\ UNCHANGED router
    PROVE  WifiInv'
<1> USE DEF WifiInv, WifiTypeOK, Given, Owed, Fresh, WaitsStarted, Started, Blocked
<1>q. evq \in Seq(Event) /\ Len(evq) \in Nat /\ \A i \in 1 .. Len(evq) : evq[i] \in Event
  BY Queue
<1>1. ASSUME NEW c \in Creds, InitSta(c) PROVE WifiInv'
  <2>1. evq = <<>> /\ bits = {}
    BY <1>1 DEF InitSta
  <2>2. /\ evq' \in Seq(Event) /\ Len(evq') = 1 /\ evq'[1] = "START" /\ evq' # <<>>
    BY <1>1, <2>1 DEF InitSta, Post, Event
  <2> QED
    BY <1>1, <2>1, <2>2 DEF InitSta
<1>2. ASSUME NEW how \in Blocked, CallWait(how) PROVE WifiInv'
  BY <1>2, <1>q DEF CallWait
<1>3. CASE WaitReturns
  BY <1>3, <1>q DEF WaitReturns
<1>4. CASE waiter \in {"true", "false"} /\ Stop
  <2>1. evq' \in Seq(Event)
    BY <1>4, <1>q, Queue DEF Stop, Post, Event
  <2> QED
    BY <1>4, <2>1 DEF Stop
<1>5. CASE WifiReset /\ UNCHANGED router
  <2>1. evq' \in Seq(Event)
    BY <1>5 DEF WifiReset
  <2> QED
    BY <1>5, <2>1, WifiAssumption DEF WifiReset
<1> QED
  BY <1>1, <1>2, <1>3, <1>4, <1>5

LEMMA WifiInvStep == WifiInv /\ [WifiNext]_wifivars => WifiInv'
<1> SUFFICES ASSUME WifiInv, [WifiNext]_wifivars PROVE WifiInv'
  OBVIOUS
<1>1. CASE Driver \/ RouterChanges
  BY <1>1, DriverKeeps
<1>2. CASE EventHandler
  BY <1>2, HandlerKeeps
<1>3. CASE \/ \E c \in Creds : InitSta(c)
           \/ \E how \in Blocked : CallWait(how)
           \/ WaitReturns
           \/ waiter \in {"true", "false"} /\ Stop
           \/ ~Started /\ waiter # "none" /\ WifiReset /\ UNCHANGED router
  BY <1>3, MainKeeps
<1>4. CASE UNCHANGED wifivars
  BY <1>4 DEF wifivars, WifiInv, WifiTypeOK, Given, Owed, Fresh, WaitsStarted, Started
<1> QED
  BY <1>1, <1>2, <1>3, <1>4 DEF WifiNext

LEMMA WifiInvariant == WifiSpec => []WifiInv
  BY WifiInvInit, WifiInvStep, PTL DEF WifiSpec

(* The verdict FAIL is given only after MAX_RETRY + 1 disconnects in a row, whatever the       *)
(* driver and the router do (event_handler, s_retry_num): by Given.                             *)
THEOREM FailNeedsExhaustion == WifiSpec => []FailMeansExhausted
<1>1. WifiInv => FailMeansExhausted
  BY DEF WifiInv, Given, FailMeansExhausted
<1> QED
  BY <1>1, WifiInvariant, PTL

(* A started station is never left idle with nothing in the queue and no verdict, so the wait   *)
(* of the main task has something to end it (event_handler): by Owed.                           *)
THEOREM IdleHasVerdict == WifiSpec => []NeverAbandoned
<1>1. WifiInv => NeverAbandoned
  BY DEF WifiInv, Owed, NeverAbandoned
<1> QED
  BY <1>1, WifiInvariant, PTL

-----------------------------------------------------------------------------
(* The wake cycle and the portal (Firmware.tla). *)

Counters == <<s_wifi_fail_count, failed>>

(* Everything beside app_main: it moves neither pc nor a counter nor the watchdog. *)
Beside == Radio \/ Portal

(* The resets that are not a wake from deep sleep. *)
Resets == RestartAfterSave \/ WdtFires \/ UnwantedReset

LEMMA BesideIsAside == Beside => UNCHANGED <<pc, rtc, wdt, history>>
  BY DEF Beside, Radio, Portal, Frame

LEMMA ResetStartsAnew ==
    Resets => /\ pc' = "boot" /\ s_wifi_fail_count' = 0 /\ wdt' = TRUE
              /\ ApReset /\ UNCHANGED history
  BY DEF Resets, RestartAfterSave, WdtFires, UnwantedReset, Reset, Goto, history

-----------------------------------------------------------------------------
(* The watchdog is off from RemoveWdt to the wake, and in AP mode. *)
WdtInv == pc \in {"stop", "sleep", "ap"} => ~wdt

LEMMA WdtStep == WdtInv /\ [FwNext]_fwvars => WdtInv'
<1> SUFFICES ASSUME WdtInv, [FwNext]_fwvars PROVE WdtInv'
  OBVIOUS
<1> USE DEF WdtInv
<1>1. CASE NoCredentials \/ TooManyFailures
  BY <1>1 DEF NoCredentials, TooManyFailures, EnterAp
<1>2. CASE TryWifi \/ StartSta \/ SensorInit \/ WifiFailed \/ WifiWorked \/ MeasureAndSend \/ SendConfig
  BY <1>2 DEF TryWifi, StartSta, SensorInit, WifiFailed, WifiWorked, MeasureAndSend, SendConfig, Goto
<1>3. CASE WaitForWifi \/ Hang \/ NvsErased \/ UNCHANGED fwvars
  BY <1>3 DEF WaitForWifi, Hang, NvsErased, fwvars
<1>4. CASE RemoveWdt
  BY <1>4 DEF RemoveWdt
<1>5. CASE Sleep
  BY <1>5 DEF Sleep, At, Goto
<1>6. CASE Wake
  BY <1>6 DEF Wake, Goto
<1>7. CASE Beside
  BY <1>7, BesideIsAside
<1>8. CASE Resets
  BY <1>8, ResetStartsAnew
<1> QED
  BY <1>1, <1>2, <1>3, <1>4, <1>5, <1>6, <1>7, <1>8 DEF FwNext, Main, Beside, Resets

(* No watchdog is armed where the device waits without a limit (app_main, deep_sleep). *)
THEOREM WaitsAreUnwatched == FwSpec => []UnwatchedWaits
<1>1. FwInit => WdtInv
  BY DEF FwInit, WdtInv
<1>2. WdtInv => UnwatchedWaits
  BY DEF WdtInv, UnwatchedWaits
<1> QED
  BY <1>1, <1>2, WdtStep, PTL DEF FwSpec

-----------------------------------------------------------------------------
(* The count in RTC memory never exceeds the wakes that failed, which are counted as far as    *)
(* the threshold; AP mode forgets those and is left by a reset only, which forgets the count.  *)
CountInv ==
    /\ s_wifi_fail_count \in Nat /\ failed \in Nat
    /\ pc # "ap" => s_wifi_fail_count <= failed \/ failed >= WIFI_FAIL_THRESHOLD

LEMMA CountStep == CountInv /\ [FwNext]_fwvars => CountInv'
<1> SUFFICES ASSUME CountInv, [FwNext]_fwvars PROVE CountInv'
  OBVIOUS
<1> USE FirmwareAssumption DEF CountInv
<1>1. CASE NoCredentials \/ TooManyFailures
  BY <1>1 DEF NoCredentials, TooManyFailures, EnterAp, Goto, rtc
<1>2. CASE WifiFailed
  BY <1>2 DEF WifiFailed, CountFailure, At, Goto
<1>3. CASE WifiWorked
  BY <1>3 DEF WifiWorked
<1>4. CASE TryWifi \/ StartSta \/ SensorInit \/ WaitForWifi \/ MeasureAndSend \/ RemoveWdt \/ Sleep \/ Wake
  <2>1. UNCHANGED Counters /\ pc # "ap"
    BY <1>4 DEF TryWifi, StartSta, SensorInit, WaitForWifi, MeasureAndSend, RemoveWdt, Sleep, Wake, At, rtc,
                history, Counters
  <2> QED
    BY <2>1 DEF Counters
<1>5. CASE SendConfig
  BY <1>5 DEF SendConfig, At, history
<1>6. CASE Hang \/ NvsErased \/ Beside \/ UNCHANGED fwvars
  <2>1. UNCHANGED Counters /\ UNCHANGED pc
    BY <1>6, BesideIsAside DEF Hang, NvsErased, fwvars, rtc, history, Counters
  <2> QED
    BY <2>1 DEF Counters
<1>7. CASE Resets
  BY <1>7, ResetStartsAnew DEF history
<1> QED
  BY <1>1, <1>2, <1>3, <1>4, <1>5, <1>6, <1>7 DEF FwNext, Main, Beside, Resets

-----------------------------------------------------------------------------
CredsOrBlank == [ssid : Ssid \cup {Empty}, password : Password \cup {Empty}]

ApType ==
    /\ nvs \in Storage /\ flash \in Storage
    /\ request \in [step : Step, creds : CredsOrBlank]
    /\ request.step # "idle" => request.creds \in Entered
    /\ page \in [kind : Page, creds : CredsOrBlank]
    /\ nvs_faults \in Nat

(* While no call has failed, each step of a save has left its key in NVS, and nothing follows  *)
(* the page "Saved" but the restart.                                                            *)
SavedSoFar ==
    nvs_faults = 0 =>
        /\ request.step = "password" => nvs.ssid = request.creds.ssid
        /\ request.step = "commit" => nvs.ssid = request.creds.ssid /\ nvs.password = request.creds.password
        /\ page.kind = "saved" =>
              /\ request.step = "reboot"
              /\ nvs.ssid = page.creds.ssid /\ nvs.password = page.creds.password
              /\ flash.ssid = nvs.ssid /\ flash.password = nvs.password

PortalInv == ApType /\ SavedSoFar

(* What may happen to the storage and the portal, and who does it. *)
NoteFailure == \E f \in BOOLEAN : SetConnFailed(f) /\ UNCHANGED <<serving, request, page>>
LoadFails   == Fault /\ UNCHANGED <<nvs, flash, serving, request, page>>
EraseAll    == Fault /\ nvs' = Erased /\ flash' = Erased /\ UNCHANGED <<serving, request, page>>

LEMMA ApMoves ==
    ASSUME [FwNext]_fwvars
    PROVE  NoteFailure \/ LoadFails \/ EraseAll \/ StartPortal \/ User \/ Save \/ ApReset \/ UNCHANGED apvars
<1>8. CASE NoCredentials
  BY <1>8 DEF NoCredentials, LoadFails, apvars
<1>1. CASE TooManyFailures \/ TryWifi \/ StartSta \/ SensorInit \/ WaitForWifi
  BY <1>1 DEF TooManyFailures, TryWifi, StartSta, SensorInit, WaitForWifi
<1>2. CASE WifiFailed \/ WifiWorked
  BY <1>2 DEF WifiFailed, WifiWorked, NoteFailure
<1>3. CASE MeasureAndSend \/ SendConfig \/ RemoveWdt \/ Sleep \/ Wake
  BY <1>3 DEF MeasureAndSend, SendConfig, RemoveWdt, Sleep, Wake
<1>4. CASE Radio \/ Portal
  BY <1>4 DEF Radio, Portal
<1>5. CASE Resets
  BY <1>5, ResetStartsAnew
<1>6. CASE NvsErased
  BY <1>6 DEF NvsErased, EraseAll
<1>7. CASE Hang \/ UNCHANGED fwvars
  BY <1>7 DEF Hang, fwvars
<1> QED
  BY <1>1, <1>2, <1>3, <1>4, <1>5, <1>6, <1>7, <1>8 DEF FwNext, Main, Resets

(* Showing the page for the credentials starts no save, and says nothing of one. *)
LEMMA RootKeeps == ASSUME PortalInv, RootHandler PROVE PortalInv'
<1>1. UNCHANGED request /\ request.step = "idle"
  BY DEF RootHandler
<1>t. /\ nvs \in Storage /\ flash \in Storage /\ nvs_faults \in Nat
      /\ Blank \in CredsOrBlank /\ [nvs EXCEPT !.conn_fail = FALSE] \in Storage
  BY DEF PortalInv, ApType, Storage, Blank, CredsOrBlank
<1>2. CASE page' = [kind |-> "failed", creds |-> Stored] /\ SetConnFailed(FALSE)
  <2>1. page' = [kind |-> "failed", creds |-> Stored] /\ SetConnFailed(FALSE)
    BY <1>2
  <2>2. Stored \in CredsOrBlank
    BY DEF PortalInv, ApType, Storage, Stored, CredsOrBlank
  <2>3. nvs' \in Storage /\ flash' \in Storage /\ nvs_faults' \in Nat
    <3>1. nvs' \in {nvs, [nvs EXCEPT !.conn_fail = FALSE]} /\ flash' \in {flash, nvs'}
      BY <2>1 DEF SetConnFailed, NoteConnFailed
    <3>2. nvs_faults' \in {nvs_faults, nvs_faults + 1}
      BY <2>1 DEF SetConnFailed, NoteConnFailed, Fault
    <3>3. nvs_faults' \in Nat
      BY <1>t, <3>2
    <3> QED
      BY <1>t, <3>1, <3>3, Zenon
  <2> QED
    BY <1>1, <2>1, <2>2, <2>3 DEF PortalInv, ApType, SavedSoFar, Page
<1>3. CASE page' = [kind |-> "enter", creds |-> Blank] /\ UNCHANGED <<nvs, flash, nvs_faults>>
  BY <1>1, <1>t, <1>3 DEF PortalInv, ApType, SavedSoFar, Page
<1>4. CASE ReadFails
  <2>1. nvs_faults' \in Nat /\ nvs_faults' # 0
    BY <1>t, <1>4 DEF ReadFails, Fault
  <2>2. nvs' \in Storage /\ flash' \in Storage
    <3>1. nvs' \in {nvs, [nvs EXCEPT !.conn_fail = FALSE]} /\ flash' \in {flash, nvs'}
      BY <1>4 DEF ReadFails, NoteConnFailed
    <3> QED
      BY <1>t, <3>1, Zenon
  <2>3. page' \in [kind : {"enter", "failed"}, creds : CredsOrBlank]
    <3>1. nvs.ssid \in Ssid \cup {Empty} /\ nvs.password \in Password \cup {Empty}
      BY <1>t DEF Storage
    <3>2. [ssid : {nvs.ssid, Empty}, password : {nvs.password, Empty}] \subseteq CredsOrBlank
      BY <3>1 DEF CredsOrBlank
    <3>3. \/ page' = [kind |-> "enter", creds |-> Blank]
          \/ page' \in [kind : {"failed"}, creds : [ssid : {nvs.ssid, Empty}, password : {nvs.password, Empty}]]
      BY <1>4 DEF ReadFails
    <3> HIDE DEF Storage
    <3> QED
      BY <1>t, <3>2, <3>3
  <2> QED
    BY <1>1, <2>1, <2>2, <2>3 DEF PortalInv, ApType, SavedSoFar, Page
<1> QED
  BY <1>2, <1>3, <1>4 DEF RootHandler

LEMMA PortalStep ==
    ASSUME PortalInv, NoteFailure \/ LoadFails \/ EraseAll \/ StartPortal \/ User \/ Save \/ ApReset \/ UNCHANGED apvars
    PROVE  PortalInv'
<1> USE ApConfigAssumption DEF PortalInv, ApType, SavedSoFar, Storage, Step, Page, CredsOrBlank, Entered
<1>1. CASE NoteFailure
  BY <1>1 DEF NoteFailure, SetConnFailed, NoteConnFailed, Fault
<1>2. CASE EraseAll
  BY <1>2 DEF EraseAll, Fault, Erased
<1>11. CASE LoadFails
  <2>1. nvs_faults' \in Nat /\ nvs_faults' # 0 /\ UNCHANGED <<nvs, flash, request, page>>
    BY <1>11 DEF LoadFails, Fault
  <2> QED
    BY <2>1
<1>3. CASE StartPortal \/ UNCHANGED apvars
  BY <1>3 DEF StartPortal, apvars
<1>4. CASE RootHandler
  BY <1>4, RootKeeps
<1>5. CASE RefuseSave \/ OpenFails
  BY <1>5 DEF RefuseSave, OpenFails, Fault, Blank
<1>6. ASSUME NEW c \in Entered, BeginSave(c) PROVE PortalInv'
  BY <1>6 DEF BeginSave
<1>7. CASE SetSsid
  BY <1>7 DEF SetSsid, SetStr, Fault
<1>8. CASE SetPassword
  BY <1>8 DEF SetPassword, SetStr, Fault
<1>9. CASE Commit
  BY <1>9 DEF Commit, Fault, Blank, NoRequest
<1>10. CASE ApReset
  BY <1>10 DEF ApReset, NoRequest, NoPage, Blank
<1> QED
  BY <1>1, <1>2, <1>3, <1>4, <1>5, <1>6, <1>7, <1>8, <1>9, <1>10, <1>11 DEF User, Save

LEMMA PortalInit == FwInit => PortalInv
  BY DEF FwInit, ApInit, PortalInv, ApType, SavedSoFar, Storage, Step, Page, CredsOrBlank, Erased, NoRequest,
         NoPage, Blank

LEMMA PortalInvariant == FwSpec => []PortalInv
<1>1. PortalInv /\ [FwNext]_fwvars => PortalInv'
  BY ApMoves, PortalStep
<1> QED
  BY <1>1, PortalInit, PTL DEF FwSpec

(* AP mode with credentials on file needs WIFI_FAIL_THRESHOLD wakes that failed in a row       *)
(* (app_main, s_wifi_fail_count).                                                               *)
THEOREM ApAfterFailures == FwSpec => ApOnlyAfterFailures
<1> DEFINE Entry == pc = "boot" /\ pc' = "ap" /\ Loads /\ nvs_faults' = nvs_faults
<1>1. FwInit => CountInv
  BY DEF FwInit, CountInv
<1>0. FwInit => PortalInv
  BY PortalInit
<1>2. ASSUME PortalInv, CountInv, [FwNext]_fwvars, Entry PROVE failed >= WIFI_FAIL_THRESHOLD
  <2>0. ~ Fault
    BY <1>2 DEF PortalInv, ApType, Fault
  <2>1. TooManyFailures
    BY <1>2, <2>0, BesideIsAside, ResetStartsAnew
       DEF FwNext, Main, Beside, Resets, fwvars, NoCredentials, TryWifi, StartSta, SensorInit, WaitForWifi,
           WifiFailed, WifiWorked, MeasureAndSend, SendConfig, RemoveWdt, Sleep, Wake, Hang, NvsErased, At, Goto
  <2> QED
    BY <1>2, <2>1, FirmwareAssumption DEF TooManyFailures, CountInv
<1>3. PortalInv /\ CountInv /\ [FwNext]_fwvars => [Entry => failed >= WIFI_FAIL_THRESHOLD]_fwvars
  BY <1>2
<1> QED
  BY <1>1, <1>3, CountStep, PortalInvariant, PTL DEF FwSpec, ApOnlyAfterFailures

(* The page "Saved" tells of credentials that a reset will not lose, while no NVS call fails   *)
(* (save_handler, ap_config_save).                                                              *)
THEOREM SavedSurvives == FwSpec => []SavedIsStored
<1>1. PortalInv => SavedIsStored
  BY DEF PortalInv, SavedSoFar, SavedIsStored
<1> QED
  BY <1>1, PortalInvariant, PTL

-----------------------------------------------------------------------------
(* What is on file once a failure is noted: the flag is committed at once, and whoever set it  *)
(* had both keys.                                                                               *)
NotedHasKeys ==
    /\ nvs.conn_fail = flash.conn_fail
    /\ nvs.conn_fail => /\ nvs.ssid # Empty /\ nvs.password # Empty
                        /\ flash.ssid # Empty /\ flash.password # Empty

(* From the load to the verdict the station tries what is on file. *)
TriesStored ==
    /\ pc = "start" => Loads
    /\ pc \in {"sensor", "wait"} => Loads /\ sta_config = Stored

(* The failures counted are those of the credentials on file, AP mode is entered with none     *)
(* counted, and until a form is sent there the flag speaks of the credentials on file.          *)
CountedAreStored ==
    /\ s_wifi_fail_count > 0 => nvs.conn_fail /\ Stored = tried
    /\ pc = "ap" => s_wifi_fail_count = 0
    /\ pc = "ap" /\ request.step = "idle" /\ nvs.conn_fail => Stored = tried
    /\ page.kind = "failed" => pc = "ap" /\ page.creds = tried

FailInv ==
    /\ s_wifi_fail_count \in Nat
    /\ nvs_faults = 0 => NotedHasKeys /\ TriesStored /\ CountedAreStored

(* The main task but for the steps that note a success or a failure. *)
LEMMA MainTells ==
    ASSUME PortalInv, FailInv,
           \/ NoCredentials \/ TooManyFailures \/ TryWifi \/ StartSta \/ SensorInit \/ WaitForWifi
           \/ MeasureAndSend \/ SendConfig \/ RemoveWdt \/ Sleep \/ Wake
    PROVE  FailInv'
<1> USE FirmwareAssumption DEF FailInv, NotedHasKeys, TriesStored, CountedAreStored, Loads, Stored
<1>1. UNCHANGED <<nvs, flash, request, page, tried>>
  BY DEF NoCredentials, TooManyFailures, TryWifi, StartSta, SensorInit, WaitForWifi, MeasureAndSend, SendConfig,
         RemoveWdt, Sleep, Wake, EnterAp, history, apvars
<1>3. CASE NoCredentials
  <2>1. CASE Fault
    BY <1>3, <2>1 DEF Fault, PortalInv, ApType, NoCredentials, rtc
  <2>2. CASE ~Loads /\ UNCHANGED nvs_faults
    BY <1>1, <1>3, <2>2 DEF NoCredentials, EnterAp, At, Goto, rtc
  <2> QED
    BY <1>3, <2>1, <2>2, Zenon DEF NoCredentials
<1>4. CASE TooManyFailures
  BY <1>1, <1>4 DEF TooManyFailures, EnterAp, At, Goto, apvars
<1>5. CASE TryWifi
  BY <1>1, <1>5 DEF TryWifi, At, Goto, rtc, apvars
<1>6. CASE StartSta
  BY <1>1, <1>6 DEF StartSta, InitSta, At, Goto, rtc, apvars
<1>7. CASE SensorInit
  BY <1>1, <1>7 DEF SensorInit, At, Goto, rtc, wifivars, apvars
<1>8. CASE WaitForWifi
  BY <1>1, <1>8 DEF WaitForWifi, CallWait, WaitReturns, At, rtc, apvars
<1>9. CASE MeasureAndSend \/ SendConfig \/ RemoveWdt \/ Sleep \/ Wake
  BY <1>1, <1>9 DEF MeasureAndSend, SendConfig, RemoveWdt, Sleep, Wake, At, Goto, rtc, apvars
<1> QED
  BY <1>3, <1>4, <1>5, <1>6, <1>7, <1>8, <1>9

(* A verdict is noted for the credentials it is about. *)
LEMMA VerdictTells == ASSUME PortalInv, FailInv, WifiFailed \/ WifiWorked PROVE FailInv'
<1> USE FirmwareAssumption DEF FailInv, NotedHasKeys, TriesStored, CountedAreStored, Loads, Stored
<1>t. nvs_faults \in Nat /\ nvs \in Storage /\ flash \in Storage
  BY DEF PortalInv, ApType
<1>p. /\ pc = "wait" /\ pc' \in {"send", "leave"} /\ UNCHANGED <<request, page>>
  BY DEF WifiFailed, WifiWorked, At, Goto
<1>1. CASE nvs_faults' # 0
  <2>1. s_wifi_fail_count' \in {0, s_wifi_fail_count + 1}
    BY DEF WifiFailed, WifiWorked
  <2>2. s_wifi_fail_count \in Nat /\ s_wifi_fail_count' \in Nat
    BY <2>1
  <2> QED
    BY <1>1, <2>2, Zenon
<1>2. CASE nvs_faults' = 0
  <2>1. nvs_faults = 0 /\ flash' = nvs'
    BY <1>t, <1>2 DEF WifiFailed, WifiWorked, SetConnFailed, NoteConnFailed, Fault
  <2>2. CASE WifiFailed
    <3>1. nvs' = [nvs EXCEPT !.conn_fail = TRUE]
      BY <1>t, <1>2, <2>2 DEF WifiFailed, SetConnFailed, NoteConnFailed, Fault
    <3>2. nvs'.conn_fail = TRUE /\ nvs'.ssid = nvs.ssid /\ nvs'.password = nvs.password
      BY <1>t, <3>1 DEF Storage
    <3>3. s_wifi_fail_count' \in Nat /\ tried' = sta_config
      BY <2>2 DEF WifiFailed
    <3> QED
      BY <1>p, <2>1, <3>2, <3>3
  <2>3. CASE WifiWorked
    <3>1. nvs' = [nvs EXCEPT !.conn_fail = FALSE]
      BY <1>t, <1>2, <2>3 DEF WifiWorked, SetConnFailed, NoteConnFailed, Fault
    <3>2. nvs'.conn_fail = FALSE
      BY <1>t, <3>1 DEF Storage
    <3>3. s_wifi_fail_count' = 0
      BY <2>3 DEF WifiWorked
    <3> QED
      BY <1>p, <2>1, <3>2, <3>3
  <2> QED
    BY <2>2, <2>3
<1> QED
  BY <1>1, <1>2

(* A reset forgets the count and the page; the flag it finds is the one that was committed. *)
LEMMA ResetTells == ASSUME PortalInv, FailInv, Resets PROVE FailInv'
<1>1. /\ pc' = "boot" /\ s_wifi_fail_count' = 0 /\ nvs_faults' = nvs_faults
      /\ flash' = nvs' /\ page' = NoPage
      /\ nvs' \in Storage
      /\ \A key \in {"ssid", "password", "conn_fail"} : nvs'[key] \in {nvs[key], flash[key]}
  BY ResetStartsAnew DEF ApReset
<1>2. nvs_faults = 0 => NotedHasKeys'
  BY <1>1 DEF FailInv, NotedHasKeys
<1> QED
  BY <1>1, <1>2 DEF FailInv, TriesStored, CountedAreStored, NoPage

(* The portal: the page that names credentials names those on file, and a form that changes    *)
(* them is followed by a restart.                                                               *)
LEMMA PortalTells == ASSUME PortalInv, FailInv, Portal PROVE FailInv'
<1> USE ApConfigAssumption DEF FailInv, NotedHasKeys, TriesStored, CountedAreStored, Loads, Stored
<1>t. /\ nvs_faults \in Nat /\ nvs \in Storage /\ flash \in Storage
      /\ request \in [step : Step, creds : CredsOrBlank]
      /\ request.step # "idle" => request.creds.ssid # Empty /\ request.creds.password # Empty
  BY DEF PortalInv, ApType, Entered
<1>p. pc = "ap" /\ pc' = "ap" /\ UNCHANGED <<s_wifi_fail_count, tried>>
  BY DEF Portal, At, Frame, rtc, history
<1>1. CASE StartPortal \/ RefuseSave \/ \E c \in Entered : BeginSave(c)
  BY <1>p, <1>1 DEF StartPortal, RefuseSave, BeginSave
<1>2. CASE OpenFails
  <2>1. nvs_faults' = nvs_faults + 1
    BY <1>2 DEF OpenFails, Fault
  <2> QED
    BY <1>t, <1>p, <2>1
<1>r. ReadFails => nvs_faults' # 0
  BY <1>t DEF ReadFails, Fault
<1>3. CASE RootHandler /\ ~ nvs.conn_fail /\ nvs_faults' = 0
  <2>1. UNCHANGED <<nvs, flash, request, nvs_faults>> /\ page' = [kind |-> "enter", creds |-> Blank]
    BY <1>r, <1>3, Zenon DEF RootHandler
  <2> QED
    BY <1>p, <1>3, <2>1
<1>4. CASE RootHandler /\ nvs.conn_fail /\ nvs_faults' = 0
  <2>1. /\ SetConnFailed(FALSE) /\ page' = [kind |-> "failed", creds |-> Stored] /\ request.step = "idle"
    BY <1>r, <1>4 DEF RootHandler
  <2>2. nvs_faults = 0 /\ flash' = nvs' /\ nvs' = [nvs EXCEPT !.conn_fail = FALSE]
    BY <1>t, <1>4, <2>1 DEF SetConnFailed, NoteConnFailed, Fault
  <2>3. nvs'.conn_fail = FALSE
    BY <1>t, <2>2 DEF Storage
  <2>4. s_wifi_fail_count = 0 /\ Stored = tried
    BY <1>p, <1>4, <2>1, <2>2
  <2> QED
    BY <1>p, <2>1, <2>2, <2>3, <2>4
<1>5. CASE (SetSsid \/ SetPassword) /\ nvs_faults' = 0
  <2>1. PICK key \in {"ssid", "password"} :
            /\ nvs' = [nvs EXCEPT ![key] = request.creds[key]]
            /\ request'.step \in {"password", "commit"}
            /\ request.step = key /\ nvs_faults = 0
            /\ UNCHANGED <<flash, page>>
    BY <1>t, <1>5 DEF SetSsid, SetPassword, SetStr, Fault
  <2>2. request.creds[key] # Empty
    BY <1>t, <2>1
  <2>3. nvs'.conn_fail = nvs.conn_fail /\ nvs'.ssid \in {nvs.ssid, request.creds[key]}
        /\ nvs'.password \in {nvs.password, request.creds[key]}
    BY <1>t, <2>1 DEF Storage
  <2> QED
    BY <1>p, <2>1, <2>2, <2>3
<1>6. CASE Commit /\ nvs_faults' = 0
  <2>1. /\ flash' = nvs' /\ nvs' = nvs /\ page'.kind = "saved" /\ request'.step = "reboot"
        /\ nvs_faults = 0
    BY <1>t, <1>6 DEF Commit, Fault
  <2> QED
    BY <1>p, <2>1
<1>7. CASE nvs_faults' # 0
  BY <1>p, <1>7
<1> QED
  BY <1>1, <1>2, <1>3, <1>4, <1>5, <1>6, <1>7 DEF Portal, User, Save

LEMMA FailStep == ASSUME PortalInv, FailInv, [FwNext]_fwvars PROVE FailInv'
<1>1. CASE Radio
  <2>1. sta_config' = sta_config
    BY <1>1 DEF Radio, Driver, Attempt, Associate, ConnectFails, DhcpAnswers, LinkLost, EventHandler, RouterChanges
  <2>2. UNCHANGED <<nvs, flash, request, page, nvs_faults, pc, s_wifi_fail_count, tried>>
    BY <1>1 DEF Radio, Frame, apvars, rtc, history
  <2> QED
    BY <2>1, <2>2 DEF FailInv, NotedHasKeys, TriesStored, CountedAreStored, Loads, Stored
<1>2. CASE Hang \/ UNCHANGED fwvars
  <2>1. UNCHANGED <<nvs, flash, request, page, nvs_faults, pc, s_wifi_fail_count, tried, sta_config>>
    BY <1>2 DEF Hang, fwvars, apvars, wifivars, rtc, history
  <2> QED
    BY <2>1 DEF FailInv, NotedHasKeys, TriesStored, CountedAreStored, Loads, Stored
<1>3. CASE NvsErased
  BY <1>3 DEF NvsErased, Fault, PortalInv, ApType, FailInv, rtc
<1> QED
  BY <1>1, <1>2, <1>3, MainTells, VerdictTells, ResetTells, PortalTells DEF FwNext, Main, Resets

LEMMA FailInit == FwInit => FailInv
  BY DEF FwInit, ApInit, FailInv, NotedHasKeys, TriesStored, CountedAreStored, Erased, NoPage

(* While no NVS call fails, the count of failures and the page that tells of one are about     *)
(* the credentials that failed, whatever was saved, reset or shown between (README.md:154).     *)
THEOREM FailuresAreTold == FwSpec => []FailureIsTold
<1>1. FailInv => FailureIsTold
  BY DEF FailInv, CountedAreStored, FailureIsTold
<1> QED
  BY <1>1, PortalInvariant, FailInit, FailStep, PTL DEF FwSpec

-----------------------------------------------------------------------------
(* The packets (Wire.tla). *)

(* Every set of numbers has a least one: it is the one whose interval from *)
(* zero is the smallest, and the finite sets are well ordered.             *)
LEMMA LeastNumber ==
    ASSUME NEW T \in SUBSET Nat, T # {}
    PROVE  \E m \in T : \A k \in T : m <= k
<1> DEFINE Up == {0 .. t : t \in T}
           R == StrictSubsetOrdering(Nat)
<1>1. Up \subseteq FiniteSubsetsOf(Nat) /\ Up # {}
  <2>1. \A t \in T : (0 .. t) \in SUBSET Nat /\ IsFiniteSet(0 .. t)
    BY FS_Interval
  <2> QED
    BY <2>1 DEF FiniteSubsetsOf
<1>2. IsWellFoundedOn(R, FiniteSubsetsOf(Nat))
  BY FS_StrictSubsetOrderingWellFounded
<1>3. PICK u \in Up : \A v \in Up : ~ (<<v, u>> \in R)
  <2> HIDE DEF Up, R
  <2> QED
    BY <1>1, <1>2, WFMin
<1>4. PICK m \in T : u = 0 .. m
  OBVIOUS
<1>5. ASSUME NEW k \in T, k < m PROVE FALSE
  <2>1. (0 .. k) \in SUBSET Nat /\ (0 .. m) \in SUBSET Nat /\ (0 .. k) \subseteq (0 .. m) /\ (0 .. k) # (0 .. m)
    BY <1>5
  <2>2. <<0 .. k, 0 .. m>> \in R
    BY <2>1 DEF StrictSubsetOrdering
  <2> QED
    BY <1>3, <1>4, <2>2
<1> QED
  BY <1>5

-----------------------------------------------------------------------------
(* The digits of a length.  What a recursive function is has to be proved: *)
(* there is one function that satisfies its equation.                      *)

One(a)       == <<a>>
Two(a, b)    == <<a, b>>
Joined(s, t) == s \o t

DigitStep(f, n) == IF n < 128 THEN One(n) ELSE Joined(One(128 + (n % 128)), f[n \div 128])

(* f gives the digits of the lengths up to k. *)
DigitsUpTo(f, k) == f = [n \in 0 .. k |-> DigitStep(f, n)]

LEMMA HigherDigits ==
    ASSUME NEW n \in Nat
    PROVE  /\ n \div 128 \in Nat /\ n % 128 \in 0 .. 127 /\ n = 128 * (n \div 128) + (n % 128)
           /\ n >= 128 => n \div 128 < n /\ n \div 128 >= 1
           /\ n < 16384 => n \div 128 < 128
  OBVIOUS

(* Two such functions agree where both are defined: they do at the first   *)
(* length where they might not.                                            *)
LEMMA DigitsAgree ==
    ASSUME NEW f, NEW k \in Nat, DigitsUpTo(f, k), NEW g, NEW m \in Nat, DigitsUpTo(g, m)
    PROVE  \A n \in Nat : n <= k /\ n <= m => f[n] = g[n]
<1> DEFINE T == {n \in Nat : n <= k /\ n <= m /\ f[n] # g[n]}
<1> SUFFICES ASSUME T # {} PROVE FALSE
  OBVIOUS
<1>1. PICK n \in T : \A j \in T : n <= j
  <2> HIDE DEF T
  <2>1. T \in SUBSET Nat
    BY DEF T
  <2> QED
    BY <2>1, LeastNumber
<1>2. n \in Nat /\ n <= k /\ n <= m /\ f[n] # g[n]
  OBVIOUS
<1>3. f[n] = DigitStep(f, n) /\ g[n] = DigitStep(g, n)
  <2>1. n \in 0 .. k /\ n \in 0 .. m
    BY <1>2
  <2>2. f[n] = DigitStep(f, n)
    BY <2>1 DEF DigitsUpTo
  <2>3. g[n] = DigitStep(g, n)
    BY <2>1 DEF DigitsUpTo
  <2> QED
    BY <2>2, <2>3
<1>4. n >= 128
  BY <1>3, <1>2 DEF DigitStep
<1>5. n \div 128 \in Nat /\ n \div 128 < n
  BY <1>2, <1>4, HigherDigits
<1>6. PICK h \in Nat : h = n \div 128 /\ h < n
  BY <1>5
<1>7. f[h] = g[h]
  <2>1. h <= k /\ h <= m /\ h \notin T
    BY <1>1, <1>2, <1>6
  <2> QED
    BY <2>1
<1> QED
  BY <1>3, <1>2, <1>4, <1>6, <1>7 DEF DigitStep

(* There is one for every k: the first k without would be the next of one that has it. *)
LEMMA DigitsExist ==
    \A k \in Nat : \E f : DigitsUpTo(f, k)
<1> DEFINE T == {k \in Nat : ~ \E f : DigitsUpTo(f, k)}
<1> SUFFICES ASSUME T # {} PROVE FALSE
  OBVIOUS
<1>1. PICK k \in T : \A j \in T : k <= j
  <2> HIDE DEF T
  <2>1. T \in SUBSET Nat
    BY DEF T
  <2> QED
    BY <2>1, LeastNumber
<1>2. k \in Nat /\ \A f : ~ DigitsUpTo(f, k)
  OBVIOUS
<1>3. CASE k = 0
  <2> DEFINE f == [n \in 0 .. k |-> One(n)]
  <2>1. f = [n \in 0 .. k |-> DigitStep(f, n)]
    BY <1>3 DEF DigitStep
  <2> QED
    BY <1>2, <2>1 DEF DigitsUpTo
<1>4. CASE k > 0
  <2>1. PICK j \in Nat : j = k - 1
    BY <1>2, <1>4
  <2>2. j \notin T
    BY <1>1, <1>2, <2>1
  <2>3. PICK g : DigitsUpTo(g, j)
    BY <2>2
  <2> DEFINE f == [n \in 0 .. k |-> IF n = k THEN DigitStep(g, k) ELSE g[n]]
  <2>4. ASSUME NEW n \in 0 .. k PROVE f[n] = DigitStep(f, n)
    <3>1. n >= 128 => n \div 128 \in 0 .. j /\ n \div 128 \in 0 .. k /\ n \div 128 # k
      BY <1>2, <2>1, HigherDigits
    <3>2. n >= 128 => f[n \div 128] = g[n \div 128]
      BY <3>1
    <3>3. f[n] = DigitStep(g, n)
      <4>1. CASE n = k
        BY <4>1
      <4>2. CASE n # k
        <5>1. n \in 0 .. j
          BY <1>2, <2>1, <4>2
        <5>2. g[n] = DigitStep(g, n)
          BY <2>3, <5>1 DEF DigitsUpTo
        <5> QED
          BY <4>2, <5>2
      <4> QED
        BY <4>1, <4>2
    <3> HIDE DEF f
    <3> QED
      BY <3>2, <3>3 DEF DigitStep
  <2>5. f = [n \in 0 .. k |-> f[n]]
    OBVIOUS
  <2>6. f = [n \in 0 .. k |-> DigitStep(f, n)]
    <3> HIDE DEF f
    <3> QED
      BY <2>4, <2>5
  <2> HIDE DEF f
  <2> QED
    BY <1>2, <2>6 DEF DigitsUpTo
<1> QED
  BY <1>2, <1>3, <1>4

LEMMA DigitsAre ==
    \A n \in Nat : Digits[n] = DigitStep(Digits, n)
<1> DEFINE part(k) == CHOOSE f : DigitsUpTo(f, k)
           F == [n \in Nat |-> part(n)[n]]
<1>1. \A k \in Nat : DigitsUpTo(part(k), k)
  BY DigitsExist
<1>2. ASSUME NEW n \in Nat PROVE F[n] = DigitStep(F, n)
  <2>1. F[n] = part(n)[n]
    OBVIOUS
  <2>2. part(n)[n] = DigitStep(part(n), n)
    <3>1. PICK f : f = part(n)
      OBVIOUS
    <3>2. DigitsUpTo(f, n)
      BY <1>1, <3>1
    <3>3. f[n] = DigitStep(f, n)
      <4> HIDE DEF part
      <4> QED
        BY <3>2 DEF DigitsUpTo
    <3> QED
      BY <3>1, <3>3
  <2>3. n >= 128 => F[n \div 128] = part(n)[n \div 128]
    <3> SUFFICES ASSUME n >= 128 PROVE F[n \div 128] = part(n)[n \div 128]
      OBVIOUS
    <3>1. PICK h \in Nat : h = n \div 128 /\ h < n
      BY HigherDigits
    <3>2. DigitsUpTo(part(n), n) /\ DigitsUpTo(part(h), h)
      BY <1>1
    <3>3. part(n)[h] = part(h)[h]
      <4> HIDE DEF part
      <4> QED
        BY <3>1, <3>2, DigitsAgree
    <3> QED
      BY <3>1, <3>3
  <2> HIDE DEF F, part
  <2> QED
    BY <2>1, <2>2, <2>3 DEF DigitStep
<1>3. F = [n \in Nat |-> DigitStep(F, n)]
  <2>1. F = [n \in Nat |-> F[n]]
    OBVIOUS
  <2> HIDE DEF F
  <2> QED
    BY <1>2, <2>1
<1>4. \E f : f = [n \in Nat |-> DigitStep(f, n)]
  <2> HIDE DEF F
  <2> QED
    BY <1>3
<1>5. Digits = CHOOSE f : f = [n \in Nat |-> DigitStep(f, n)]
  BY DEF Digits, DigitStep, One, Joined
<1>6. Digits = [n \in Nat |-> DigitStep(Digits, n)]
  BY <1>4, <1>5
<1> QED
  BY <1>6

-----------------------------------------------------------------------------
(* A length of one digit is read as it is; one of two digits is read with  *)
(* the digits exchanged.                                                   *)
Heard(n) == IF n < 128 THEN n ELSE 128 * (n % 128) + (n \div 128)

Exchanged(a, b) == 128 * (a % 128) + b

LEMMA OneDigit ==
    ASSUME NEW n \in Nat, n < 128
    PROVE  Digits[n] = One(n) /\ unpack_remaining_length(One(n)) = n
<1>1. Digits[n] = One(n)
  BY DigitsAre DEF DigitStep
<1>2. unpack_remaining_length(One(n)) = n
  <2> DEFINE total == CHOOSE t : t = [i \in 0 .. 1 |-> IF i = 0 THEN 0 ELSE (128 * t[i - 1]) + (<<n>>[i] % 128)]
             u == [i \in 0 .. 1 |-> IF i = 0 THEN 0 ELSE n]
  <2>1. u = [i \in 0 .. 1 |-> IF i = 0 THEN 0 ELSE (128 * u[i - 1]) + (<<n>>[i] % 128)]
    OBVIOUS
  <2>2. total = [i \in 0 .. 1 |-> IF i = 0 THEN 0 ELSE (128 * total[i - 1]) + (<<n>>[i] % 128)]
    <3> HIDE DEF u
    <3> QED
      BY <2>1
  <2>3. total[0] = 0 /\ total[1] = n
    <3> HIDE DEF total
    <3> QED
      BY <2>2
  <2>4. unpack_remaining_length(One(n)) = total[1]
    BY DEF unpack_remaining_length, One
  <2> QED
    BY <2>3, <2>4
<1> QED
  BY <1>1, <1>2

LEMMA TwoDigits ==
    ASSUME NEW a \in 0 .. 255, NEW b \in 0 .. 127
    PROVE  unpack_remaining_length(Two(a, b)) = Exchanged(a, b)
<1> DEFINE total == CHOOSE t : t = [i \in 0 .. 2 |-> IF i = 0 THEN 0 ELSE (128 * t[i - 1]) + (<<a, b>>[i] % 128)]
           u == [i \in 0 .. 2 |-> IF i = 0 THEN 0 ELSE IF i = 1 THEN a % 128 ELSE (128 * (a % 128)) + b]
<1>1. u = [i \in 0 .. 2 |-> IF i = 0 THEN 0 ELSE (128 * u[i - 1]) + (<<a, b>>[i] % 128)]
  OBVIOUS
<1>2. total = [i \in 0 .. 2 |-> IF i = 0 THEN 0 ELSE (128 * total[i - 1]) + (<<a, b>>[i] % 128)]
  <2> HIDE DEF u
  <2> QED
    BY <1>1
<1>3. total[0] = 0 /\ total[1] = a % 128 /\ total[2] = (128 * (a % 128)) + b
  <2> HIDE DEF total
  <2>1. total[0] = 0
    BY <1>2
  <2>2. total[1] = (128 * total[0]) + (a % 128)
    BY <1>2
  <2>3. total[2] = (128 * total[1]) + (b % 128)
    BY <1>2
  <2> QED
    BY <2>1, <2>2, <2>3
<1>4. unpack_remaining_length(Two(a, b)) = total[2]
  BY DEF unpack_remaining_length, Two
<1> HIDE DEF total
<1> QED
  BY <1>3, <1>4 DEF Exchanged

(* One digit, two digits, and two of one one after the other. *)
LEMMA OneIs ==
    ASSUME NEW a \in Nat
    PROVE  One(a) \in Seq(Nat) /\ Len(One(a)) = 1 /\ One(a)[1] = a
  BY DEF One

LEMMA TwoIs ==
    ASSUME NEW a \in Nat, NEW b \in Nat
    PROVE  Two(a, b) \in Seq(Nat) /\ Len(Two(a, b)) = 2 /\ Two(a, b)[1] = a /\ Two(a, b)[2] = b
  BY DEF Two

LEMMA JoinedIs ==
    ASSUME NEW s \in Seq(Nat), NEW t \in Seq(Nat)
    PROVE  /\ Joined(s, t) \in Seq(Nat)
           /\ Len(Joined(s, t)) = Len(s) + Len(t)
           /\ \A i \in 1 .. Len(s) + Len(t) : Joined(s, t)[i] = IF i <= Len(s) THEN s[i] ELSE t[i - Len(s)]
  BY ConcatProperties DEF Joined

LEMMA TwoJoined ==
    ASSUME NEW a \in Nat, NEW b \in Nat PROVE Joined(One(a), One(b)) = Two(a, b)
<1>1. PICK s \in Seq(Nat) : s = One(a) /\ Len(s) = 1 /\ s[1] = a
  BY OneIs
<1>2. PICK t \in Seq(Nat) : t = One(b) /\ Len(t) = 1 /\ t[1] = b
  BY OneIs
<1>3. PICK u \in Seq(Nat) : u = Two(a, b) /\ Len(u) = 2 /\ u[1] = a /\ u[2] = b
  BY TwoIs
<1>4. PICK v \in Seq(Nat) : v = Joined(s, t) /\ Len(v) = 2 /\ v[1] = a /\ v[2] = b
  <2>1. /\ Joined(s, t) \in Seq(Nat) /\ Len(Joined(s, t)) = Len(s) + Len(t)
        /\ \A i \in 1 .. Len(s) + Len(t) : Joined(s, t)[i] = IF i <= Len(s) THEN s[i] ELSE t[i - Len(s)]
    BY JoinedIs
  <2>2. \A i \in 1 .. 2 : Joined(s, t)[i] = IF i <= 1 THEN s[i] ELSE t[i - 1]
    BY <2>1, <1>1, <1>2
  <2>3. Joined(s, t)[1] = s[1] /\ Joined(s, t)[2] = t[1]
    BY <2>2
  <2> QED
    BY <1>1, <1>2, <2>1, <2>3
<1>5. \A i \in 1 .. 2 : v[i] = u[i]
  BY <1>3, <1>4
<1>6. v = u
  BY <1>3, <1>4, <1>5, SeqEqual
<1> QED
  BY <1>1, <1>2, <1>3, <1>4, <1>6

(* The length that is read. *)
LEMMA ReadAs ==
    ASSUME NEW n \in Nat, n < 16384
    PROVE  unpack_remaining_length(Digits[n]) = Heard(n)
<1>1. CASE n < 128
  <2>1. Digits[n] = One(n) /\ unpack_remaining_length(One(n)) = n
    BY <1>1, OneDigit
  <2> QED
    BY <1>1, <2>1 DEF Heard
<1>2. CASE n >= 128
  <2>1. PICK h \in Nat : h = n \div 128 /\ h < 128
    BY HigherDigits
  <2>2. PICK l \in 0 .. 127 : l = n % 128
    BY HigherDigits
  <2>3. PICK a \in 0 .. 255 : a = 128 + l /\ a % 128 = l
    <3>1. 128 + l \in 0 .. 255 /\ (128 + l) % 128 = l
      BY <2>2
    <3> QED
      BY <3>1
  <2>4. Digits[n] = Joined(One(a), Digits[h])
    <3>1. ~ (n < 128)
      BY <1>2
    <3>2. Digits[n] = Joined(One(128 + (n % 128)), Digits[n \div 128])
      BY <3>1, DigitsAre DEF DigitStep
    <3>3. 128 + (n % 128) = a
      BY <2>2, <2>3
    <3>4. n \div 128 = h
      BY <2>1
    <3> QED
      BY <3>2, <3>3, <3>4
  <2>5. Digits[h] = One(h)
    BY <2>1, OneDigit
  <2>6. Joined(One(a), One(h)) = Two(a, h)
    <3>1. a \in Nat
      OBVIOUS
    <3> QED
      BY <3>1, TwoJoined
  <2>7. unpack_remaining_length(Two(a, h)) = Exchanged(a, h)
    <3>1. h \in 0 .. 127
      BY <2>1
    <3> QED
      BY <3>1, TwoDigits
  <2>8. unpack_remaining_length(Digits[n]) = Exchanged(a, h)
    BY <2>4, <2>5, <2>6, <2>7
  <2>9. Exchanged(a, h) = Heard(n)
    BY <1>2, <2>1, <2>2, <2>3 DEF Exchanged, Heard
  <2> QED
    BY <2>8, <2>9
<1> QED
  BY <1>1, <1>2

-----------------------------------------------------------------------------
(* The lengths that are read back: those of one digit, and those of two    *)
(* whose lower digit is not below the higher.                              *)
LengthReads(n) == n < 128 \/ n \div 128 <= n % 128

Readable(p) == p.topic < 256 /\ BodyLen(p) < 16384 /\ LengthReads(BodyLen(p))

LEMMA HeardEnough ==
    ASSUME NEW n \in Nat, n < 16384
    PROVE  Heard(n) \in Nat /\ (n <= Heard(n) <=> LengthReads(n))
<1>1. PICK h \in Nat : h = n \div 128
  BY HigherDigits
<1>2. PICK l \in 0 .. 127 : l = n % 128 /\ n = 128 * h + l
  BY <1>1, HigherDigits
<1>3. CASE n < 128
  BY <1>3 DEF Heard, LengthReads
<1>4. CASE n >= 128
  <2>1. Heard(n) = 128 * l + h /\ (LengthReads(n) <=> h <= l)
    BY <1>1, <1>2, <1>4 DEF Heard, LengthReads
  <2>2. 128 * h + l <= 128 * l + h <=> h <= l
    BY <1>1, <1>2
  <2> QED
    BY <1>1, <1>2, <2>1, <2>2
<1> QED
  BY <1>3, <1>4

(* What the reader sees of the packet of p. *)
LEMMA PacketOf ==
    ASSUME NEW p \in [topic : Nat, payload : Nat], p.topic < 256, BodyLen(p) < 16384
    PROVE  /\ BodyLen(p) \in Nat /\ BodyLen(Build(p)) = BodyLen(p)
           /\ unpack_remaining_length(Build(p).digits) = Heard(BodyLen(p))
           /\ topic_len(Build(p)) = p.topic /\ Whole(Build(p)) = Whole(p)
<1>1. BodyLen(p) \in Nat
  BY DEF BodyLen
<1>2. /\ Build(p).digits = Digits[BodyLen(p)]
      /\ Build(p).topic = p.topic /\ Build(p).payload = p.payload
  BY DEF Build
<1>3. unpack_remaining_length(Digits[BodyLen(p)]) = Heard(BodyLen(p))
  BY <1>1, ReadAs
<1>4. BodyLen(Build(p)) = BodyLen(p)
  BY <1>2 DEF BodyLen
<1>5. topic_len(Build(p)) = p.topic
  BY <1>2 DEF topic_len
<1>6. Whole(Build(p)) = Whole(p)
  BY <1>2, <1>4 DEF Whole
<1> QED
  BY <1>1, <1>2, <1>3, <1>4, <1>5, <1>6

(* A readable packet has one outcome, and that is the packet. *)
LEMMA ReadableIsWhole ==
    ASSUME NEW p \in [topic : Nat, payload : Nat], Readable(p)
    PROVE  parse_packet(Build(p)) = {Whole(Build(p))}
<1> DEFINE len == BodyLen(p)
           total == Heard(BodyLen(p))
<1>1. p.topic < 256 /\ len < 16384
  BY DEF Readable
<1>2. len \in Nat /\ total \in Nat /\ len <= total
  BY <1>1, PacketOf, HeardEnough DEF Readable
<1>3. len = 2 + p.topic + p.payload /\ p.topic \in Nat /\ p.payload \in Nat
  BY DEF BodyLen
<1>4. Slice(2, p.topic + 2, len) = 2 .. p.topic + 1
  <2> HIDE DEF len
  <2> QED
    BY <1>3 DEF Slice
<1>5. Slice(p.topic + 2, total, len) = p.topic + 2 .. len - 1
  <2> HIDE DEF len, total
  <2> QED
    BY <1>2, <1>3 DEF Slice
<1>6. parse_packet(Build(p)) =
        {[kind |-> "publish", topic |-> Slice(2, p.topic + 2, len), value |-> Slice(p.topic + 2, total, len)]}
  BY <1>1, <1>2, PacketOf DEF parse_packet
<1>7. Whole(p) = [kind |-> "publish", topic |-> 2 .. p.topic + 1, value |-> p.topic + 2 .. len - 1]
  BY DEF Whole
<1> QED
  BY <1>1, <1>4, <1>5, <1>6, <1>7, PacketOf

(* The digits of every other length below 16384 do harm: on a packet of    *)
(* one of these parse_packet can raise, and then listen ends.              *)
THEOREM OtherLengthsRaise ==
    ASSUME NEW p \in [topic : Nat, payload : Nat], p.topic < 256, BodyLen(p) < 16384,
           ~ LengthReads(BodyLen(p))
    PROVE  [kind |-> "raises"] \in parse_packet(Build(p))
<1> DEFINE len == BodyLen(p)
           total == Heard(BodyLen(p))
<1>1. len \in Nat /\ total \in Nat /\ ~ (len <= total)
  BY PacketOf, HeardEnough
<1>2. BodyLen(Build(p)) = len /\ unpack_remaining_length(Build(p).digits) = total
  BY PacketOf
<1> HIDE DEF len, total
<1>3. CASE len = total + 1
  BY <1>1, <1>2, <1>3 DEF parse_packet
<1>4. CASE len # total + 1
  BY <1>1, <1>2, <1>4 DEF parse_packet
<1> QED
  BY <1>3, <1>4

-----------------------------------------------------------------------------
(* What was sent, and what was made of it. *)
WireInv ==
    \/ datagram = None /\ parsed = None
    \/ /\ \E p \in FromC \cup FromPython : datagram = Build(p)
       /\ parsed \in {None, Whole(datagram)}

(* Every packet whose topic is shorter than 256 bytes and whose length is  *)
(* of one digit, or of two with the lower not below the higher, is given   *)
(* to recv_packet as it was sent (parse_packet of engine.py), whatever     *)
(* packets there are and in whatever order they come.                      *)
THEOREM ReadableIsReadBack ==
    ASSUME \A p \in FromC \cup FromPython : Readable(p)
    PROVE  WireSpec => []ReadBack
<1>1. WireInit => WireInv
  BY DEF WireInit, WireInv
<1>2. WireInv /\ [WireNext]_wirevars => WireInv'
  <2> SUFFICES ASSUME WireInv, [WireNext]_wirevars PROVE WireInv'
    OBVIOUS
  <2>1. ASSUME NEW p \in FromC, PublishFromC(p) PROVE WireInv'
    BY <2>1 DEF PublishFromC, WireInv
  <2>2. ASSUME NEW p \in FromPython, PublishFromPython(p) PROVE WireInv'
    BY <2>2 DEF PublishFromPython, WireInv
  <2>3. CASE Listen
    <3>1. PICK p \in FromC \cup FromPython : datagram = Build(p)
      BY <2>3 DEF Listen, Quiet, WireInv
    <3>2. p \in [topic : Nat, payload : Nat] /\ Readable(p)
      BY WireAssumption DEF WireAssumption
    <3>3. parsed' = Whole(datagram) /\ datagram' = datagram
      BY <2>3, <3>1, <3>2, ReadableIsWhole DEF Listen
    <3> QED
      BY <3>1, <3>3 DEF WireInv, Whole, BodyLen
  <2>4. CASE Done
    BY <2>4 DEF Done, WireInv
  <2>5. CASE UNCHANGED wirevars
    BY <2>5 DEF wirevars, WireInv, Whole, BodyLen
  <2> QED
    BY <2>1, <2>2, <2>3, <2>4, <2>5 DEF WireNext
<1>3. WireInv => ReadBack
  BY DEF WireInv, ReadBack
<1> QED
  BY <1>1, <1>2, <1>3, PTL DEF WireSpec

-----------------------------------------------------------------------------
(* The packets of the two firmwares are readable.  A reading has a topic  *)
(* of 20 bytes and is read whatever its payload up to 105 bytes; it has    *)
(* from 34 to 60 in the C firmware, from 70 to 105 in the other.  A        *)
(* configuration has a topic of 27 bytes, and 99 bytes of payload would    *)
(* be the first that are not read; it has from 149 to 174 in the C         *)
(* firmware, 49 in the other.                                              *)
THEOREM FirmwarePacketsRead ==
    /\ \A n \in 0 .. 105 : Readable([topic |-> 20, payload |-> n])
    /\ \A n \in (0 .. 98) \cup (100 .. 226) : Readable([topic |-> 27, payload |-> n])
<1>1. \A n \in 0 .. 105 : BodyLen([topic |-> 20, payload |-> n]) = 22 + n
  BY DEF BodyLen
<1>2. \A n \in 0 .. 226 : BodyLen([topic |-> 27, payload |-> n]) = 29 + n
  BY DEF BodyLen
<1>3. \A n \in 0 .. 105 : Readable([topic |-> 20, payload |-> n])
  BY <1>1 DEF Readable, LengthReads
<1>4. ASSUME NEW n \in (0 .. 98) \cup (100 .. 226) PROVE Readable([topic |-> 27, payload |-> n])
  <2>1. PICK k \in (0 .. 127) \cup (129 .. 255) : k = 29 + n
    OBVIOUS
  <2>2. BodyLen([topic |-> 27, payload |-> n]) = k
    BY <1>2, <2>1
  <2>3. k < 16384 /\ (k < 128 \/ (k \div 128 = 1 /\ k % 128 >= 1))
    OBVIOUS
  <2> QED
    BY <2>2, <2>3 DEF Readable, LengthReads
<1> QED
  BY <1>3, <1>4

(* So every packet a station builds comes back whole (publish of the C     *)
(* firmware, send_publish; parse_packet), whichever of them there are.     *)
THEOREM FirmwareIsReadBack ==
    ASSUME FromC \cup FromPython \subseteq [topic : {20}, payload : 0 .. 105]
                                         \cup [topic : {27}, payload : (0 .. 98) \cup (100 .. 226)]
    PROVE  WireSpec => []ReadBack
<1>1. ASSUME NEW p \in FromC \cup FromPython PROVE Readable(p)
  <2>1. \/ \E n \in 0 .. 105 : p = [topic |-> 20, payload |-> n]
        \/ \E n \in (0 .. 98) \cup (100 .. 226) : p = [topic |-> 27, payload |-> n]
    OBVIOUS
  <2> QED
    BY <2>1, FirmwarePacketsRead
<1> QED
  BY <1>1, ReadableIsReadBack
=============================================================================
