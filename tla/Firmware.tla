------------------------------ MODULE Firmware ------------------------------
(***************************************************************************)
(* The C firmware of a station, espidf/main/main.c: what one wake does and *)
(* what a wake leaves to the next.  app_main runs over the Wi-Fi station   *)
(* of Wifi.tla and the portal of ApConfig.tla.                             *)
(*                                                                         *)
(* Three memories differ in what they survive: RAM (Wi-Fi state, pc)       *)
(* nothing, RTC memory (the two counters) deep sleep only, NVS every       *)
(* reset.  A reset can come at any moment: power, panic, watchdog.         *)
(***************************************************************************)
EXTENDS Wifi, ApConfig

CONSTANTS
    WIFI_FAIL_THRESHOLD,    \* failed wakes before AP mode (5 by default)
    CONFIG_SEND_INTERVAL,   \* wakes between configurations (24 by default)
    MaxResets,              \* bound on unwanted resets
    MaxHangs                \* bound on calls that never return

ASSUME FirmwareAssumption ==
    /\ WIFI_FAIL_THRESHOLD \in 2 .. 20      \* Kconfig.projbuild
    /\ CONFIG_SEND_INTERVAL \in 1 .. 1000
    /\ Creds = Entered
    /\ MaxResets \in Nat /\ MaxHangs \in Nat

VARIABLES
    pc,                 \* where app_main stands
    s_wifi_fail_count,  \* RTC memory
    s_boot_count,       \* RTC memory
    sensor_ok,
    wdt,                \* app_main is subscribed to the task watchdog
    hung,               \* a call of app_main does not return
    resets, hangs,
    failed,             \* history: failed wakes since a success or AP mode,
                        \* counted as far as the threshold
    tried               \* history: the credentials of the last failed wake

rtc     == <<s_wifi_fail_count, s_boot_count>>
history == <<failed, tried>>
bounds  == <<resets, hangs>>
fwvars  == <<wifivars, apvars, pc, rtc, sensor_ok, wdt, hung, bounds, history>>

PC == {"boot", "start", "sensor", "wait", "send", "config", "leave", "stop",
       "sleep", "ap"}

(* A new device: nothing stored, all counters zero. *)
FwInit ==
    /\ WifiInit /\ ApInit
    /\ pc = "boot"
    /\ s_wifi_fail_count = 0
    /\ s_boot_count = 0
    /\ sensor_ok = FALSE
    /\ wdt = TRUE
    /\ hung = FALSE
    /\ resets = 0 /\ hangs = 0
    /\ failed = 0
    /\ tried = Blank

-----------------------------------------------------------------------------
At(where) == pc = where /\ ~hung

Goto(where) == pc' = where

(* Mutant: the watchdog stays armed. *)
Bug_EnterAp ==
    /\ Goto("ap")
    /\ failed' = 0
    /\ UNCHANGED <<wdt, tried>>

(* ap_config_start, entered with the watchdog off. *)
EnterAp ==
    /\ Goto("ap")
    /\ wdt' = FALSE
    /\ failed' = 0
    /\ UNCHANGED tried

(* Credentials are loaded, then the failures are counted; entering AP mode *)
(* for the failures forgets them.  A read that fails is as good as no key. *)
NoCredentials ==
    /\ At("boot")
    /\ \/ ~Loads /\ UNCHANGED nvs_faults
       \/ Fault
    /\ EnterAp
    /\ UNCHANGED <<wifivars, nvs, flash, serving, request, page, rtc, sensor_ok,
                   hung, bounds>>

TooManyFailures ==
    /\ At("boot")
    /\ Loads
    /\ s_wifi_fail_count >= WIFI_FAIL_THRESHOLD
    /\ s_wifi_fail_count' = 0
    /\ EnterAp
    /\ UNCHANGED <<wifivars, apvars, s_boot_count, sensor_ok, hung, bounds>>

TryWifi ==
    /\ At("boot")
    /\ Loads
    /\ s_wifi_fail_count < WIFI_FAIL_THRESHOLD
    /\ Goto("start")
    /\ UNCHANGED <<wifivars, apvars, rtc, sensor_ok, wdt, hung, bounds, history>>

(* wifi_common_init: a partition that cannot be read is erased. *)
NvsErased ==
    /\ At("boot")
    /\ Fault
    /\ nvs' = Erased
    /\ flash' = Erased
    /\ UNCHANGED <<wifivars, serving, request, page, pc, rtc, sensor_ok, wdt,
                   hung, bounds, history>>

StartSta ==
    /\ At("start")
    /\ InitSta(Stored)
    /\ Goto("sensor")
    /\ UNCHANGED <<apvars, rtc, sensor_ok, wdt, hung, bounds, history>>

(* sensor_init, while the station connects. *)
SensorInit ==
    /\ At("sensor")
    /\ sensor_ok' \in BOOLEAN
    /\ Goto("wait")
    /\ UNCHANGED <<wifivars, apvars, rtc, wdt, hung, bounds, history>>

(* Mutant: the wait without a timeout. *)
Bug_WaitForWifi ==
    /\ At("wait")
    /\ CallWait("forever") \/ WaitReturns
    /\ UNCHANGED <<apvars, pc, rtc, sensor_ok, wdt, hung, bounds, history>>

WaitForWifi ==
    /\ At("wait")
    /\ CallWait("timed") \/ WaitReturns
    /\ UNCHANGED <<apvars, pc, rtc, sensor_ok, wdt, hung, bounds, history>>

CountFailure == failed' = IF failed < WIFI_FAIL_THRESHOLD THEN failed + 1
                                                         ELSE failed

(* Mutant: the failure is counted and not noted for the user. *)
Bug_WifiFailed ==
    /\ At("wait")
    /\ waiter = "false"
    /\ s_wifi_fail_count' = s_wifi_fail_count + 1
    /\ Goto("leave")
    /\ CountFailure
    /\ tried' = sta_config
    /\ UNCHANGED <<wifivars, apvars, s_boot_count, sensor_ok, wdt, hung, bounds>>

WifiFailed ==
    /\ At("wait")
    /\ waiter = "false"
    /\ s_wifi_fail_count' = s_wifi_fail_count + 1
    /\ SetConnFailed(TRUE)
    /\ Goto("leave")
    /\ CountFailure
    /\ tried' = sta_config
    /\ UNCHANGED <<wifivars, serving, request, page, s_boot_count, sensor_ok,
                   wdt, hung, bounds>>

(* Mutant: failures need not be consecutive. *)
Bug_WifiWorked ==
    /\ At("wait")
    /\ waiter = "true"
    /\ SetConnFailed(FALSE)
    /\ Goto(IF sensor_ok THEN "send" ELSE "leave")
    /\ failed' = 0
    /\ UNCHANGED <<wifivars, serving, request, page, rtc, sensor_ok, wdt, hung,
                   bounds, tried>>

WifiWorked ==
    /\ At("wait")
    /\ waiter = "true"
    /\ s_wifi_fail_count' = 0
    /\ SetConnFailed(FALSE)
    /\ Goto(IF sensor_ok THEN "send" ELSE "leave")
    /\ failed' = 0
    /\ UNCHANGED <<wifivars, serving, request, page, s_boot_count, sensor_ok,
                   wdt, hung, bounds, tried>>

(* sensor_read and mqttudp_send_sensor_data: whatever comes of them, the   *)
(* wake goes on.                                                           *)
MeasureAndSend ==
    /\ At("send")
    /\ Goto("config")
    /\ UNCHANGED <<wifivars, apvars, rtc, sensor_ok, wdt, hung, bounds, history>>

ConfigDue(n) == n >= CONFIG_SEND_INTERVAL \/ n = 1

SendConfig ==
    /\ At("config")
    /\ s_boot_count' = IF ConfigDue(s_boot_count + 1) THEN 0
                                                      ELSE s_boot_count + 1
    /\ Goto("leave")
    /\ UNCHANGED <<wifivars, apvars, s_wifi_fail_count, sensor_ok, wdt, hung,
                   bounds, history>>

(* deep_sleep: the watchdog goes first, then Wi-Fi, then the chip.         *)
RemoveWdt ==
    /\ At("leave")
    /\ wdt' = FALSE
    /\ Goto("stop")
    /\ UNCHANGED <<wifivars, apvars, rtc, sensor_ok, hung, bounds, history>>

Sleep ==
    /\ At("stop")
    /\ Stop
    /\ Goto("sleep")
    /\ UNCHANGED <<apvars, rtc, sensor_ok, wdt, hung, bounds, history>>

(* Mutant: the counter is an ordinary static variable. *)
Bug_Wake ==
    /\ At("sleep")
    /\ WifiReset /\ UNCHANGED router
    /\ Goto("boot")
    /\ s_wifi_fail_count' = 0
    /\ sensor_ok' = FALSE
    /\ wdt' = TRUE
    /\ UNCHANGED <<apvars, s_boot_count, hung, bounds, history>>

(* The timer wakes the chip; RTC memory is as it was. *)
Wake ==
    /\ At("sleep")
    /\ WifiReset /\ UNCHANGED router
    /\ Goto("boot")
    /\ sensor_ok' = FALSE
    /\ wdt' = TRUE
    /\ UNCHANGED <<apvars, rtc, hung, bounds, history>>

-----------------------------------------------------------------------------
(* Every reset but the wake from deep sleep starts the counters anew. *)
Reset ==
    /\ WifiReset /\ UNCHANGED router
    /\ ApReset
    /\ Goto("boot")
    /\ s_wifi_fail_count' = 0
    /\ s_boot_count' = 0
    /\ sensor_ok' = FALSE
    /\ wdt' = TRUE
    /\ hung' = FALSE
    /\ UNCHANGED <<failed, tried, hangs>>

(* Power, brownout, a panic; or the HTTP server does not start and         *)
(* ap_config_start returns to esp_restart.                                 *)
UnwantedReset ==
    /\ resets < MaxResets
    /\ resets' = resets + 1
    /\ Reset

(* save_handler: esp_restart. *)
RestartAfterSave ==
    /\ request.step = "reboot"
    /\ Reset
    /\ UNCHANGED resets

WdtFires ==
    /\ hung /\ wdt
    /\ Reset
    /\ UNCHANGED resets

(* A driver call of app_main does not return. *)
Hang ==
    /\ hangs < MaxHangs
    /\ ~hung
    /\ pc \notin {"sleep", "ap"}
    /\ hangs' = hangs + 1
    /\ hung' = TRUE
    /\ UNCHANGED <<wifivars, apvars, pc, rtc, sensor_ok, wdt, resets, history>>

-----------------------------------------------------------------------------
Main ==
    \/ NoCredentials \/ TooManyFailures \/ TryWifi
    \/ StartSta \/ SensorInit \/ WaitForWifi \/ WifiFailed \/ WifiWorked
    \/ MeasureAndSend \/ SendConfig \/ RemoveWdt \/ Sleep \/ Wake

(* The tasks beside app_main. *)
Frame == UNCHANGED <<pc, rtc, sensor_ok, wdt, hung, bounds, history>>

Radio  == (Driver \/ EventHandler \/ RouterChanges) /\ UNCHANGED apvars /\ Frame
Portal == At("ap") /\ (StartPortal \/ User \/ Save) /\ UNCHANGED wifivars /\ Frame

FwNext ==
    \/ Main
    \/ Radio
    \/ Portal
    \/ RestartAfterSave
    \/ WdtFires
    \/ UnwantedReset
    \/ NvsErased
    \/ Hang

(* The chip runs: a task that can go on does, the timer wakes it, the      *)
(* watchdog fires.  Users, routers and failures owe nothing.               *)
FwSpec ==
    /\ FwInit /\ [][FwNext]_fwvars
    /\ WF_fwvars(Main)
    /\ WF_fwvars(WdtFires)
    /\ WF_fwvars(RestartAfterSave)

-----------------------------------------------------------------------------
(* AP mode is entered by a device that cannot load credentials, or after   *)
(* WIFI_FAIL_THRESHOLD wakes that all failed: resets, which lose the       *)
(* count, never bring it earlier (app_main, RTC memory).  A load fails     *)
(* when a key is not there or cannot be read.                              *)
ApOnlyAfterFailures ==
    [][(pc = "boot" /\ pc' = "ap" /\ Loads /\ nvs_faults' = nvs_faults)
           => failed >= WIFI_FAIL_THRESHOLD]_fwvars

(* A network that stays away brings the device into AP mode, again after   *)
(* every configuration, whatever resets there were (README.md:108).        *)
AutomaticAp == <>[](~router) => []<>(pc = "ap" \/ (hung /\ ~wdt))

(* Every wake ends in deep sleep or in AP mode; a call that hangs is ended *)
(* by the watchdog as long as it watches (main.c, WDT).                    *)
WakeEnds == pc = "boot" ~> (pc \in {"sleep", "ap"} \/ (hung /\ ~wdt))

(* What a failed wake tells the user: while failures are counted, the flag *)
(* is set and the credentials on file are the ones that failed, and the    *)
(* page that says so names them (README.md:154; conn_fail in NVS, the      *)
(* count in RTC memory).  Holds while no NVS call fails.                   *)
FailureIsTold ==
    nvs_faults = 0 =>
        /\ s_wifi_fail_count > 0 => nvs.conn_fail /\ Stored = tried
        /\ page.kind = "failed" => page.creds = tried

(* AP mode waits for a user without a limit: no watchdog may be armed in   *)
(* it, nor in deep sleep (README.md:151).                                  *)
UnwatchedWaits == pc \in {"ap", "sleep"} => ~wdt
=============================================================================
