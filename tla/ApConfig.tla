------------------------------ MODULE ApConfig ------------------------------
(***************************************************************************)
(* The captive portal of the C firmware, espidf/main/ap_config.c: the      *)
(* credentials and the conn_fail flag in the non-volatile storage (NVS),   *)
(* and the HTTP handlers that show and replace them.                       *)
(*                                                                         *)
(* The HTTP server runs one handler at a time, so a request is handled to  *)
(* its end before the next one.  Saving is four steps nevertheless: the    *)
(* device can lose power between them, and each NVS call can fail.  NVS    *)
(* (external) keeps what nvs_commit returned ESP_OK for; of later writes   *)
(* each may or may not survive a reset, and all are visible before one.    *)
(***************************************************************************)
EXTENDS Integers

CONSTANTS
    Ssid,           \* network names a user may enter
    Password,       \* passwords a user may enter
    Empty,          \* an absent NVS key
    MaxNvsFaults    \* bound on the NVS calls that fail

ASSUME ApConfigAssumption ==
    /\ Empty \notin Ssid \cup Password
    /\ MaxNvsFaults \in Nat

VARIABLES
    nvs,        \* what nvs_get_* returns
    flash,      \* what survives a reset for certain
    serving,    \* the HTTP server runs (AP mode)
    request,    \* /save at work: its step and the credentials entered
    page,       \* the last page sent, with the credentials it names
    nvs_faults  \* NVS calls that failed

apvars == <<nvs, flash, serving, request, page, nvs_faults>>

Entered == [ssid : Ssid, password : Password]
Storage == [ssid : Ssid \cup {Empty}, password : Password \cup {Empty},
            conn_fail : BOOLEAN]
Blank   == [ssid |-> Empty, password |-> Empty]
Erased  == [ssid |-> Empty, password |-> Empty, conn_fail |-> FALSE]

Step   == {"idle", "ssid", "password", "commit", "reboot"}
Page   == {"none", "enter", "failed", "required", "saved", "save_failed"}
NoPage == [kind |-> "none", creds |-> Blank]
NoRequest == [step |-> "idle", creds |-> Blank]

ApInit ==
    /\ nvs = Erased
    /\ flash = Erased
    /\ serving = FALSE
    /\ request = NoRequest
    /\ page = NoPage
    /\ nvs_faults = 0

Stored == [ssid |-> nvs.ssid, password |-> nvs.password]

(* What is on file makes ap_config_load return true, when it can be read.  *)
(* A password of no characters is stored as a key like any other; Empty    *)
(* stands for a key that is not there.                                     *)
Loads == nvs.ssid # Empty /\ nvs.password # Empty

Fault ==
    /\ nvs_faults < MaxNvsFaults
    /\ nvs_faults' = nvs_faults + 1

-----------------------------------------------------------------------------
(* One key is written, and committed at once. *)
NoteConnFailed(failed) ==
    /\ nvs' = [nvs EXCEPT !.conn_fail = failed]
    /\ flash' = nvs'

(* ap_config_set_conn_failed: nothing is done when nvs_open fails; what     *)
(* the write and the commit return is not looked at.                       *)
SetConnFailed(failed) ==
    \/ NoteConnFailed(failed) /\ UNCHANGED nvs_faults
    \/ Fault /\ nvs' \in {nvs, [nvs EXCEPT !.conn_fail = failed]} /\ UNCHANGED flash

(* A read of root_handler fails: a flag that cannot be read counts as not  *)
(* set, and what cannot be read of the credentials is left blank.          *)
ReadFails ==
    /\ Fault
    /\ \/ /\ page' = [kind |-> "enter", creds |-> Blank]
          /\ UNCHANGED <<nvs, flash>>
       \/ /\ nvs.conn_fail
          /\ page' \in [kind : {"failed"}, creds : [ssid : {nvs.ssid, Empty},
                                                    password : {nvs.password, Empty}]]
          /\ NoteConnFailed(FALSE)

(* root_handler: the failure is shown once, with the stored credentials.   *)
(* At most one call fails in a request.                                    *)
RootHandler ==
    /\ serving
    /\ request.step = "idle"
    /\ \/ /\ nvs.conn_fail
          /\ page' = [kind |-> "failed", creds |-> Stored]
          /\ SetConnFailed(FALSE)
       \/ /\ ~nvs.conn_fail
          /\ page' = [kind |-> "enter", creds |-> Blank]
          /\ UNCHANGED <<nvs, flash, nvs_faults>>
       \/ ReadFails
    /\ UNCHANGED <<serving, request>>

(* save_handler, on a request without a name for the network. *)
RefuseSave ==
    /\ serving
    /\ request.step = "idle"
    /\ page' = [kind |-> "required", creds |-> Blank]
    /\ UNCHANGED <<nvs, flash, serving, request, nvs_faults>>

(* save_handler up to nvs_open in ap_config_save. *)
BeginSave(c) ==
    /\ serving
    /\ request.step = "idle"
    /\ request' = [step |-> "ssid", creds |-> c]
    /\ UNCHANGED <<nvs, flash, serving, page, nvs_faults>>

OpenFails ==
    /\ serving
    /\ request.step = "idle"
    /\ Fault
    /\ page' = [kind |-> "save_failed", creds |-> Blank]
    /\ UNCHANGED <<nvs, flash, serving, request>>

(* nvs_set_str, twice: the result is not looked at. *)
SetStr(key, next) ==
    /\ request.step = key
    /\ request' = [request EXCEPT !.step = next]
    /\ \/ /\ nvs' = [nvs EXCEPT ![key] = request.creds[key]]
          /\ UNCHANGED nvs_faults
       \/ /\ Fault
          /\ UNCHANGED nvs
    /\ UNCHANGED <<flash, serving, page>>

SetSsid     == SetStr("ssid", "password")
SetPassword == SetStr("password", "commit")

(* Mutant: the page is sent and the commit forgotten. *)
Bug_Commit ==
    /\ request.step = "commit"
    /\ page' = [kind |-> "saved", creds |-> request.creds]
    /\ request' = [request EXCEPT !.step = "reboot"]
    /\ UNCHANGED <<nvs, flash, nvs_faults, serving>>

(* nvs_commit, and the page that tells what it returned; two seconds later *)
(* the device restarts.                                                    *)
Commit ==
    /\ request.step = "commit"
    /\ \/ /\ flash' = nvs
          /\ page' = [kind |-> "saved", creds |-> request.creds]
          /\ request' = [request EXCEPT !.step = "reboot"]
          /\ UNCHANGED nvs_faults
       \/ /\ Fault
          /\ page' = [kind |-> "save_failed", creds |-> Blank]
          /\ request' = NoRequest
          /\ UNCHANGED flash
    /\ UNCHANGED <<nvs, serving>>

Save == SetSsid \/ SetPassword \/ Commit

User ==
    \/ RootHandler
    \/ RefuseSave
    \/ OpenFails
    \/ \E c \in Entered : BeginSave(c)

-----------------------------------------------------------------------------
(* ap_config_start, until its while (true). *)
StartPortal ==
    /\ ~serving
    /\ serving' = TRUE
    /\ UNCHANGED <<nvs, flash, request, page, nvs_faults>>

(* The device resets: RAM is gone, and so may be what was not committed.   *)
ApReset ==
    /\ nvs' \in {s \in Storage : \A key \in {"ssid", "password", "conn_fail"} :
                                    s[key] \in {nvs[key], flash[key]}}
    /\ flash' = nvs'
    /\ serving' = FALSE
    /\ request' = NoRequest
    /\ page' = NoPage
    /\ UNCHANGED nvs_faults

-----------------------------------------------------------------------------
(* "@return true on success" (ap_config.h:24): the page that says "Saved!" *)
(* tells of credentials that are stored and survive the restart it         *)
(* announces, whenever the power fails on the way (save_handler on         *)
(* ap_config_save).  Holds while no NVS call fails: a failing nvs_set_str  *)
(* goes unnoticed.                                                         *)
SavedIsStored ==
    page.kind = "saved" /\ nvs_faults = 0 =>
        /\ flash.ssid = page.creds.ssid
        /\ flash.password = page.creds.password
=============================================================================
