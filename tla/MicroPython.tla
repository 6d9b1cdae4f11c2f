----------------------------- MODULE MicroPython -----------------------------
(***************************************************************************)
(* The MicroPython firmware of a station: esp32/boot.py, which joins the   *)
(* Wi-Fi or serves the portal, and esp32/main.py, which measures and       *)
(* publishes readings with timestamps of its own.                          *)
(*                                                                         *)
(* The configuration is one file, written only by the portal.  The clock   *)
(* of the chip starts at an epoch far in the past when power comes, keeps  *)
(* running over machine.reset, and is set by NTP at most once in a boot.   *)
(* What the server does with a reading (Listener.tla) comes in as table:   *)
(* the last reading with a timestamp is the one that is kept.              *)
(*                                                                         *)
(* Requests to the portal are those its own form makes.                    *)
(***************************************************************************)
EXTENDS Integers

CONSTANTS
    Creds,      \* pairs of essid and pswd a user may enter
    GoodCreds,  \* those the router accepts
    NoCreds,    \* CFG_DEFAULTS
    Torn,       \* a file that json.loads refuses
    Absent,     \* no file
    PAUSE,      \* seconds run sleeps after a round (5 in the code)
    Start,      \* the real time of the first boot; the epoch is 0
    MaxNow      \* bound on the real time

ASSUME MicroPythonAssumption ==
    /\ GoodCreds \subseteq Creds
    /\ {NoCreds, Torn, Absent} \cap Creds = {} /\ Torn # Absent
    /\ PAUSE \in Nat \ {0}
    /\ Start \in Nat /\ MaxNow \in Nat /\ Start <= MaxNow

VARIABLES
    mode,       \* where boot.py and main.py stand
    cfgfile,    \* the file CFG_NAME: credentials, Torn or Absent
    cfg,        \* cfg: the credentials in it and whether it asks for the AP
    pin,        \* AP_PIN asks for the portal
    router,     \* the router is on the air
    wlan,       \* the station interface: "off", "trying" or "up"
    request,    \* the form being handled, and how far
    page,       \* the page in the user's browser
    now,        \* real time
    offset,     \* the chip's clock minus the real time
    due,        \* when run comes to its next round
    readings,   \* readings published so far
    table,      \* what the server keeps of them: records [ts, n]
    tested      \* history: credentials the portal has connected with

portal == <<request, page>>
world  == <<pin, router>>
time   == <<now, offset>>
sent   == <<due, readings, table>>
vars   == <<mode, cfgfile, cfg, world, wlan, portal, time, sent, tested>>

File      == Creds \cup {Torn, Absent}
NoPage    == [kind |-> "none", creds |-> NoCreds]
NoRequest == [step |-> "none", creds |-> NoCreds]
Handled   == [step : {"test", "open", "write"}, creds : Creds]

McTypeOK ==
    /\ mode \in {"boot", "ap", "connect", "run"}
    /\ cfgfile \in File
    /\ cfg \in [creds : Creds \cup {NoCreds}, ap : BOOLEAN]
    /\ pin \in BOOLEAN /\ router \in BOOLEAN
    /\ wlan \in {"off", "trying", "up"}
    /\ request \in Handled \cup {NoRequest}
    /\ page \in [kind : {"none", "form", "failed", "stored", "store_error"},
                 creds : Creds \cup {NoCreds}]
    /\ now \in Start .. MaxNow
    /\ offset \in -now .. 0
    /\ due \in Nat /\ readings \in Nat
    /\ table \subseteq [ts : 0 .. MaxNow, n : 1 .. readings]
    /\ tested \subseteq Creds

(* A station as it leaves the desk: no file, and power for the first time. *)
Init ==
    /\ mode = "boot"
    /\ cfgfile = Absent
    /\ cfg = [creds |-> NoCreds, ap |-> FALSE]
    /\ pin \in BOOLEAN /\ router \in BOOLEAN
    /\ wlan = "off"
    /\ request = NoRequest /\ page = NoPage
    /\ now = Start /\ offset = -Start
    /\ due = 0 /\ readings = 0 /\ table = {}
    /\ tested = {}

-----------------------------------------------------------------------------
(* Mutant: only a file that is missing leads to the portal. *)
Bug_get_cfg ==
    IF cfgfile \in Creds THEN [creds |-> cfgfile, ap |-> pin]
                         ELSE [creds |-> NoCreds, ap |-> cfgfile = Absent]

(* get_cfg: any exception means the defaults and the portal. *)
get_cfg ==
    IF cfgfile \in Creds THEN [creds |-> cfgfile, ap |-> pin]
                         ELSE [creds |-> NoCreds, ap |-> TRUE]

(* The end of boot.py: connect starts, or start_ap, which never returns    *)
(* once it has a socket.  An exception before that is caught, and main.py  *)
(* runs with no station interface.                                         *)
Boot ==
    /\ mode = "boot"
    /\ cfg' = get_cfg
    /\ \/ cfg'.ap  /\ mode' \in {"ap", "run"} /\ wlan' = "off"
       \/ ~cfg'.ap /\ mode' = "connect"       /\ wlan' = "trying"
    /\ UNCHANGED <<cfgfile, world, portal, time, sent, tested>>

(* connect, the network is there: NTP sets the clock, or does not answer.  *)
SyncTime ==
    /\ mode = "connect"
    /\ wlan = "up"
    /\ offset' \in {0, offset}
    /\ mode' = "run"
    /\ UNCHANGED <<cfgfile, cfg, world, wlan, portal, now, sent, tested>>

(* connect, CONNECT_WAIT looks later, or an exception: main.py runs all    *)
(* the same, and the interface goes on trying.                             *)
GiveUp ==
    /\ mode = "connect"
    /\ wlan = "trying"
    /\ mode' = "run"
    /\ UNCHANGED <<cfgfile, cfg, world, wlan, portal, time, sent, tested>>

-----------------------------------------------------------------------------
(* Mutant: the zone that the form asks for is added. *)
Bug_tstamp == now + offset + 1

(* tstamp, in whole seconds of the chip's clock. *)
tstamp == now + offset

(* INSERT OR REPLACE by the server. *)
Store(ts, n) == table' = {q \in table : q.ts # ts} \cup {[ts |-> ts, n |-> n]}

(* Mutant: the loop without its pauses. *)
Bug_Publish ==
    /\ mode = "run" /\ now >= due
    /\ wlan = "up"
    /\ readings' = readings + 1
    /\ Store(tstamp, readings') \/ UNCHANGED table
    /\ due' = now
    /\ UNCHANGED <<mode, cfgfile, cfg, world, wlan, portal, time, tested>>

(* run, a round that works: the broadcast may be lost. *)
Publish ==
    /\ mode = "run" /\ now >= due
    /\ wlan = "up"
    /\ readings' = readings + 1
    /\ Store(tstamp, readings') \/ UNCHANGED table
    /\ due' = now + 1 + PAUSE
    /\ UNCHANGED <<mode, cfgfile, cfg, world, wlan, portal, time, tested>>

(* run, sendto raises: there is no network, at the first packet or between *)
(* the two of them; or the packets go out on the network of a portal that  *)
(* was not set up.  What was measured is gone.                             *)
PublishFails ==
    /\ mode = "run" /\ now >= due
    /\ wlan # "up"
    /\ due' \in {now + PAUSE, now + 1 + PAUSE}
    /\ UNCHANGED <<mode, cfgfile, cfg, world, wlan, portal, time, readings,
                   table, tested>>

-----------------------------------------------------------------------------
InAp(step) == mode = "ap" /\ request.step = step

(* start_ap: a request without a form shows what is on file. *)
ShowForm ==
    /\ InAp("none")
    /\ cfg' = get_cfg
    /\ page' = [kind |-> "form", creds |-> cfg'.creds]
    /\ UNCHANGED <<mode, cfgfile, world, wlan, request, time, sent, tested>>

(* _test_wifi starts. *)
Submit(c) ==
    /\ InAp("none")
    /\ request' = [step |-> "test", creds |-> c]
    /\ page' = NoPage
    /\ wlan' = "trying"
    /\ UNCHANGED <<mode, cfgfile, cfg, world, time, sent, tested>>

(* The page of a request ends it, and the interface is switched off.  When *)
(* send raises, nobody sees the page.                                      *)
Answer(kind) ==
    /\ page' \in {[kind |-> kind, creds |-> request.creds], NoPage}
    /\ request' = NoRequest
    /\ wlan' = "off"

(* _test_wifi raises, and the request ends without a page.  The interface  *)
(* stays as it was then.                                                   *)
TestRaises ==
    /\ InAp("test")
    /\ wlan # "up"
    /\ request' = NoRequest
    /\ wlan' \in {"off", "trying"}
    /\ UNCHANGED <<mode, cfgfile, cfg, page, world, time, sent, tested>>

TestFails ==
    /\ InAp("test")
    /\ wlan = "trying"
    /\ Answer("failed")
    /\ UNCHANGED <<mode, cfgfile, cfg, world, time, sent, tested>>

TestWorks ==
    /\ InAp("test")
    /\ wlan = "up"
    /\ tested' = tested \cup {request.creds}
    /\ request' = [request EXCEPT !.step = "open"]
    /\ UNCHANGED <<mode, cfgfile, cfg, world, wlan, page, time, sent>>

OpenFile ==
    /\ InAp("open")
    /\ \/ /\ request' = [request EXCEPT !.step = "write"]
          /\ UNCHANGED <<page, wlan>>
       \/ Answer("store_error")
    /\ UNCHANGED <<mode, cfgfile, cfg, world, time, sent, tested>>

(* Mutant: the error of a full disk is not told apart. *)
Bug_WriteFile ==
    /\ InAp("write")
    /\ cfgfile' \in {request.creds, Torn}
    /\ Answer("stored")
    /\ UNCHANGED <<mode, cfg, world, time, sent, tested>>

(* The file was emptied by open; write and close, or a full disk. *)
WriteFile ==
    /\ InAp("write")
    /\ \/ cfgfile' = request.creds /\ Answer("stored")
       \/ cfgfile' = Torn /\ Answer("store_error")
    /\ UNCHANGED <<mode, cfg, world, time, sent, tested>>

-----------------------------------------------------------------------------
(* RAM is gone, and a start takes a second at least. *)
Restarted ==
    /\ now < MaxNow
    /\ now' = now + 1
    /\ mode' = "boot"
    /\ cfg' = [creds |-> NoCreds, ap |-> FALSE]
    /\ wlan' = "off"
    /\ request' = NoRequest
    /\ due' = 0
    /\ UNCHANGED <<world, page, readings, table, tested>>

(* The box "Reboot" of the form: process_request resets the chip. *)
RebootRequest ==
    /\ InAp("none")
    /\ Restarted
    /\ UNCHANGED <<cfgfile, offset>>

(* The clock starts at the epoch, and a file that was open is the old one, *)
(* the new one, or neither.                                                *)
PowerLoss ==
    /\ Restarted
    /\ offset' = -now'
    /\ IF InAp("write") THEN cfgfile' \in {cfgfile, request.creds, Torn}
                        ELSE UNCHANGED cfgfile

(* External: time, the switch at AP_PIN, the router, the interface. *)
Tick ==
    /\ now < MaxNow
    /\ now' = now + 1
    /\ UNCHANGED <<mode, cfgfile, cfg, world, wlan, portal, offset, sent, tested>>

Surroundings ==
    /\ \/ pin' = ~pin /\ UNCHANGED router
       \/ router' = ~router /\ UNCHANGED pin
    /\ UNCHANGED <<mode, cfgfile, cfg, wlan, portal, time, sent, tested>>

Trying == IF mode = "ap" THEN request.creds ELSE cfg.creds

Link ==
    /\ \/ wlan = "trying" /\ router /\ Trying \in GoodCreds /\ wlan' = "up"
       \/ wlan = "up" /\ wlan' = "trying"
    /\ UNCHANGED <<mode, cfgfile, cfg, world, portal, time, sent, tested>>

-----------------------------------------------------------------------------
Next ==
    \/ Boot \/ SyncTime \/ GiveUp
    \/ Publish \/ PublishFails
    \/ ShowForm \/ TestRaises \/ TestFails \/ TestWorks \/ OpenFile \/ WriteFile
    \/ \E c \in Creds : Submit(c)
    \/ RebootRequest \/ PowerLoss
    \/ Tick \/ Surroundings \/ Link

Spec == Init /\ [][Next]_vars

-----------------------------------------------------------------------------
(* Why the first two: what is on file, or about to be, has been connected  *)
(* with; and no page is seen while a form is being handled.                *)
FileTested ==
    /\ cfgfile \in Creds => cfgfile \in tested
    /\ request.step \in {"open", "write"} => request.creds \in tested

PageFollows == request.step # "none" => page = NoPage

(* Why the last two: the readings on file are older, or run pauses. *)
Paced == \A q \in table : q.ts < now \/ now < due

(* "serve config page until valid credentials are saved" (boot.py:96): out *)
(* of the portal a station looks for a network only with credentials it    *)
(* has connected with, whatever was torn, refused or switched, and         *)
(* whatever raised, on the way (get_cfg, start_ap, connect).               *)
StationModeTested ==
    mode \in {"connect", "run"} /\ wlan # "off" => cfg.creds \in tested

(* "Settings stored" on the page (start_ap): the file holds them, and does *)
(* so through every restart until another form is sent.                    *)
StoredPageIsTrue == page.kind = "stored" => cfgfile = page.creds

(* A reading takes the place of another in the server's table only when    *)
(* the clock of the station is wrong: tstamp has whole seconds, and the    *)
(* server keeps one reading for each (tstamp, run; store in listenudp.py). *)
OnlyWrongClocksReplace ==
    [][\A q \in table : q \notin table' => offset # 0]_vars

(* No reading is dated ahead of real time (tstamp, connect), which is what *)
(* the server's offline rule relies on.                                    *)
NeverAhead == \A q \in table : q.ts <= now

(* The inductive invariants of the portal, the page and the clock. *)
PortalInv == McTypeOK /\ FileTested /\ StationModeTested

PageInv == McTypeOK /\ PageFollows /\ StoredPageIsTrue

ClockInv == McTypeOK /\ NeverAhead /\ Paced
=============================================================================
