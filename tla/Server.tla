------------------------------- MODULE Server -------------------------------
(***************************************************************************)
(* The server as its users meet it: the listener of Listener.tla and the   *)
(* web process, server/web.py, over the same SQLite files.  The two share  *)
(* nothing but the files.  The web process adds two writers, a rename and  *)
(* the bulk upload of the MicroPython firmware, and the view of a station  *)
(* that the pages show (brief_data).                                       *)
(*                                                                         *)
(* The clock counts TICK seconds and runs forward: that a wall clock set   *)
(* back blocks the window is Listener's business.                          *)
(***************************************************************************)
EXTENDS Listener, FiniteSets

CONSTANTS
    TICK,       \* seconds per unit of the clock
    ESPIDF,     \* the value of parameter "fw" that the C firmware sends
    IntOf,      \* IntOf[v]: int(v) for the values of parameter "sleep"
    NewName,    \* names a user may give a station
    MaxUploads  \* bound on the bulk uploads

ASSUME ServerAssumption ==
    /\ TICK \in Nat \ {0}
    /\ {"fw", "sleep"} \subseteq Key
    /\ ESPIDF \in Val /\ NewName \subseteq Val
    /\ IntOf \in [Val -> Nat]

\* What a station tells of itself does not contain a name (mqttudp_send_config of
\* the C firmware, run of the MicroPython one).
ASSUME ConfAssumption == \A c \in Conf : "name" \notin DOMAIN c

VARIABLES
    heard,      \* history: heard[d], the latest sign of life of d, or None
    uploads     \* bulk uploads so far

allvars == <<vars, heard, uploads>>

ServerInit ==
    /\ Init
    /\ heard = Nothing
    /\ uploads = 0

-----------------------------------------------------------------------------
(* is_espidf and sleep_seconds: minutes from the C firmware, milliseconds  *)
(* from the MicroPython one, 15 minutes when nothing is known.             *)
is_espidf(ps) == ps["fw"] = ESPIDF

sleep_seconds(ps) ==
    LET sleep(default) == IF ps["sleep"] = None THEN default
                                                ELSE IntOf[ps["sleep"]]
    IN IF is_espidf(ps)
       THEN sleep(15) * 60
       ELSE IF sleep(900000) > 1000 THEN sleep(900000) \div 1000
                                    ELSE sleep(900000)

RowsOf(d) == {q \in rows : q.wid = d}

(* ORDER BY timedate DESC LIMIT 1 *)
Latest(d) == CHOOSE q \in RowsOf(d) : \A r \in RowsOf(d) : r.ts <= q.ts

(* time_ago, in seconds; negative for a row from the future. *)
Age(ts) == TICK * (clock - ts)

(* brief_data: the pages show d as offline.                                *)
Offline(d) == LET age == Age(Latest(d).ts)
              IN age # 0 /\ 2 * age > 5 * sleep_seconds(params[d])

-----------------------------------------------------------------------------
(* d was alive at t. *)
Alive(d, t) == heard' = [heard EXCEPT ![d] = IF @ # None /\ @ > t THEN @ ELSE t]

(* A reading of d is delivered to the running listener. *)
HearReading(d) ==
    /\ Alive(d, clock)
    /\ UNCHANGED uploads

(* No station dates a reading ahead of the server: the C firmware dates     *)
(* none, and of the MicroPython firmware NeverAhead says so.               *)
Past(r) == r.ts <= clock

(* recv_packet: the payload of last time again is dropped. *)
RecvDuplicate(d, m) ==
    /\ up
    /\ job = None
    /\ last[<<d, "data">>] = m
    /\ HearReading(d)
    /\ UNCHANGED vars

ReceiveReading ==
    \E d \in Device, m \in Reading :
        \/ RecvDuplicate(d, m)
        \/ RecvDeviceStamped(d, m) /\ Past(m) /\ HearReading(d)
        \/ RecvInWindow(d, m) /\ HearReading(d)
        \/ RecvServerStamped(d, m) /\ HearReading(d)

ReceiveConf ==
    /\ \E d \in Device, c \in Conf : RecvConf(d, c)
    /\ UNCHANGED <<heard, uploads>>

(* graph with ?rename=: a page of a station whose file and tables exist. *)
Rename(d, n) ==
    /\ d \in tables
    /\ params' = [params EXCEPT ![d]["name"] = n]
    /\ UNCHANGED <<clock, up, memory, job, rows, tables, stamped, faults,
                   heard, uploads>>

(* store, POST /id/<d>: each row by itself; a row whose INSERT raises is   *)
(* logged and left out, and the answer is OK all the same.  Where the      *)
(* tables are missing every INSERT raises.  One transaction holds them     *)
(* all: of a commit that raises nothing stays.                             *)
Upload(d, batch) ==
    /\ uploads < MaxUploads
    /\ uploads' = uploads + 1
    /\ \E kept \in SUBSET batch :
          /\ d \in tables \/ kept = {}
          /\ rows' = {q \in rows : \A r \in kept : q.wid # r.wid \/ q.ts # r.ts}
                     \cup kept
    /\ \E r \in batch : (\A q \in batch : q.ts <= r.ts) /\ Alive(d, r.ts)
    /\ UNCHANGED <<clock, up, memory, job, tables, params, stamped, faults>>

(* A batch as a MicroPython station keeps it: one row per timestamp. *)
Batch(d) ==
    {b \in SUBSET [wid : {d}, ts : DeviceTs, body : Body] :
        /\ b # {}
        /\ \A r \in b : Past(r)
        /\ \A q, r \in b : q.ts = r.ts => q = r}

Web ==
    \E d \in Device :
        \/ \E n \in NewName : Rename(d, n)
        \/ \E b \in Batch(d) : Upload(d, b)

(* Everything the listener does besides receiving: a file that is locked   *)
(* by the web process for too long is one cause of HandlerFails.           *)
Proceed ==
    /\ Handle \/ Crash \/ Restart \/ Tick
    /\ UNCHANGED <<heard, uploads>>

ServerNext == ReceiveReading \/ ReceiveConf \/ Web \/ Proceed

ServerSpec == ServerInit /\ [][ServerNext]_allvars

-----------------------------------------------------------------------------
(* d has given no sign of life for more than 2.5 of the intervals p. *)
Silent(d, p) == heard[d] # None /\ 2 * Age(heard[d]) > 5 * p

(* A station that went silent for 2.5 times the sleep interval on file is  *)
(* shown as offline, whatever was renamed, uploaded late or restarted      *)
(* since (brief_data; README.md:283).  Past is what it needs of the        *)
(* stations.                                                               *)
SilentShownOffline ==
    \A d \in Device :
        RowsOf(d) # {} /\ Silent(d, sleep_seconds(params[d])) => Offline(d)

(* A name a user gave stays until somebody gives another: no config packet *)
(* and no reading of the listener, which writes the same table and caches  *)
(* the name, takes it back (graph, store_conf, store).                     *)
RenameSticks ==
    [][\A d \in Device :
          params[d]["name"] # None /\ params'[d]["name"] # params[d]["name"]
              => job' = job /\ params'[d]["name"] \in NewName]_allvars
=============================================================================
