------------------------------ MODULE Listener ------------------------------
(***************************************************************************)
(* The MQTT-UDP listener of the server, server/listenudp.py: one thread    *)
(* that takes packets off the broadcast socket, drops duplicates, and      *)
(* writes readings and device configurations into one SQLite file per      *)
(* station.                                                                *)
(*                                                                         *)
(* The network is not a component here: any packet may arrive at any       *)
(* moment, which covers loss, duplication, delay and reordering.  A        *)
(* handler is three steps, because the process can die and an SQL          *)
(* statement can fail between them: the packet is accepted in memory       *)
(* (Recv...), the file is opened and its tables created (OpenDb, each      *)
(* CREATE commits by itself), and one transaction is committed             *)
(* (StoreCommit, ConfCommit).                                              *)
(***************************************************************************)
EXTENDS Integers

CONSTANTS
    Device,         \* station ids, the <id> of a topic weather/<id>
    Body,           \* what a reading says: its fields t, h, p, v, vs, m
    DeviceTs,       \* timestamps a MicroPython station may put in a reading
    Key,            \* names of parameters (column "name" of params)
    Val,            \* values of parameters (column "value" of params)
    Conf,           \* device configurations: JSON objects, functions from keys
    DEDUP_WINDOW,   \* seconds (30 in the code)
    None,           \* an absent key of a Python dict, or an absent row
    Garbled,        \* a payload json.loads refuses, such as {"t":nan}
    MaxClock,       \* bound on the server's clock
    MaxFaults       \* bound on the number of failing SQL statements

ASSUME ListenerAssumption ==
    /\ DEDUP_WINDOW \in Nat \ {0}
    /\ DeviceTs \subseteq Nat
    /\ {"name", "device_id"} \subseteq Key
    /\ Device \subseteq Val
    /\ \A c \in Conf : DOMAIN c \subseteq Key /\ \A k \in DOMAIN c : c[k] \in Val
    /\ None \notin Nat \cup Val
    /\ MaxClock \in Nat
    /\ MaxFaults \in Nat

(* A reading as it travels: ESP-IDF stations send no ts. *)
Reading == [body : Body, ts : DeviceTs \cup {None}]
Packet  == Reading \cup Conf \cup {Garbled}
Topic   == Device \X {"data", "config"}

VARIABLES
    clock,      \* datetime.now(timezone.utc) in whole seconds
    up,         \* the process runs
    last,       \* last[topic]: the payload last seen on it
    last_store, \* last_store[d]: when a reading of d was last accepted
    dev_names,  \* dev_names[d]: cached station name
    db_init,    \* stations whose tables this process has seen
    job,        \* the packet being handled, None when the thread waits
    rows,       \* table "data" of all files: records [wid, ts, body]
    tables,     \* stations whose file has its two tables
    params,     \* params[d][k]: table "params"
    stamped,    \* history: server timestamps committed since the process began
    faults      \* failing SQL statements so far

memory == <<last, last_store, dev_names, db_init>>
disk   == <<rows, tables, params>>
vars   == <<clock, up, memory, job, disk, stamped, faults>>

Time == 0 .. MaxClock \cup DeviceTs

Row == [wid : Device, ts : Time, body : Body]

StoreJob == [handler : {"store"}, stage : {"open", "write"}, wid : Device,
             ts : Time, body : Body, src : {"server", "device"}]
ConfJob  == [handler : {"store_conf"}, stage : {"open", "write"},
             wid : Device, conf : Conf]

(* None is not mistaken for a payload or a call, nor a payload that cannot *)
(* be read for one that can.                                               *)
ASSUME NoneAssumption ==
    /\ None \notin StoreJob \cup ConfJob \cup Packet
    /\ Garbled \notin Reading \cup Conf

TypeOK ==
    /\ clock \in 0 .. MaxClock
    /\ up \in BOOLEAN
    /\ last \in [Topic -> Packet \cup {None}]
    /\ last_store \in [Device -> 0 .. MaxClock \cup {None}]
    /\ dev_names \in [Device -> Val \cup {None}]
    /\ db_init \subseteq Device
    /\ job \in StoreJob \cup ConfJob \cup {None}
    /\ rows \subseteq Row
    /\ tables \subseteq Device
    /\ params \in [Device -> [Key -> Val \cup {None}]]
    /\ stamped \in [Device -> SUBSET Time]
    /\ faults \in 0 .. MaxFaults

-----------------------------------------------------------------------------
Nothing == [d \in Device |-> None]

Init ==
    /\ clock = 0
    /\ up = TRUE
    /\ last = [t \in Topic |-> None]
    /\ last_store = Nothing
    /\ dev_names = Nothing
    /\ db_init = {}
    /\ job = None
    /\ rows = {}
    /\ tables = {}
    /\ params = [d \in Device |-> [k \in Key |-> None]]
    /\ stamped = [d \in Device |-> {}]
    /\ faults = 0

(* INSERT OR REPLACE INTO data: ts is the primary key of d's file. *)
InsertOrReplace(table, r) ==
    {q \in table : q.wid # r.wid \/ q.ts # r.ts} \cup {r}

-----------------------------------------------------------------------------
(* recv_packet: a packet is handled unless its topic carried the same      *)
(* payload last time; the payload is remembered before it is handled.      *)
Fresh(d, kind, p) ==
    /\ up
    /\ job = None
    /\ last[<<d, kind>>] # p
    /\ last' = [last EXCEPT ![<<d, kind>>] = p]

(* json.loads raises in the handler; recv_packet logs it and goes on. *)
RecvGarbled(d, kind) ==
    /\ Fresh(d, kind, Garbled)
    /\ UNCHANGED <<clock, up, last_store, dev_names, db_init, job, disk,
                   stamped, faults>>

RecvConf(d, c) ==
    /\ Fresh(d, "config", c)
    /\ job' = [handler |-> "store_conf", stage |-> "open", wid |-> d, conf |-> c]
    /\ UNCHANGED <<clock, up, last_store, dev_names, db_init, disk,
                   stamped, faults>>

StartStore(d, t, m, src) ==
    job' = [handler |-> "store", stage |-> "open", wid |-> d,
            ts |-> t, body |-> m.body, src |-> src]

(* Mutant: a station's own timestamp is taken for a claim of the window. *)
Bug_RecvDeviceStamped(d, m) ==
    /\ m.ts # None
    /\ Fresh(d, "data", m)
    /\ last_store' = [last_store EXCEPT ![d] = m.ts]
    /\ StartStore(d, m.ts, m, "device")
    /\ UNCHANGED <<clock, up, dev_names, db_init, disk, stamped, faults>>

(* A MicroPython reading keeps its own timestamp and knows no window. *)
RecvDeviceStamped(d, m) ==
    /\ m.ts # None
    /\ Fresh(d, "data", m)
    /\ StartStore(d, m.ts, m, "device")
    /\ UNCHANGED <<clock, up, last_store, dev_names, db_init, disk,
                   stamped, faults>>

(* Mutant: a clock that was set back lies outside every window. *)
Bug_InWindow(d) ==
    /\ last_store[d] # None
    /\ clock - last_store[d] \in 0 .. DEDUP_WINDOW - 1

InWindow(d) ==
    /\ last_store[d] # None
    /\ clock - last_store[d] < DEDUP_WINDOW

(* Mutant: the window comes before the question who stamped the reading. *)
Bug_RecvInWindow(d, m) ==
    /\ Fresh(d, "data", m)
    /\ InWindow(d)
    /\ UNCHANGED <<clock, up, last_store, dev_names, db_init, job, disk,
                   stamped, faults>>

(* An ESP-IDF reading inside the window: remembered, not stored. *)
RecvInWindow(d, m) ==
    /\ m.ts = None
    /\ Fresh(d, "data", m)
    /\ InWindow(d)
    /\ UNCHANGED <<clock, up, last_store, dev_names, db_init, job, disk,
                   stamped, faults>>

(* Mutant: local time, ahead of UTC, goes into the table. *)
Bug_RecvServerStamped(d, m) ==
    /\ m.ts = None
    /\ Fresh(d, "data", m)
    /\ ~InWindow(d)
    /\ last_store' = [last_store EXCEPT ![d] = clock]
    /\ StartStore(d, clock + 1, m, "server")
    /\ UNCHANGED <<clock, up, dev_names, db_init, disk, stamped, faults>>

(* An ESP-IDF reading outside the window takes the server's time. *)
RecvServerStamped(d, m) ==
    /\ m.ts = None
    /\ Fresh(d, "data", m)
    /\ ~InWindow(d)
    /\ last_store' = [last_store EXCEPT ![d] = clock]
    /\ StartStore(d, clock, m, "server")
    /\ UNCHANGED <<clock, up, dev_names, db_init, disk, stamped, faults>>

-----------------------------------------------------------------------------
(* get_db and ensure_tables: the CREATEs commit on their own, and are      *)
(* skipped for a station this process has already seen.                    *)
OpenDb ==
    /\ job # None
    /\ job.stage = "open"
    /\ tables' = IF job.wid \in db_init THEN tables ELSE tables \cup {job.wid}
    /\ db_init' = db_init \cup {job.wid}
    /\ job' = [job EXCEPT !.stage = "write"]
    /\ UNCHANGED <<clock, up, last, last_store, dev_names, rows, params,
                   stamped, faults>>

Writing(handler) ==
    /\ job # None
    /\ job.handler = handler
    /\ job.stage = "write"
    /\ job.wid \in tables

(* SELECT value FROM params WHERE name='name', the answer cached.  An      *)
(* exception here is swallowed, both in get_dev_label and in store_conf.   *)
LookupName(d, ps) ==
    \/ /\ dev_names' = IF ps["name"] = None THEN dev_names
                       ELSE [dev_names EXCEPT ![d] = ps["name"]]
       /\ UNCHANGED faults
    \/ /\ faults < MaxFaults
       /\ faults' = faults + 1
       /\ UNCHANGED dev_names

(* get_dev_label asks the file only when the cache has no name. *)
Label(d) ==
    IF dev_names[d] = None THEN LookupName(d, params[d])
                           ELSE UNCHANGED <<dev_names, faults>>

(* store: device_id, unless a name is cached, and the row, committed as    *)
(* one transaction.                                                        *)
StoreCommit ==
    /\ Writing("store")
    /\ Label(job.wid)
    /\ params' = IF dev_names[job.wid] # None THEN params
                 ELSE [params EXCEPT ![job.wid]["device_id"] = job.wid]
    /\ rows' = InsertOrReplace(rows, [wid |-> job.wid, ts |-> job.ts,
                                      body |-> job.body])
    /\ stamped' = IF job.src = "device" THEN stamped
                  ELSE [stamped EXCEPT ![job.wid] = @ \cup {job.ts}]
    /\ job' = None
    /\ UNCHANGED <<clock, up, last, last_store, db_init, tables>>

(* Mutant: the table is written anew with what the configuration says. *)
Bug_Merge(d, c) == [k \in Key |-> IF k \in DOMAIN c THEN c[k] ELSE None]

(* The parameters of d after INSERT OR REPLACE of every item of c. *)
Merge(d, c) ==
    [k \in Key |-> IF k \in DOMAIN c THEN c[k] ELSE params[d][k]]

(* store_conf: all items in one transaction, then the name is looked up.   *)
(* Nobody but store_conf writes the items of c, so a rename that slips     *)
(* between the commit and the lookup is a rename just before the commit.   *)
ConfCommit ==
    /\ Writing("store_conf")
    /\ params' = [params EXCEPT ![job.wid] = Merge(job.wid, job.conf)]
    /\ LookupName(job.wid, params'[job.wid])
    /\ job' = None
    /\ UNCHANGED <<clock, up, last, last_store, db_init, rows, tables, stamped>>

(* Mutant: the station enters the cache before its tables are created. *)
Bug_HandlerFails ==
    /\ job # None
    /\ faults < MaxFaults
    /\ faults' = faults + 1
    /\ job' = None
    /\ db_init' = db_init \cup {job.wid}
    /\ UNCHANGED <<clock, up, last, last_store, dev_names, disk, stamped>>

(* An SQL statement raises (the file is locked for longer than sqlite3     *)
(* waits, the disk is full): the transaction is rolled back, recv_packet   *)
(* logs the error, and what the process remembers stays as it is.  When    *)
(* it is the last INSERT or the commit of store that fails, the name has   *)
(* been looked up already.                                                 *)
HandlerFails ==
    /\ job # None
    /\ faults < MaxFaults
    /\ faults' = faults + 1
    /\ job' = None
    /\ \/ UNCHANGED dev_names
       \/ /\ Writing("store")
          /\ dev_names[job.wid] = None
          /\ params[job.wid]["name"] # None
          /\ dev_names' = [dev_names EXCEPT ![job.wid] = params[job.wid]["name"]]
    /\ UNCHANGED <<clock, up, last, last_store, db_init, disk, stamped>>

-----------------------------------------------------------------------------
(* An exception out of me.listen (recv_packet does not guard the parser),  *)
(* or the process is killed: memory and an open transaction are gone.      *)
Crash ==
    /\ up
    /\ up' = FALSE
    /\ last' = [t \in Topic |-> None]
    /\ last_store' = Nothing
    /\ dev_names' = Nothing
    /\ db_init' = {}
    /\ job' = None
    /\ stamped' = [d \in Device |-> {}]
    /\ UNCHANGED <<clock, disk, faults>>

(* The container's restart policy starts it again. *)
Restart ==
    /\ ~up
    /\ up' = TRUE
    /\ UNCHANGED <<clock, memory, job, disk, stamped, faults>>

Tick ==
    /\ clock < MaxClock
    /\ clock' = clock + 1
    /\ UNCHANGED <<up, memory, job, disk, stamped, faults>>

(* The wall clock is set back, as NTP may do. *)
SetBack ==
    /\ clock > 0
    /\ clock' \in 0 .. clock - 1
    /\ UNCHANGED <<up, memory, job, disk, stamped, faults>>

-----------------------------------------------------------------------------
Receive ==
    \E d \in Device :
        \/ \E kind \in {"data", "config"} : RecvGarbled(d, kind)
        \/ \E c \in Conf : RecvConf(d, c)
        \/ \E m \in Reading : \/ RecvDeviceStamped(d, m)
                              \/ RecvInWindow(d, m)
                              \/ RecvServerStamped(d, m)

Handle == OpenDb \/ StoreCommit \/ ConfCommit \/ HandlerFails

Next == Receive \/ Handle \/ Crash \/ Restart \/ Tick \/ SetBack

Spec == Init /\ [][Next]_vars

-----------------------------------------------------------------------------
(* The job of a reading the server has stamped. *)
ServerJob == job # None /\ job.handler = "store" /\ job.src = "server"

(* What the server stamps it spaces: two readings of one station that the  *)
(* same process stamped and stored are DEDUP_WINDOW apart, whatever        *)
(* happened to the wall clock between them and in whatever order broadcast *)
(* copies came (store, the dedup window).                                  *)
Spacing ==
    \A d \in Device : \A s, t \in stamped[d] :
        s < t => t - s >= DEDUP_WINDOW

(* Why: last_store is the latest stamp, and a reading on its way to the    *)
(* table holds it, well after every stamp in the table.                    *)
Claimed ==
    \A d \in Device : \A t \in stamped[d] :
        last_store[d] # None /\ t <= last_store[d]

PendingClaim ==
    ServerJob =>
        /\ last_store[job.wid] = job.ts
        /\ \A t \in stamped[job.wid] : t + DEDUP_WINDOW <= job.ts

DownIsIdle == ~up => job = None

StampInv == TypeOK /\ DownIsIdle /\ Claimed /\ PendingClaim /\ Spacing

(* A row the server stamped is replaced by nothing the server stamps: only *)
(* a reading with a timestamp of its own can take its place (INSERT OR     *)
(* REPLACE in store would silently lose the first of two readings).        *)
ServerRowsKept ==
    [][\A q \in rows : q.ts \in stamped[q.wid] /\ q \notin rows' =>
           /\ job # None
           /\ job.handler = "store"
           /\ job.src = "device"
           /\ job.wid = q.wid
           /\ job.ts = q.ts]_vars

(* What the process believes it has created is there: no handler can ever  *)
(* meet "no such table" because of the cache (db_init in ensure_tables).   *)
CachedTablesExist ==
    /\ db_init \subseteq tables
    /\ job # None /\ job.stage = "write" => job.wid \in tables

(* "Config is stored in `params` table" (README.md:217): once the handler  *)
(* of a configuration is done, what it says is on file.  The same payload  *)
(* will be dropped from now on (last in recv_packet).                      *)
ConfigSaved ==
    \A d \in Device, c \in Conf :
        last[<<d, "config">>] = c /\ (job = None \/ job.wid # d) =>
            \A k \in DOMAIN c \ {"name", "device_id"} : params[d][k] = c[k]

(* What is dropped as a duplicate needs no second delivery: the last       *)
(* configuration, and the last reading that carried its own timestamp, are *)
(* on disk when their handler is done, as long as no SQL statement failed  *)
(* (last in recv_packet).                                                  *)
DropsOnlyTheSaved ==
    faults = 0 =>
        /\ ConfigSaved
        /\ \A d \in Device, m \in Reading :
              (/\ last[<<d, "data">>] = m
               /\ m.ts # None
               /\ job = None \/ job.wid # d)
                  => [wid |-> d, ts |-> m.ts, body |-> m.body] \in rows

(* The table as ReadingLog describes it: the window claims slots, the      *)
(* handler fills or abandons them, a crash forgets them.                   *)
Log == INSTANCE ReadingLog
           WITH Window <- DEDUP_WINDOW,
                claim <- last_store,
                open <- IF ServerJob THEN {job.wid} ELSE {}

ImplementsReadingLog == Log!Spec
=============================================================================
