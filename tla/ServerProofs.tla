---------------------------- MODULE ServerProofs ----------------------------
(***************************************************************************)
(* What holds of the listener for every set of stations, every window and  *)
(* every clock: its types, the spacing of the timestamps it gives, that    *)
(* it never overwrites a reading it stamped, that its table cache is       *)
(* right, that what it drops is saved, and that it implements ReadingLog.  *)
(* And what holds of the listener and the web process together, for every  *)
(* pace of the clock and any number of uploads: what the listener promises *)
(* is not broken by the web process that writes the same files, a silent   *)
(* station is shown as offline, and a name stays.                          *)
(***************************************************************************)
EXTENDS Server, FiniteSetTheorems, WellFoundedInduction, TLAPS

-----------------------------------------------------------------------------
(* The listener by itself. *)


(* Timestamps are numbers. *)
LEMMA TimeIsNat == Time \subseteq Nat
  BY ListenerAssumption DEF Time

(* The sets of the two kinds of jobs are kept apart by their handlers, and *)
(* None is no job: it has no handler.  This is what a Python variable that *)
(* is either None or a call gives for nothing.                             *)
LEMMA JobTypes ==
    ASSUME TypeOK, job # None
    PROVE  /\ job.wid \in Device
           /\ job.handler = "store" =>
                /\ job \in StoreJob
                /\ job.ts \in Time /\ job.body \in Body
                /\ job.src \in {"server", "device"}
           /\ job.handler = "store_conf" => job \in ConfJob /\ job.conf \in Conf
           /\ job.handler \in {"store", "store_conf"}
  BY DEF TypeOK, StoreJob, ConfJob

(* The listener starts with empty files and an empty memory. *)
LEMMA TypeInit == Init => TypeOK
  BY ListenerAssumption DEF Init, TypeOK, Nothing, Time

(* Every action of the listener keeps the types. *)
LEMMA TypeStep == TypeOK /\ [Next]_vars => TypeOK'
<1> SUFFICES ASSUME TypeOK, [Next]_vars PROVE TypeOK'
  OBVIOUS
<1> USE ListenerAssumption
<1>1. ASSUME NEW d \in Device, NEW kind \in {"data", "config"},
             RecvGarbled(d, kind)
      PROVE  TypeOK'
  BY <1>1 DEF RecvGarbled, Fresh, TypeOK, Topic, Packet, disk
<1>2. ASSUME NEW d \in Device, NEW c \in Conf, RecvConf(d, c)
      PROVE  TypeOK'
  BY <1>2 DEF RecvConf, Fresh, TypeOK, Topic, Packet, disk, ConfJob
<1>3. ASSUME NEW d \in Device, NEW m \in Reading, RecvDeviceStamped(d, m)
      PROVE  TypeOK'
  BY <1>3 DEF RecvDeviceStamped, Fresh, StartStore, TypeOK, Topic, Packet,
              Reading, disk, StoreJob, Time
<1>4. ASSUME NEW d \in Device, NEW m \in Reading, RecvInWindow(d, m)
      PROVE  TypeOK'
  BY <1>4 DEF RecvInWindow, Fresh, TypeOK, Topic, Packet, disk
<1>5. ASSUME NEW d \in Device, NEW m \in Reading, RecvServerStamped(d, m)
      PROVE  TypeOK'
  BY <1>5 DEF RecvServerStamped, Fresh, StartStore, TypeOK, Topic, Packet,
              Reading, disk, StoreJob, Time
<1>6. CASE OpenDb
  BY <1>6, JobTypes DEF OpenDb, TypeOK, StoreJob, ConfJob
<1>7. CASE StoreCommit
  <2>1. /\ job.wid \in Device /\ job.ts \in Time /\ job.body \in Body
        /\ job' = None
        /\ UNCHANGED <<clock, up, last, last_store, db_init, tables>>
    BY <1>7, JobTypes DEF StoreCommit, Writing
  <2>2. rows' \subseteq Row
    BY <1>7, <2>1 DEF StoreCommit, InsertOrReplace, Row, TypeOK
  <2>3. stamped' \in [Device -> SUBSET Time]
    BY <1>7, <2>1 DEF StoreCommit, TypeOK
  <2>4. params' \in [Device -> [Key -> Val \cup {None}]]
    BY <1>7, <2>1 DEF StoreCommit, TypeOK
  <2>5. /\ dev_names' \in [Device -> Val \cup {None}]
        /\ faults' \in 0 .. MaxFaults
    BY <1>7, <2>1 DEF StoreCommit, Label, LookupName, TypeOK
  <2> QED
    BY <2>1, <2>2, <2>3, <2>4, <2>5 DEF TypeOK
<1>8. CASE ConfCommit
  BY <1>8, JobTypes DEF ConfCommit, Writing, Merge, LookupName, TypeOK
<1>9. CASE HandlerFails
  BY <1>9, JobTypes DEF HandlerFails, Writing, TypeOK, disk
<1>10. CASE Crash
  BY <1>10 DEF Crash, Nothing, TypeOK, disk
<1>11. CASE Restart
  BY <1>11 DEF Restart, TypeOK, memory, disk
<1>12. CASE Tick
  BY <1>12 DEF Tick, TypeOK, memory, disk
<1>13. CASE SetBack
  BY <1>13 DEF SetBack, TypeOK, memory, disk
<1>14. CASE UNCHANGED vars
  BY <1>14 DEF vars, TypeOK, memory, disk
<1> QED
  BY <1>1, <1>2, <1>3, <1>4, <1>5, <1>6, <1>7, <1>8, <1>9, <1>10, <1>11,
     <1>12, <1>13, <1>14 DEF Next, Receive, Handle

(* Every value keeps its type (Init and every action of Next).             *)
THEOREM TypeCorrect == Spec => []TypeOK
  BY TypeInit, TypeStep, PTL DEF Spec

-----------------------------------------------------------------------------
(* What a step leaves alone cannot disturb the stamps. *)
LEMMA StampsUntouched ==
    ASSUME TypeOK, StampInv, TypeOK',
           UNCHANGED <<up, last_store, job, stamped>>
    PROVE  StampInv'
  BY DEF StampInv, DownIsIdle, Claimed, PendingClaim, Spacing, ServerJob

(* A handler that ends without committing a stamp cannot either. *)
LEMMA StampsWithoutJob ==
    ASSUME StampInv, TypeOK', job' = None, UNCHANGED <<last_store, stamped>>
    PROVE  StampInv'
  BY DEF StampInv, DownIsIdle, Claimed, PendingClaim, Spacing, ServerJob

(* Nor can a job that the server did not stamp. *)
LEMMA StampsForeignJob ==
    ASSUME StampInv, TypeOK', up', ~ServerJob', UNCHANGED <<last_store, stamped>>
    PROVE  StampInv'
  BY DEF StampInv, DownIsIdle, Claimed, PendingClaim, Spacing

(* No stamps, no claims. *)
LEMMA StampInit == Init => StampInv
<1> SUFFICES ASSUME Init PROVE StampInv
  OBVIOUS
<1>1. TypeOK
  BY ListenerAssumption DEF Init, TypeOK, Nothing, Time
<1> QED
  BY <1>1 DEF Init, StampInv, DownIsIdle, Claimed, PendingClaim, Spacing,
              ServerJob

(* Every action keeps the stamps apart. *)
LEMMA StampStep == StampInv /\ TypeOK' /\ [Next]_vars => StampInv'
<1> SUFFICES ASSUME StampInv, TypeOK', [Next]_vars PROVE StampInv'
  OBVIOUS
<1> USE ListenerAssumption
<1>0. TypeOK
  BY DEF StampInv
<1>1. ASSUME NEW d \in Device, NEW kind \in {"data", "config"},
             RecvGarbled(d, kind)
      PROVE  StampInv'
  BY <1>0, <1>1, StampsUntouched DEF RecvGarbled
<1>2. ASSUME NEW d \in Device, NEW c \in Conf, RecvConf(d, c)
      PROVE  StampInv'
  BY <1>2, StampsForeignJob DEF RecvConf, Fresh, ServerJob
<1>3. ASSUME NEW d \in Device, NEW m \in Reading, RecvDeviceStamped(d, m)
      PROVE  StampInv'
  BY <1>3, StampsForeignJob DEF RecvDeviceStamped, Fresh, StartStore, ServerJob
<1>4. ASSUME NEW d \in Device, NEW m \in Reading, RecvInWindow(d, m)
      PROVE  StampInv'
  BY <1>0, <1>4, StampsUntouched DEF RecvInWindow
<1>5. ASSUME NEW d \in Device, NEW m \in Reading, RecvServerStamped(d, m)
      PROVE  StampInv'
  <2>1. /\ up' /\ stamped' = stamped
        /\ job'.wid = d /\ job'.ts = clock
        /\ last_store'[d] = clock
        /\ \A e \in Device \ {d} : last_store'[e] = last_store[e]
    BY <1>0, <1>5 DEF RecvServerStamped, Fresh, StartStore, TypeOK
  <2>2. last_store[d] # None => last_store[d] + DEDUP_WINDOW <= clock
    BY <1>0, <1>5 DEF RecvServerStamped, InWindow, TypeOK
  <2>3. \A t \in stamped[d] : t + DEDUP_WINDOW <= clock
    BY <1>0, <2>2 DEF StampInv, Claimed, TypeOK, Time
  <2>4. Claimed'
    BY <1>0, <2>1, <2>3 DEF StampInv, Claimed, TypeOK, Time
  <2>5. PendingClaim'
    BY <2>1, <2>3 DEF PendingClaim
  <2> QED
    BY <2>1, <2>4, <2>5 DEF StampInv, DownIsIdle, Spacing
<1>6. CASE OpenDb
  <2>1. /\ UNCHANGED <<up, last_store, stamped>>
        /\ ServerJob' => ServerJob
        /\ job'.wid = job.wid
        /\ ServerJob => job'.ts = job.ts
        /\ job # None
    BY <1>0, <1>6, JobTypes DEF OpenDb, ServerJob, StoreJob, ConfJob
  <2>2. PendingClaim'
    BY <2>1 DEF StampInv, PendingClaim
  <2>3. DownIsIdle' /\ Claimed' /\ Spacing'
    BY <2>1 DEF StampInv, DownIsIdle, Claimed, Spacing
  <2> QED
    BY <2>2, <2>3 DEF StampInv
<1>7. CASE StoreCommit
  <2>1. /\ job' = None /\ last_store' = last_store
        /\ job # None /\ job.handler = "store"
        /\ job.wid \in Device /\ job.ts \in Time
    BY <1>0, <1>7, JobTypes DEF StoreCommit, Writing
  <2>2. CASE job.src = "device"
    BY <1>7, <2>1, <2>2, StampsWithoutJob DEF StoreCommit
  <2>3. CASE job.src # "device"
    <3>1. ServerJob
      BY <1>0, <2>1, <2>3, JobTypes DEF ServerJob
    <3>2. /\ stamped'[job.wid] = stamped[job.wid] \cup {job.ts}
          /\ \A e \in Device \ {job.wid} : stamped'[e] = stamped[e]
      BY <1>0, <1>7, <2>1, <2>3 DEF StoreCommit, TypeOK
    <3>3. /\ last_store[job.wid] = job.ts
          /\ \A t \in stamped[job.wid] : t + DEDUP_WINDOW <= job.ts
      BY <3>1 DEF StampInv, PendingClaim
    <3>4. Claimed'
      <4>1. job.ts \in Nat /\ stamped[job.wid] \subseteq Nat
        BY <1>0, <2>1, TimeIsNat DEF TypeOK
      <4>2. \A t \in stamped[job.wid] \cup {job.ts} :
                last_store[job.wid] # None /\ t <= last_store[job.wid]
        BY <3>3, <4>1
      <4> QED
        BY <2>1, <3>2, <4>2 DEF StampInv, Claimed
    <3>5. Spacing'
      BY <1>0, <2>1, <3>2, <3>3 DEF StampInv, Spacing, TypeOK, Time
    <3> QED
      BY <2>1, <3>4, <3>5 DEF StampInv, DownIsIdle, PendingClaim, ServerJob
  <2> QED
    BY <2>2, <2>3
<1>8. CASE ConfCommit
  BY <1>8, StampsWithoutJob DEF ConfCommit
<1>9. CASE HandlerFails
  BY <1>9, StampsWithoutJob DEF HandlerFails
<1>10. CASE Crash
  BY <1>10 DEF Crash, StampInv, DownIsIdle, Claimed, PendingClaim, Spacing,
               ServerJob
<1>11. CASE Restart
  BY <1>11 DEF Restart, memory, StampInv, DownIsIdle, Claimed, PendingClaim,
               Spacing, ServerJob
<1>12. CASE Tick
  BY <1>0, <1>12, StampsUntouched DEF Tick, memory
<1>13. CASE SetBack
  BY <1>0, <1>13, StampsUntouched DEF SetBack, memory
<1>14. CASE UNCHANGED vars
  BY <1>0, <1>14, StampsUntouched DEF vars, memory
<1> QED
  BY <1>1, <1>2, <1>3, <1>4, <1>5, <1>6, <1>7, <1>8, <1>9, <1>10, <1>11,
     <1>12, <1>13, <1>14 DEF Next, Receive, Handle

(* The inductive invariant behind the dedup window: Spacing alone is not   *)
(* kept by StoreCommit, which needs to know that the stamp of the pending  *)
(* job is the latest claim and lies a window after all that is committed.  *)
THEOREM StampInvariant == Spec => []StampInv
  BY StampInit, StampStep, TypeCorrect, PTL DEF Spec

(* Timestamps the server gives are a window apart.                         *)
THEOREM StampsSpaced == Spec => []Spacing
<1>1. StampInv => Spacing
  BY DEF StampInv
<1> QED
  BY <1>1, StampInvariant, PTL

-----------------------------------------------------------------------------
(* The stamp of a pending job is none of the committed ones. *)
LEMMA PendingIsNew ==
    ASSUME StampInv, ServerJob
    PROVE  job.ts \notin stamped[job.wid]
<1>1. TypeOK /\ PendingClaim
  BY DEF StampInv
<1>2. job.wid \in Device /\ job.ts \in Time
  BY <1>1, JobTypes DEF ServerJob
<1>3. job.ts \in Nat
  BY <1>2, TimeIsNat
<1> QED
  BY <1>1, <1>3, ListenerAssumption DEF PendingClaim

(* Nobody but StoreCommit touches the table. *)
LEMMA OnlyStoreWritesRows ==
    ASSUME [Next]_vars, ~StoreCommit
    PROVE  rows' = rows
  BY DEF Next, Receive, RecvGarbled, RecvConf, RecvDeviceStamped, RecvInWindow,
         RecvServerStamped, Handle, OpenDb, ConfCommit, HandlerFails, Crash,
         Restart, Tick, SetBack, vars, disk

(* No reading the server stamped is overwritten by another it stamped.     *)
THEOREM StampedRowsKept == Spec => ServerRowsKept
<1> DEFINE Kept ==
      \A q \in rows : q.ts \in stamped[q.wid] /\ q \notin rows' =>
          /\ job # None
          /\ job.handler = "store"
          /\ job.src = "device"
          /\ job.wid = q.wid
          /\ job.ts = q.ts
<1>1. StampInv /\ [Next]_vars => [Kept]_vars
  <2> SUFFICES ASSUME StampInv, [Next]_vars,
                      NEW q \in rows, q.ts \in stamped[q.wid], q \notin rows'
               PROVE  /\ job # None
                      /\ job.handler = "store"
                      /\ job.src = "device"
                      /\ job.wid = q.wid
                      /\ job.ts = q.ts
    OBVIOUS
  <2>1. StoreCommit
    BY OnlyStoreWritesRows
  <2>2. /\ job # None /\ job.handler = "store"
        /\ job.wid = q.wid /\ job.ts = q.ts
    BY <2>1 DEF StoreCommit, Writing, InsertOrReplace
  <2>3. ~ServerJob
    BY <2>2, PendingIsNew
  <2>4. job.src \in {"server", "device"}
    BY <2>2, JobTypes DEF StampInv
  <2> QED
    BY <2>2, <2>3, <2>4 DEF ServerJob
<1> QED
  BY <1>1, StampInvariant, PTL DEF Spec, ServerRowsKept

(* Every action keeps the promise of the cache. *)
LEMMA CacheStep == TypeOK /\ CachedTablesExist /\ [Next]_vars => CachedTablesExist'
<1> SUFFICES ASSUME TypeOK, CachedTablesExist, [Next]_vars
             PROVE  CachedTablesExist'
  OBVIOUS
<1>1. ASSUME Receive PROVE CachedTablesExist'
  BY <1>1 DEF Receive, RecvGarbled, RecvConf, RecvDeviceStamped, RecvInWindow,
              RecvServerStamped, Fresh, StartStore, disk, CachedTablesExist
<1>2. CASE OpenDb
  BY <1>2, JobTypes DEF OpenDb, CachedTablesExist, TypeOK, StoreJob, ConfJob
<1>3. CASE StoreCommit \/ ConfCommit \/ HandlerFails
  BY <1>3 DEF StoreCommit, ConfCommit, HandlerFails, disk, CachedTablesExist
<1>4. CASE Crash
  BY <1>4 DEF Crash, disk, CachedTablesExist
<1>5. CASE Restart \/ Tick \/ SetBack \/ UNCHANGED vars
  BY <1>5 DEF Restart, Tick, SetBack, vars, memory, disk, CachedTablesExist
<1> QED
  BY <1>1, <1>2, <1>3, <1>4, <1>5 DEF Next, Handle

(* The table cache never promises a table that is not there.               *)
THEOREM CacheIsRight == Spec => []CachedTablesExist
<1>1. Init => CachedTablesExist
  BY DEF Init, CachedTablesExist
<1> QED
  BY <1>1, CacheStep, TypeCorrect, PTL DEF Spec

-----------------------------------------------------------------------------
(* The listener implements the log: every step is a step of ReadingLog     *)
(* under the mapping of Log, or leaves the mapped state alone.             *)
THEOREM Refinement == Spec => ImplementsReadingLog
<1> USE DEF Log!vars
<1>1. Init => Log!Init
  BY DEF Init, Log!Init, Nothing, ServerJob
<1>2. StampInv /\ [Next]_vars => [Log!Next]_(Log!vars)
  <2> SUFFICES ASSUME StampInv, [Next]_vars PROVE [Log!Next]_(Log!vars)
    OBVIOUS
  <2> USE ListenerAssumption
  <2>0. TypeOK /\ PendingClaim
    BY DEF StampInv
  <2>1. ASSUME NEW d \in Device, NEW kind \in {"data", "config"},
               RecvGarbled(d, kind)
        PROVE  UNCHANGED Log!vars
    BY <2>1 DEF RecvGarbled, disk, ServerJob
  <2>2. ASSUME NEW d \in Device, NEW c \in Conf, RecvConf(d, c)
        PROVE  UNCHANGED Log!vars
    BY <2>2 DEF RecvConf, Fresh, disk, ServerJob
  <2>3. ASSUME NEW d \in Device, NEW m \in Reading, RecvDeviceStamped(d, m)
        PROVE  UNCHANGED Log!vars
    BY <2>3 DEF RecvDeviceStamped, Fresh, StartStore, disk, ServerJob
  <2>4. ASSUME NEW d \in Device, NEW m \in Reading, RecvInWindow(d, m)
        PROVE  UNCHANGED Log!vars
    BY <2>4 DEF RecvInWindow, disk, ServerJob
  <2>5. ASSUME NEW d \in Device, NEW m \in Reading, RecvServerStamped(d, m)
        PROVE  Log!Next
    <3>1. last_store[d] # None => clock >= last_store[d] + DEDUP_WINDOW
      BY <2>0, <2>5 DEF RecvServerStamped, InWindow, TypeOK
    <3>2. ~ServerJob /\ ServerJob' /\ job'.wid = d
      <4>1. job'.wid = d /\ job' \in StoreJob /\ job = None
        BY <2>0, <2>5 DEF RecvServerStamped, Fresh, StartStore, StoreJob,
                          Reading, TypeOK, Time
      <4> QED
        BY <2>5, <4>1, NoneAssumption DEF RecvServerStamped, StartStore, ServerJob
    <3>3. Log!Claim(d, clock)
      BY <2>5, <3>1, <3>2 DEF Log!Claim, RecvServerStamped, disk
    <3> QED
      BY <2>0, <3>3 DEF Log!Next, TypeOK, Time
  <2>6. CASE OpenDb
    <3>1. (ServerJob' <=> ServerJob) /\ job'.wid = job.wid
      <4>1. job # None /\ job' \in StoreJob \cup ConfJob
        BY <2>0, <2>6 DEF OpenDb, TypeOK, StoreJob, ConfJob
      <4>2. job' # None
        BY <4>1, NoneAssumption
      <4>3. (job'.handler = "store" /\ job'.src = "server")
                <=> (job.handler = "store" /\ job.src = "server")
        BY <2>0, <2>6, JobTypes DEF OpenDb, StoreJob, ConfJob
      <4>4. job'.wid = job.wid
        BY <2>0, <2>6, JobTypes DEF OpenDb, TypeOK, StoreJob, ConfJob
      <4> QED
        BY <4>1, <4>2, <4>3, <4>4 DEF ServerJob
    <3> QED
      BY <2>6, <3>1 DEF OpenDb
  <2>7. CASE StoreCommit
    <3>1. /\ job # None /\ job.handler = "store"
          /\ job.wid \in Device /\ job.ts \in Time /\ job.body \in Body
          /\ job' = None /\ last_store' = last_store /\ ~ServerJob'
      BY <2>0, <2>7, JobTypes DEF StoreCommit, Writing, ServerJob
    <3>2. rows' = Log!Put(rows, [wid |-> job.wid, ts |-> job.ts,
                                 body |-> job.body])
      BY <2>7 DEF StoreCommit, InsertOrReplace, Log!Put
    <3>3. CASE ServerJob
      <4>1. last_store[job.wid] = job.ts
        BY <2>0, <3>3 DEF PendingClaim
      <4>2. Log!Fill(job.wid, job.body)
        BY <3>1, <3>2, <3>3, <4>1 DEF Log!Fill
      <4> QED
        BY <3>1, <4>2 DEF Log!Next
    <3>4. CASE ~ServerJob
      <4>1. Log!Import(job.wid, job.ts, job.body)
        BY <3>1, <3>2, <3>4 DEF Log!Import
      <4> QED
        BY <3>1, <4>1 DEF Log!Next
    <3> QED
      BY <3>3, <3>4
  <2>8. CASE ConfCommit
    BY <2>8 DEF ConfCommit, Writing, ServerJob
  <2>9. CASE HandlerFails
    <3>1. /\ job # None /\ ~ServerJob'
          /\ UNCHANGED <<rows, last_store>>
      BY <2>9 DEF HandlerFails, disk, ServerJob
    <3>2. CASE ServerJob
      <4>1. Log!Abandon(job.wid) /\ job.wid \in Device
        BY <2>0, <3>1, <3>2, JobTypes DEF Log!Abandon
      <4> QED
        BY <4>1 DEF Log!Next
    <3> QED
      BY <3>1, <3>2
  <2>10. CASE Crash
    <3>1. Log!Forget
      BY <2>10 DEF Crash, Log!Forget, Nothing, disk, ServerJob
    <3> QED
      BY <3>1 DEF Log!Next
  <2>11. CASE Restart \/ Tick \/ SetBack \/ UNCHANGED vars
    BY <2>11 DEF Restart, Tick, SetBack, vars, memory, disk, ServerJob
  <2> QED
    BY <2>1, <2>2, <2>3, <2>4, <2>5, <2>6, <2>7, <2>8, <2>9, <2>10, <2>11
       DEF Next, Receive, Handle
<1> QED
  BY <1>1, <1>2, StampInvariant, PTL DEF Spec, ImplementsReadingLog, Log!Spec

-----------------------------------------------------------------------------
(* A pending job is the one of the payload remembered last on its topic. *)
ConfPending(d, c) == job # None /\ job.handler = "store_conf" /\ job.wid = d /\ job.conf = c

ReadingPending(d, m) ==
    /\ job # None /\ job.handler = "store" /\ job.wid = d /\ job.body = m.body
    /\ IF m.ts = None THEN job.src = "server" ELSE job.src = "device" /\ job.ts = m.ts

PendingIsLast ==
    job # None =>
        \/ \E c \in Conf : ConfPending(job.wid, c) /\ last[<<job.wid, "config">>] = c
        \/ \E m \in Reading : ReadingPending(job.wid, m) /\ last[<<job.wid, "data">>] = m

ConfSaved(d, c) == \A k \in DOMAIN c \ {"name", "device_id"} : params[d][k] = c[k]

(* What is remembered is saved or about to be. *)
ConfsKept ==
    \A d \in Device, c \in Conf :
        last[<<d, "config">>] = c => ConfSaved(d, c) \/ ConfPending(d, c)

ReadingsKept ==
    \A d \in Device, m \in Reading :
        last[<<d, "data">>] = m /\ m.ts # None =>
            [wid |-> d, ts |-> m.ts, body |-> m.body] \in rows \/ ReadingPending(d, m)

DropInv == PendingIsLast /\ (faults = 0 => ConfsKept /\ ReadingsKept)

(* A packet taken off the socket is remembered, and nothing else is forgotten. *)
LEMMA FreshRemembers ==
    ASSUME TypeOK, NEW d \in Device, NEW kind \in {"data", "config"}, NEW p, Fresh(d, kind, p)
    PROVE  /\ last'[<<d, kind>>] = p /\ job = None
           /\ \A e \in Device, k \in {"data", "config"} : <<e, k>> # <<d, kind>> => last'[<<e, k>>] = last[<<e, k>>]
  BY DEF Fresh, TypeOK, Topic

LEMMA ReceiveKeeps == ASSUME TypeOK, DropInv, Receive PROVE DropInv'
<1> USE DEF DropInv, PendingIsLast, ConfsKept, ReadingsKept, ConfSaved, ConfPending, ReadingPending
<1>1. ASSUME NEW d \in Device, NEW kind \in {"data", "config"}, RecvGarbled(d, kind) PROVE DropInv'
  <2>1. /\ last'[<<d, kind>>] = Garbled /\ job = None /\ UNCHANGED <<job, faults, params, rows>>
        /\ \A e \in Device, k \in {"data", "config"} : <<e, k>> # <<d, kind>> => last'[<<e, k>>] = last[<<e, k>>]
    BY <1>1, FreshRemembers DEF RecvGarbled, disk
  <2> QED
    BY <2>1, NoneAssumption
<1>2. ASSUME NEW d \in Device, NEW c \in Conf, RecvConf(d, c) PROVE DropInv'
  <2>1. /\ last'[<<d, "config">>] = c /\ job = None /\ UNCHANGED <<faults, params, rows>>
        /\ \A e \in Device, k \in {"data", "config"} : <<e, k>> # <<d, "config">> => last'[<<e, k>>] = last[<<e, k>>]
        /\ job' = [handler |-> "store_conf", stage |-> "open", wid |-> d, conf |-> c]
    BY <1>2, FreshRemembers DEF RecvConf, disk
  <2>2. job' # None /\ job'.handler = "store_conf" /\ job'.wid = d /\ job'.conf = c
    <3>1. job' \in ConfJob
      BY <2>1 DEF ConfJob
    <3> QED
      BY <2>1, <3>1, NoneAssumption
  <2>3. \A e \in Device : last'[<<e, "data">>] = last[<<e, "data">>]
    BY <2>1
  <2>4. \A e \in Device \ {d} : last'[<<e, "config">>] = last[<<e, "config">>]
    BY <2>1
  <2>5. PendingIsLast'
    BY <2>1, <2>2
  <2>6. faults = 0 => ConfsKept'
    BY <2>1, <2>2, <2>4
  <2>7. faults = 0 => ReadingsKept'
    BY <2>1, <2>3
  <2> QED
    BY <2>1, <2>5, <2>6, <2>7
<1>3. ASSUME NEW d \in Device, NEW m \in Reading, RecvInWindow(d, m) PROVE DropInv'
  <2>1. /\ last'[<<d, "data">>] = m /\ m.ts = None /\ job = None /\ UNCHANGED <<job, faults, params, rows>>
        /\ \A e \in Device, k \in {"data", "config"} : <<e, k>> # <<d, "data">> => last'[<<e, k>>] = last[<<e, k>>]
    BY <1>3, FreshRemembers DEF RecvInWindow, disk
  <2> QED
    BY <2>1
<1>4. ASSUME NEW d \in Device, NEW m \in Reading, RecvDeviceStamped(d, m) \/ RecvServerStamped(d, m)
      PROVE  DropInv'
  <2>1. /\ last'[<<d, "data">>] = m /\ job = None /\ UNCHANGED <<faults, params, rows>>
        /\ \A e \in Device, k \in {"data", "config"} : <<e, k>> # <<d, "data">> => last'[<<e, k>>] = last[<<e, k>>]
    BY <1>4, FreshRemembers DEF RecvDeviceStamped, RecvServerStamped, disk
  <2>2. job' # None
    <3>1. job' \in StoreJob
      BY <1>4 DEF RecvDeviceStamped, RecvServerStamped, StartStore, StoreJob, Reading, Time, TypeOK
    <3> QED
      BY <3>1, NoneAssumption
  <2>3. job'.wid = d /\ ReadingPending(d, m)'
    BY <1>4, <2>2 DEF RecvDeviceStamped, RecvServerStamped, StartStore
  <2>4. \A e \in Device : last'[<<e, "config">>] = last[<<e, "config">>]
    BY <2>1
  <2>5. \A e \in Device \ {d} : last'[<<e, "data">>] = last[<<e, "data">>]
    BY <2>1
  <2>6. PendingIsLast'
    BY <2>1, <2>3
  <2>7. faults = 0 => ConfsKept'
    BY <2>1, <2>4
  <2>8. faults = 0 => ReadingsKept'
    BY <2>1, <2>3, <2>5
  <2> QED
    BY <2>1, <2>6, <2>7, <2>8
<1> QED
  BY <1>1, <1>2, <1>3, <1>4 DEF Receive

(* The commit of a handler saves what is remembered on its topic, and no more is overwritten. *)
LEMMA CommitKeeps == ASSUME TypeOK, DropInv, StoreCommit \/ ConfCommit PROVE DropInv'
<1> USE DEF DropInv, PendingIsLast, ConfsKept, ReadingsKept, ConfSaved, ConfPending, ReadingPending
<1>j. job # None /\ job' = None /\ last' = last /\ job.wid \in Device
  BY JobTypes DEF StoreCommit, ConfCommit, Writing
<1>f. faults \in Nat /\ (faults' = 0 => faults = 0)
  BY ListenerAssumption DEF TypeOK, StoreCommit, ConfCommit, Label, LookupName
<1>1. CASE StoreCommit
  <2>1. job.handler = "store"
    BY <1>1 DEF StoreCommit, Writing
  <2>2. rows' = {q \in rows : q.wid # job.wid \/ q.ts # job.ts}
                    \cup {[wid |-> job.wid, ts |-> job.ts, body |-> job.body]}
    BY <1>1 DEF StoreCommit, InsertOrReplace
  <2>3. \A d \in Device, k \in Key \ {"device_id"} : params'[d][k] = params[d][k]
    BY <1>1 DEF StoreCommit, TypeOK
  <2>4. faults = 0 => ConfsKept'
    BY <1>j, <2>1, <2>3, ListenerAssumption
  <2>5. faults = 0 => ReadingsKept'
    <3> SUFFICES ASSUME faults = 0, NEW d \in Device, NEW m \in Reading, last[<<d, "data">>] = m, m.ts # None
                 PROVE  [wid |-> d, ts |-> m.ts, body |-> m.body] \in rows'
      BY <1>j
    <3>1. CASE job.wid = d
      <4>1. job.body = m.body /\ job.ts = m.ts
        BY <1>j, <2>1, <3>1
      <4> QED
        BY <2>2, <3>1, <4>1
    <3>2. CASE job.wid # d
      <4>1. [wid |-> d, ts |-> m.ts, body |-> m.body] \in rows
        BY <3>2
      <4> QED
        BY <2>2, <3>2, <4>1
    <3> QED
      BY <3>1, <3>2
  <2> QED
    BY <1>j, <1>f, <2>4, <2>5
<1>2. CASE ConfCommit
  <2>1. job.handler = "store_conf" /\ rows' = rows
    BY <1>2 DEF ConfCommit, Writing
  <2>2. /\ \A k \in Key : params'[job.wid][k] = IF k \in DOMAIN job.conf THEN job.conf[k] ELSE params[job.wid][k]
        /\ \A d \in Device \ {job.wid} : params'[d] = params[d]
    BY <1>2, <1>j DEF ConfCommit, Merge, TypeOK
  <2>3. last[<<job.wid, "config">>] = job.conf /\ job.conf \in Conf /\ DOMAIN job.conf \subseteq Key
    BY <1>j, <2>1, ListenerAssumption
  <2>4. faults = 0 => ConfsKept'
    <3> SUFFICES ASSUME faults = 0, NEW d \in Device, NEW c \in Conf, last[<<d, "config">>] = c
                 PROVE  ConfSaved(d, c)'
      BY <1>j
    <3>1. CASE job.wid = d
      BY <2>2, <2>3, <3>1
    <3>2. CASE job.wid # d
      BY <2>2, <3>2
    <3> QED
      BY <3>1, <3>2
  <2>5. faults = 0 => ReadingsKept'
    BY <1>j, <2>1
  <2> QED
    BY <1>j, <1>f, <2>4, <2>5
<1> QED
  BY <1>1, <1>2

LEMMA DropStep == ASSUME TypeOK, DropInv, [Next]_vars PROVE DropInv'
<1>1. CASE OpenDb
  <2>1. /\ job # None /\ job' # None /\ UNCHANGED <<last, params, rows, faults>>
        /\ job'.wid = job.wid /\ job'.handler = job.handler
    <3>1. job' \in StoreJob \cup ConfJob
      BY <1>1 DEF OpenDb, TypeOK, StoreJob, ConfJob
    <3> QED
      BY <1>1, <3>1, NoneAssumption, JobTypes DEF OpenDb, StoreJob, ConfJob
  <2>2. job.handler = "store_conf" => job'.conf = job.conf
    BY <1>1, <2>1, JobTypes DEF OpenDb, ConfJob
  <2>3. job.handler = "store" => job'.body = job.body /\ job'.ts = job.ts /\ job'.src = job.src
    BY <1>1, <2>1, JobTypes DEF OpenDb, StoreJob
  <2>4. \A d, c : ConfPending(d, c) => ConfPending(d, c)'
    BY <2>1, <2>2 DEF ConfPending
  <2>5. \A d, m : ReadingPending(d, m) => ReadingPending(d, m)'
    BY <2>1, <2>3 DEF ReadingPending
  <2> QED
    BY <2>1, <2>4, <2>5 DEF DropInv, PendingIsLast, ConfsKept, ReadingsKept, ConfSaved
<1>2. CASE HandlerFails
  <2>1. job' = None /\ faults' # 0
    BY <1>2 DEF HandlerFails, TypeOK
  <2> QED
    BY <2>1 DEF DropInv, PendingIsLast
<1>3. CASE Crash
  <2>1. /\ job' = None
        /\ \A d \in Device, k \in {"data", "config"} : last'[<<d, k>>] = None
    BY <1>3 DEF Crash, Topic
  <2> QED
    BY <2>1, NoneAssumption DEF DropInv, PendingIsLast, ConfsKept, ReadingsKept, Packet
<1>4. CASE Restart \/ Tick \/ SetBack \/ UNCHANGED vars
  <2>1. UNCHANGED <<job, last, params, rows, faults>>
    BY <1>4 DEF Restart, Tick, SetBack, vars, memory, disk
  <2> QED
    BY <2>1 DEF DropInv, PendingIsLast, ConfsKept, ReadingsKept, ConfSaved, ConfPending, ReadingPending
<1> QED
  BY <1>1, <1>2, <1>3, <1>4, ReceiveKeeps, CommitKeeps DEF Next, Handle

(* While no statement fails, what recv_packet will drop as a repetition is on disk, or its     *)
(* handler is at work (last in recv_packet).                                                    *)
THEOREM DroppedIsSaved == Spec => []DropsOnlyTheSaved
<1>1. Init => DropInv
  BY NoneAssumption DEF Init, DropInv, PendingIsLast, ConfsKept, ReadingsKept, Topic, Packet
<1>2. TypeOK /\ DropInv /\ [Next]_vars => DropInv'
  BY DropStep
<1>3. DropInv => DropsOnlyTheSaved
  <2> SUFFICES ASSUME DropInv, faults = 0 PROVE DropsOnlyTheSaved
    BY DEF DropsOnlyTheSaved
  <2>1. ConfigSaved
    BY DEF DropInv, ConfsKept, ConfSaved, ConfPending, ConfigSaved
  <2> QED
    BY <2>1 DEF DropInv, ReadingsKept, ReadingPending, DropsOnlyTheSaved
<1> QED
  BY <1>1, <1>2, <1>3, TypeCorrect, PTL DEF Spec

-----------------------------------------------------------------------------
(* The listener and the web process. *)

HeardOK == heard \in [Device -> 0 .. MaxClock \cup {None}]

(* d was alive at t, as far as heard tells. *)
Seen(d, t) == heard[d] # None /\ t <= heard[d]

(* A sign of life is not ahead of the clock; what is in the table, and     *)
(* what is on its way there, came with one.                                *)
SignsKept ==
    /\ \A d \in Device : heard[d] # None => heard[d] <= clock
    /\ \A q \in rows : Seen(q.wid, q.ts)
    /\ job # None /\ job.handler = "store" => Seen(job.wid, job.ts)

SignInv == HeardOK /\ SignsKept

ServerInv == TypeOK /\ StampInv /\ CachedTablesExist /\ SignInv

-----------------------------------------------------------------------------
(* Every set of numbers has a least one: it is the one whose interval from *)
(* zero is the smallest, and the finite sets are well ordered.             *)
LEMMA LeastNumber ==
    ASSUME NEW T \in SUBSET Nat, T # {}
    PROVE  \E m \in T : \A k \in T : m <= k
<1> DEFINE Up == {0 .. t : t \in T}
           R == StrictSubsetOrdering(Nat)
<1>1. Up \subseteq FiniteSubsetsOf(Nat) /\ Up # {}
  <2>1. \A t \in T : (0 .. t) \in SUBSET Nat /\ IsFiniteSet(0 .. t)
    BY FS_Interval
  <2> QED
    BY <2>1 DEF FiniteSubsetsOf
<1>2. IsWellFoundedOn(R, FiniteSubsetsOf(Nat))
  BY FS_StrictSubsetOrderingWellFounded
<1>3. PICK u \in Up : \A v \in Up : ~ (<<v, u>> \in R)
  <2> HIDE DEF Up, R
  <2> QED
    BY <1>1, <1>2, WFMin
<1>4. PICK m \in T : u = 0 .. m
  OBVIOUS
<1>5. ASSUME NEW k \in T, k < m PROVE FALSE
  <2>1. (0 .. k) \in SUBSET Nat /\ (0 .. m) \in SUBSET Nat /\ (0 .. k) \subseteq (0 .. m) /\ (0 .. k) # (0 .. m)
    BY <1>5
  <2>2. <<0 .. k, 0 .. m>> \in R
    BY <2>1 DEF StrictSubsetOrdering
  <2> QED
    BY <1>3, <1>4, <2>2
<1> QED
  BY <1>5

(* Of rows none of which is later than n there is a latest one. *)
LEMMA LatestRow ==
    ASSUME NEW S, NEW n \in Nat, S # {}, \A q \in S : q.ts \in Nat /\ q.ts <= n
    PROVE  \E q \in S : \A r \in S : r.ts <= q.ts
<1> DEFINE T == {n - q.ts : q \in S}
<1>1. T \in SUBSET Nat /\ T # {}
  OBVIOUS
<1>2. PICK m \in T : \A k \in T : m <= k
  <2> HIDE DEF T
  <2> QED
    BY <1>1, LeastNumber
<1>3. PICK q \in S : m = n - q.ts
  OBVIOUS
<1>4. \A r \in S : n - q.ts <= n - r.ts
  BY <1>2, <1>3
<1> QED
  BY <1>4

-----------------------------------------------------------------------------
(* A sign of life moves heard forward, and for one station only. *)
LEMMA AliveKeeps ==
    ASSUME TypeOK, HeardOK, NEW d \in Device, NEW t \in 0 .. MaxClock, Alive(d, t)
    PROVE  /\ HeardOK'
           /\ Seen(d, t)'
           /\ \A e \in Device, s \in Nat : Seen(e, s) => Seen(e, s)'
           /\ \A e \in Device : heard'[e] \in {heard[e], t}
<1>1. /\ heard'[d] = (IF heard[d] # None /\ heard[d] > t THEN heard[d] ELSE t)
      /\ \A e \in Device \ {d} : heard'[e] = heard[e]
  BY DEF Alive, HeardOK
<1>2. t # None /\ t \in Nat
  BY ListenerAssumption
<1>3. HeardOK'
  BY <1>1 DEF HeardOK, Alive
<1>4. heard[d] # None => heard[d] \in Nat
  BY DEF HeardOK
<1> QED
  BY <1>1, <1>2, <1>3, <1>4 DEF Seen

(* The types of rows and jobs that are readings. *)
LEMMA ReadingTypes ==
    ASSUME TypeOK
    PROVE  /\ \A q \in rows : q.wid \in Device /\ q.ts \in Nat
           /\ job # None /\ job.handler = "store" => job.wid \in Device /\ job.ts \in Nat
           /\ clock \in 0 .. MaxClock /\ clock \in Nat
<1>1. \A q \in rows : q.wid \in Device /\ q.ts \in Nat
  BY TimeIsNat DEF TypeOK, Row
<1>2. job # None /\ job.handler = "store" => job.wid \in Device /\ job.ts \in Nat
  BY JobTypes, TimeIsNat
<1>3. clock \in 0 .. MaxClock /\ clock \in Nat
  BY ListenerAssumption DEF TypeOK
<1> QED
  BY <1>1, <1>2, <1>3

(* A reading that starts a handler is dated by the server, now, or by the  *)
(* station, in the past.                                                   *)
LEMMA ReceiveSign ==
    ASSUME TypeOK, NEW d \in Device, NEW m \in Reading,
           \/ RecvDeviceStamped(d, m) /\ Past(m)
           \/ RecvServerStamped(d, m)
    PROVE  job'.wid = d /\ job'.ts \in Nat /\ job'.ts <= clock /\ UNCHANGED <<clock, rows>>
<1>1. CASE RecvDeviceStamped(d, m) /\ Past(m)
  <2>1. m.ts \in Nat /\ m.ts <= clock
    BY <1>1, ListenerAssumption DEF RecvDeviceStamped, Reading, Past
  <2> QED
    BY <1>1, <2>1 DEF RecvDeviceStamped, StartStore, disk
<1>2. CASE RecvServerStamped(d, m)
  BY <1>2, ReadingTypes DEF RecvServerStamped, StartStore, disk
<1> QED
  BY <1>1, <1>2

(* Whatever of a reading comes: its station is alive, and it is in time. *)
LEMMA ReceiveKeepsSigns ==
    ASSUME TypeOK, SignInv, ReceiveReading
    PROVE  SignInv'
<1> USE DEF SignInv, SignsKept
<1>1. PICK d \in Device, m \in Reading :
          /\ HearReading(d)
          /\ \/ RecvDuplicate(d, m) \/ RecvInWindow(d, m)
             \/ RecvDeviceStamped(d, m) /\ Past(m)
             \/ RecvServerStamped(d, m)
  BY DEF ReceiveReading, RecvDuplicate
<1>2. PICK now \in 0 .. MaxClock : now = clock /\ Alive(d, now)
  BY <1>1, ReadingTypes DEF HearReading
<1>3. /\ HeardOK' /\ Seen(d, now)'
      /\ \A e \in Device, s \in Nat : Seen(e, s) => Seen(e, s)'
      /\ \A e \in Device : heard'[e] \in {heard[e], now}
  BY <1>2, AliveKeeps
<1>4. clock' = clock /\ rows' = rows
  BY <1>1, ReceiveSign DEF RecvDuplicate, RecvInWindow, vars, disk
<1>5. \A e \in Device : heard'[e] # None => heard'[e] <= clock'
  BY <1>2, <1>3, <1>4, ReadingTypes
<1>6. \A q \in rows' : Seen(q.wid, q.ts)'
  BY <1>3, <1>4, ReadingTypes DEF Seen
<1>7. job' # None /\ job'.handler = "store" => Seen(job.wid, job.ts)'
  <2>1. CASE RecvDuplicate(d, m) \/ RecvInWindow(d, m)
    <3>1. job' = job
      BY <2>1 DEF RecvDuplicate, RecvInWindow, vars
    <3> QED
      BY <1>3, <3>1, ReadingTypes DEF Seen
  <2>2. CASE (RecvDeviceStamped(d, m) /\ Past(m)) \/ RecvServerStamped(d, m)
    <3>1. job'.wid = d /\ job'.ts \in Nat /\ job'.ts <= clock
      BY <2>2, ReceiveSign
    <3>2. heard'[d] # None /\ clock <= heard'[d] /\ heard'[d] \in Nat
      BY <1>2, <1>3 DEF Seen, HeardOK
    <3> QED
      BY <3>1, <3>2, ReadingTypes DEF Seen
  <2> QED
    BY <1>1, <2>1, <2>2
<1> QED
  BY <1>3, <1>5, <1>6, <1>7

(* What an upload brings is not later than the sign of life it is. *)
LEMMA UploadKeepsSigns ==
    ASSUME TypeOK, SignInv, NEW d \in Device, NEW b \in Batch(d), Upload(d, b)
    PROVE  SignInv'
<1> USE DEF SignInv, SignsKept
<1>1. PICK r \in b : (\A q \in b : q.ts <= r.ts) /\ Alive(d, r.ts)
  BY DEF Upload
<1>2. \A q \in b : q.wid = d /\ q.ts \in Nat /\ q.ts <= clock
  BY ListenerAssumption DEF Batch, Past
<1>3. r.ts \in 0 .. MaxClock /\ r.ts <= clock
  BY <1>2, ReadingTypes, ListenerAssumption
<1>4. /\ HeardOK' /\ Seen(d, r.ts)'
      /\ \A e \in Device, s \in Nat : Seen(e, s) => Seen(e, s)'
      /\ \A e \in Device : heard'[e] \in {heard[e], r.ts}
  BY <1>1, <1>3, AliveKeeps
<1>5. clock' = clock /\ job' = job /\ rows' \subseteq rows \cup b
  BY DEF Upload
<1>6. \A e \in Device : heard'[e] # None => heard'[e] <= clock'
  BY <1>3, <1>4, <1>5
<1>7. \A q \in b : Seen(q.wid, q.ts)'
  <2>1. heard'[d] # None /\ r.ts <= heard'[d] /\ heard'[d] \in Nat
    BY <1>4 DEF Seen, HeardOK
  <2> QED
    BY <1>1, <1>2, <2>1 DEF Seen
<1>8. \A q \in rows : Seen(q.wid, q.ts)'
  BY <1>4, ReadingTypes DEF Seen
<1>9. job' # None /\ job'.handler = "store" => Seen(job.wid, job.ts)'
  BY <1>4, <1>5, ReadingTypes DEF Seen
<1> QED
  BY <1>4, <1>5, <1>6, <1>7, <1>8, <1>9 DEF Seen

(* The other steps of the listener only let time pass, or carry a reading  *)
(* from the job to the table.                                              *)
LEMMA ProceedKeepsSigns ==
    ASSUME TypeOK, SignInv, Proceed \/ ReceiveConf \/ UNCHANGED allvars
    PROVE  SignInv'
<1> USE DEF SignInv, SignsKept, Seen
<1>1. heard' = heard /\ HeardOK'
  BY DEF Proceed, ReceiveConf, allvars, HeardOK
<1>2. clock' >= clock /\ clock' \in Nat /\ clock \in Nat
  BY ReadingTypes DEF Proceed, ReceiveConf, RecvConf, Handle, OpenDb, StoreCommit, ConfCommit, HandlerFails, Crash,
                      Restart, Tick, allvars, vars
<1>3. \A d \in Device : heard'[d] # None => heard'[d] <= clock'
  BY <1>1, <1>2 DEF HeardOK
<1>4. \A q \in rows' : q \in rows \/ (/\ job # None /\ job.handler = "store"
                                      /\ q.wid = job.wid /\ q.ts = job.ts)
  BY DEF Proceed, ReceiveConf, RecvConf, Handle, OpenDb, StoreCommit, Writing, InsertOrReplace, ConfCommit,
         HandlerFails, Crash, Restart, Tick, allvars, vars, disk
<1>5. job' # None /\ job'.handler = "store" =>
          job # None /\ job.handler = "store" /\ job'.wid = job.wid /\ job'.ts = job.ts
  <2>1. CASE OpenDb
    BY <2>1, JobTypes DEF OpenDb, StoreJob, ConfJob
  <2>2. CASE StoreCommit \/ ConfCommit \/ HandlerFails \/ Crash \/ Restart \/ Tick \/ ReceiveConf \/ UNCHANGED allvars
    BY <2>2 DEF ReceiveConf, RecvConf, StoreCommit, ConfCommit, HandlerFails, Crash, Restart, Tick, allvars, vars
  <2> QED
    BY <2>1, <2>2 DEF Proceed, Handle
<1> QED
  BY <1>1, <1>3, <1>4, <1>5

-----------------------------------------------------------------------------
(* The listener's variables change as in Listener.tla, in every step that  *)
(* is not the web process's.                                               *)
LEMMA ListenerStep ==
    ASSUME ReceiveReading \/ ReceiveConf \/ Proceed \/ UNCHANGED allvars
    PROVE  [Next]_vars
  BY DEF ReceiveReading, ReceiveConf, Proceed, allvars, RecvDuplicate, Next, Receive

(* The web process keeps the types of the files, and leaves the listener's *)
(* memory and its handler alone.                                           *)
LEMMA WebLeavesTheListener ==
    ASSUME TypeOK, Web
    PROVE  /\ TypeOK'
           /\ UNCHANGED <<clock, up, memory, job, tables, stamped, faults>>
<1>1. ASSUME NEW d \in Device, NEW n \in NewName, Rename(d, n)
      PROVE  TypeOK' /\ UNCHANGED <<clock, up, memory, job, tables, stamped, faults>>
  <2>1. params' \in [Device -> [Key -> Val \cup {None}]]
    BY <1>1, ListenerAssumption, ServerAssumption DEF Rename, TypeOK
  <2> QED
    BY <1>1, <2>1 DEF Rename, TypeOK, memory
<1>2. ASSUME NEW d \in Device, NEW b \in Batch(d), Upload(d, b)
      PROVE  TypeOK' /\ UNCHANGED <<clock, up, memory, job, tables, stamped, faults>>
  <2>1. b \subseteq Row
    BY DEF Batch, Row, Time
  <2>2. rows' \subseteq Row
    BY <1>2, <2>1 DEF Upload, TypeOK
  <2> QED
    BY <1>2, <2>2 DEF Upload, TypeOK, memory
<1> QED
  BY <1>1, <1>2 DEF Web

(* Everything at once for one step of the server. *)
LEMMA ServerStep == ASSUME ServerInv, [ServerNext]_allvars PROVE ServerInv'
<1> USE DEF ServerInv
<1>1. CASE ReceiveReading \/ ReceiveConf \/ Proceed \/ UNCHANGED allvars
  <2>1. [Next]_vars
    BY <1>1, ListenerStep
  <2>2. TypeOK' /\ StampInv' /\ CachedTablesExist'
    BY <2>1, TypeStep, StampStep, CacheStep
  <2> QED
    BY <1>1, <2>2, ReceiveKeepsSigns, ProceedKeepsSigns
<1>2. CASE Web
  <2>1. TypeOK' /\ UNCHANGED <<clock, up, memory, job, tables, stamped, faults>>
    BY <1>2, WebLeavesTheListener
  <2>2. StampInv'
    BY <2>1, StampsUntouched DEF memory
  <2>3. CachedTablesExist'
    BY <2>1 DEF CachedTablesExist, memory
  <2>4. SignInv'
    <3>1. ASSUME NEW d \in Device, NEW n \in NewName, Rename(d, n) PROVE SignInv'
      BY <3>1 DEF Rename, SignInv, SignsKept, HeardOK, Seen
    <3> QED
      BY <1>2, <3>1, UploadKeepsSigns DEF Web
  <2> QED
    BY <2>1, <2>2, <2>3, <2>4
<1> QED
  BY <1>1, <1>2 DEF ServerNext

LEMMA ServerStart == ServerInit => ServerInv
<1> SUFFICES ASSUME ServerInit PROVE ServerInv
  OBVIOUS
<1>1. Init
  BY DEF ServerInit
<1>2. CachedTablesExist
  BY <1>1 DEF Init, CachedTablesExist
<1>3. SignInv
  BY <1>1 DEF ServerInit, Init, Nothing, SignInv, SignsKept, HeardOK
<1> QED
  BY <1>1, <1>2, <1>3, TypeInit, StampInit DEF ServerInv

(* What the listener promises holds while the web process writes the same  *)
(* files: the server's stamps of a station stay a window apart, and no     *)
(* handler misses its tables (store and graph in web.py, ensure_tables);   *)
(* and every row on file is covered by a sign of life of its station.      *)
THEOREM ServerKeepsItsPromises == ServerSpec => []ServerInv
  BY ServerStart, ServerStep, PTL DEF ServerSpec

-----------------------------------------------------------------------------
(* The interval a page reckons with is a number of seconds. *)
LEMMA SleepIsNat == ASSUME TypeOK, NEW d \in Device PROVE sleep_seconds(params[d]) \in Nat
<1>1. params[d]["sleep"] # None => IntOf[params[d]["sleep"]] \in Nat
  BY ServerAssumption DEF TypeOK
<1> QED
  BY <1>1 DEF sleep_seconds

(* The age of what came later is not greater. *)
LEMMA AgeFalls ==
    ASSUME NEW s \in Nat, NEW t \in Nat, s <= t, clock \in Nat
    PROVE  Age(t) \in Int /\ Age(s) \in Int /\ Age(t) <= Age(s)
<1>1. \A a, b \in Int : a <= b => TICK * a <= TICK * b
  BY ServerAssumption
<1> QED
  BY <1>1, ServerAssumption DEF Age

(* The row a page takes is one of the latest of its station. *)
LEMMA LatestIsLast ==
    ASSUME ServerInv, NEW d \in Device, RowsOf(d) # {}
    PROVE  Latest(d) \in rows /\ Latest(d).wid = d
<1>1. \A q \in RowsOf(d) : q.ts \in Nat /\ q.ts <= clock
  <2>1. \A q \in RowsOf(d) : q \in rows /\ q.wid = d /\ q.ts \in Nat
    BY ReadingTypes DEF RowsOf, ServerInv
  <2> QED
    BY <2>1, ReadingTypes DEF ServerInv, SignInv, SignsKept, Seen, HeardOK
<1>2. PICK q \in RowsOf(d) : \A r \in RowsOf(d) : r.ts <= q.ts
  <2>1. PICK now \in Nat : now = clock
    BY ReadingTypes DEF ServerInv
  <2>2. PICK S : S = RowsOf(d)
    OBVIOUS
  <2> QED
    BY <1>1, <2>1, <2>2, LatestRow
<1>3. Latest(d) \in RowsOf(d)
  BY <1>2 DEF Latest
<1> QED
  BY <1>3 DEF RowsOf

(* A station that has been silent for 2.5 of its sleep intervals is shown  *)
(* as offline (brief_data): its latest row is no younger than its latest   *)
(* sign of life, however rows came, late, twice or in bulk.                *)
THEOREM SilentIsOffline == ServerSpec => []SilentShownOffline
<1>1. ServerInv => SilentShownOffline
  <2> SUFFICES ASSUME ServerInv, NEW d \in Device, RowsOf(d) # {},
                      Silent(d, sleep_seconds(params[d]))
               PROVE  Offline(d)
    BY DEF SilentShownOffline
  <2>1. TypeOK
    BY DEF ServerInv
  <2>2. Latest(d) \in rows /\ Latest(d).wid = d
    BY LatestIsLast
  <2>3. Latest(d).ts \in Nat /\ clock \in Nat
    BY <2>1, <2>2, ReadingTypes
  <2>4. heard[d] # None /\ heard[d] \in Nat /\ Latest(d).ts <= heard[d]
    BY <2>2 DEF ServerInv, SignInv, SignsKept, Seen, HeardOK
  <2>5. /\ Age(Latest(d).ts) \in Int /\ Age(heard[d]) \in Int
        /\ Age(heard[d]) <= Age(Latest(d).ts)
    <3>1. PICK s \in Nat, t \in Nat : s = Latest(d).ts /\ t = heard[d]
      BY <2>3, <2>4
    <3> QED
      BY <2>3, <2>4, <3>1, AgeFalls
  <2>6. sleep_seconds(params[d]) \in Nat
    BY <2>1, SleepIsNat
  <2>7. 2 * Age(heard[d]) > 5 * sleep_seconds(params[d])
    BY DEF Silent
  <2> QED
    BY <2>5, <2>6, <2>7 DEF Offline
<1> QED
  BY <1>1, ServerKeepsItsPromises, PTL

-----------------------------------------------------------------------------
(* A name is changed by a rename and by nothing else: of a configuration   *)
(* only what the station tells is written, and store writes device_id      *)
(* (store_conf, store, graph).                                             *)
THEOREM NamesStay == ServerSpec => RenameSticks
<1> DEFINE Sticks ==
      \A d \in Device :
          params[d]["name"] # None /\ params'[d]["name"] # params[d]["name"]
              => job' = job /\ params'[d]["name"] \in NewName
<1>1. ASSUME ServerInv, [ServerNext]_allvars PROVE Sticks
  <2>0. TypeOK /\ {"name", "device_id"} \subseteq Key
    BY <1>1, ListenerAssumption DEF ServerInv
  <2>1. CASE Web
    <3>1. ASSUME NEW d \in Device, NEW n \in NewName, Rename(d, n) PROVE Sticks
      <4>1. job' = job /\ \A e \in Device : params'[e]["name"] \in {params[e]["name"], n}
        BY <2>0, <3>1 DEF Rename, TypeOK
      <4> QED
        BY <4>1
    <3>2. ASSUME NEW d \in Device, NEW b \in Batch(d), Upload(d, b) PROVE Sticks
      BY <3>2 DEF Upload
    <3> QED
      BY <2>1, <3>1, <3>2 DEF Web
  <2>2. CASE StoreCommit
    <3>1. \A e \in Device : params'[e]["name"] = params[e]["name"]
      BY <2>0, <2>2 DEF StoreCommit, TypeOK
    <3> QED
      BY <3>1
  <2>3. CASE ConfCommit
    <3>1. job.wid \in Device /\ "name" \notin DOMAIN job.conf
      BY <2>0, <2>3, JobTypes, ConfAssumption DEF ConfCommit, Writing
    <3>2. \A e \in Device : params'[e]["name"] = params[e]["name"]
      BY <2>0, <2>3, <3>1 DEF ConfCommit, Merge, TypeOK
    <3> QED
      BY <3>2
  <2>4. CASE ReceiveReading \/ ReceiveConf \/ UNCHANGED allvars
    BY <2>4 DEF ReceiveReading, ReceiveConf, RecvDuplicate, RecvDeviceStamped, RecvInWindow,
                RecvServerStamped, RecvConf, allvars, vars, disk
  <2>5. CASE OpenDb \/ HandlerFails \/ Crash \/ Restart \/ Tick
    BY <2>5 DEF OpenDb, HandlerFails, Crash, Restart, Tick, disk
  <2> QED
    BY <1>1, <2>1, <2>2, <2>3, <2>4, <2>5 DEF ServerNext, Proceed, Handle
<1>2. ServerInv /\ [ServerNext]_allvars => [Sticks]_allvars
  BY <1>1
<1> QED
  BY <1>2, ServerKeepsItsPromises, PTL DEF ServerSpec, RenameSticks
=============================================================================
