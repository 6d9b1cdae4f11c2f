-------------------------- MODULE MicroPythonProofs --------------------------
(***************************************************************************)
(* What the MicroPython firmware promises, for all credentials, every      *)
(* pause and every length of time.                                         *)
(***************************************************************************)
EXTENDS MicroPython, TLAPS

(* A request that is being handled holds what a user entered. *)
LEMMA HandledRequest ==
    ASSUME McTypeOK, NEW step \in {"test", "open", "write"}, InAp(step)
    PROVE  request \in Handled
  BY DEF McTypeOK, InAp, NoRequest

(* The type invariant holds at first, and every step keeps it. *)
LEMMA McTypeInit == Init => McTypeOK
  BY MicroPythonAssumption
     DEF Init, McTypeOK, File, NoPage, NoRequest

LEMMA McTypeStep == McTypeOK /\ [Next]_vars => McTypeOK'
<1> SUFFICES ASSUME McTypeOK, [Next]_vars PROVE McTypeOK'
  OBVIOUS
<1> USE MicroPythonAssumption DEF McTypeOK, File, NoPage, NoRequest,
        world, portal, time, sent
<1>1. CASE Boot
  BY <1>1 DEF Boot, get_cfg
<1>2. CASE SyncTime
  BY <1>2 DEF SyncTime
<1>3. CASE GiveUp
  BY <1>3 DEF GiveUp
<1>4. CASE Publish
  <2>1. readings' \in Nat /\ due' \in Nat
    BY <1>4 DEF Publish
  <2>2. table' \subseteq [ts : 0 .. MaxNow, n : 1 .. readings']
    <3>1. table \subseteq [ts : 0 .. MaxNow, n : 1 .. readings']
      BY <1>4 DEF Publish
    <3>2. CASE UNCHANGED table
      BY <3>1, <3>2
    <3>3. CASE Store(tstamp, readings')
      <4>1. tstamp \in 0 .. MaxNow
        BY DEF tstamp
      <4> QED
        BY <1>4, <3>1, <3>3, <4>1 DEF Publish, Store
    <3> QED
      BY <1>4, <3>2, <3>3 DEF Publish
  <2> QED
    BY <1>4, <2>1, <2>2 DEF Publish
<1>5. CASE PublishFails
  BY <1>5 DEF PublishFails
<1>6. CASE ShowForm
  BY <1>6 DEF ShowForm, InAp, get_cfg
<1>7. ASSUME NEW c \in Creds, Submit(c) PROVE McTypeOK'
  BY <1>7 DEF Submit, Handled
<1>8. CASE TestFails \/ TestRaises
  BY <1>8, HandledRequest DEF TestFails, TestRaises, Answer, Handled
<1>9. CASE TestWorks
  <2>1. request \in Handled
    BY <1>9, HandledRequest DEF TestWorks
  <2>2. request' \in Handled
    BY <1>9, <2>1 DEF TestWorks, Handled
  <2> QED
    BY <1>9, <2>1, <2>2 DEF TestWorks, Handled
<1>10. CASE OpenFile
  <2>1. request \in Handled
    BY <1>10, HandledRequest DEF OpenFile
  <2>2. request' \in Handled \cup {NoRequest}
    BY <1>10, <2>1 DEF OpenFile, Answer, Handled
  <2> QED
    BY <1>10, <2>1, <2>2 DEF OpenFile, Answer, Handled
<1>11. CASE WriteFile
  BY <1>11, HandledRequest DEF WriteFile, Answer, Handled
<1>12. CASE RebootRequest
  BY <1>12 DEF RebootRequest, Restarted
<1>13. CASE PowerLoss
  <2>1. cfgfile' \in File
    BY <1>13, HandledRequest DEF PowerLoss, Handled
  <2> QED
    BY <1>13, <2>1 DEF PowerLoss, Restarted
<1>14. CASE Tick
  BY <1>14 DEF Tick
<1>15. CASE Surroundings
  <2>1. pin' \in BOOLEAN
    BY <1>15, Zenon DEF Surroundings
  <2>2. router' \in BOOLEAN
    BY <1>15, Zenon DEF Surroundings
  <2> QED
    BY <1>15, <2>1, <2>2 DEF Surroundings
<1>16. CASE Link
  BY <1>16 DEF Link
<1>17. CASE UNCHANGED vars
  BY <1>17 DEF vars
<1> QED
  BY <1>1, <1>2, <1>3, <1>4, <1>5, <1>6, <1>7, <1>8, <1>9, <1>10, <1>11,
     <1>12, <1>13, <1>14, <1>15, <1>16, <1>17 DEF Next

(* Every variable of the firmware keeps its type. *)
THEOREM McTypeCorrect == Spec => []McTypeOK
  BY McTypeInit, McTypeStep, PTL DEF Spec

-----------------------------------------------------------------------------
(* What the station joins the network with, and what its file holds, the   *)
(* portal has connected with.                                              *)
THEOREM PortalInvariant == Spec => []PortalInv
<1>1. Init => PortalInv
  BY MicroPythonAssumption, McTypeInit
     DEF Init, PortalInv, FileTested, StationModeTested, NoRequest
<1>2. PortalInv /\ [Next]_vars => PortalInv'
  <2> SUFFICES ASSUME PortalInv, [Next]_vars PROVE PortalInv'
    OBVIOUS
  <2>1. McTypeOK /\ McTypeOK'
    BY McTypeStep DEF PortalInv
  <2> SUFFICES FileTested' /\ StationModeTested'
    BY <2>1 DEF PortalInv
  <2> USE MicroPythonAssumption, <2>1
      DEF PortalInv, FileTested, StationModeTested, world, portal, time, sent
  <2>2. CASE Boot
    BY <2>2 DEF Boot, get_cfg
  <2>3. CASE ShowForm
    BY <2>3 DEF ShowForm, InAp
  <2>4. ASSUME NEW c \in Creds, Submit(c) PROVE FileTested' /\ StationModeTested'
    BY <2>4 DEF Submit, InAp
  <2>5. CASE TestFails \/ TestRaises
    BY <2>5 DEF TestFails, TestRaises, InAp, Answer, NoRequest
  <2>6. CASE TestWorks
    BY <2>6, HandledRequest DEF TestWorks, InAp, Handled
  <2>7. CASE OpenFile
    BY <2>7, HandledRequest DEF OpenFile, InAp, Answer, NoRequest, Handled
  <2>8. CASE WriteFile
    BY <2>8 DEF WriteFile, InAp, Answer, NoRequest
  <2>9. CASE RebootRequest
    BY <2>9 DEF RebootRequest, Restarted, NoRequest
  <2>10. CASE PowerLoss
    BY <2>10 DEF PowerLoss, Restarted, InAp, NoRequest
  <2>11. CASE SyncTime \/ GiveUp
    BY <2>11 DEF SyncTime, GiveUp
  <2>12. CASE Publish \/ PublishFails
    BY <2>12 DEF Publish, PublishFails
  <2>13. CASE Tick \/ Surroundings \/ Link
    BY <2>13 DEF Tick, Surroundings, Link
  <2>14. CASE UNCHANGED vars
    BY <2>14 DEF vars
  <2> QED
    BY <2>2, <2>3, <2>4, <2>5, <2>6, <2>7, <2>8, <2>9, <2>10, <2>11, <2>12,
       <2>13, <2>14 DEF Next
<1> QED
  BY <1>1, <1>2, PTL DEF Spec

(* A station is in station mode only with credentials that worked. *)
THEOREM JoinsWithTested == Spec => []StationModeTested
<1>1. PortalInv => StationModeTested
  BY DEF PortalInv
<1> QED
  BY <1>1, PortalInvariant, PTL

(* The page that says stored is true until another form is sent. *)
THEOREM StoredPage == Spec => []StoredPageIsTrue
<1>1. Init => PageInv
  BY McTypeInit DEF Init, PageInv, PageFollows, StoredPageIsTrue, NoPage
<1>2. PageInv /\ [Next]_vars => PageInv'
  <2> SUFFICES ASSUME PageInv, [Next]_vars PROVE PageInv'
    OBVIOUS
  <2>1. McTypeOK /\ McTypeOK'
    BY McTypeStep DEF PageInv
  <2> SUFFICES PageFollows' /\ StoredPageIsTrue'
    BY <2>1 DEF PageInv
  <2> USE <2>1
      DEF PageInv, PageFollows, StoredPageIsTrue, NoPage, NoRequest,
          world, portal, time, sent
  <2>2. CASE ShowForm
    BY <2>2 DEF ShowForm, InAp
  <2>3. ASSUME NEW c \in Creds, Submit(c) PROVE PageFollows' /\ StoredPageIsTrue'
    BY <2>3 DEF Submit, InAp
  <2>4. CASE TestFails \/ TestRaises
    BY <2>4 DEF TestFails, TestRaises, InAp, Answer
  <2>5. CASE TestWorks
    BY <2>5 DEF TestWorks, InAp
  <2>6. CASE OpenFile
    BY <2>6 DEF OpenFile, InAp, Answer
  <2>7. CASE WriteFile
    BY <2>7 DEF WriteFile, InAp, Answer
  <2>8. CASE RebootRequest
    BY <2>8 DEF RebootRequest, Restarted
  <2>9. CASE PowerLoss
    BY <2>9 DEF PowerLoss, Restarted, InAp
  <2>10. CASE Boot \/ SyncTime \/ GiveUp
    BY <2>10 DEF Boot, SyncTime, GiveUp
  <2>11. CASE Publish \/ PublishFails
    BY <2>11 DEF Publish, PublishFails
  <2>12. CASE Tick \/ Surroundings \/ Link
    BY <2>12 DEF Tick, Surroundings, Link
  <2>13. CASE UNCHANGED vars
    BY <2>13 DEF vars
  <2> QED
    BY <2>2, <2>3, <2>4, <2>5, <2>6, <2>7, <2>8, <2>9, <2>10, <2>11, <2>12,
       <2>13 DEF Next
<1>3. PageInv => StoredPageIsTrue
  BY DEF PageInv
<1> QED
  BY <1>1, <1>2, <1>3, PTL DEF Spec

-----------------------------------------------------------------------------
(* The steps that leave the server's table and the pause alone. *)
LEMMA ClockUntouched ==
    ASSUME ClockInv, McTypeOK', UNCHANGED <<table, due, now>>
    PROVE  ClockInv'
  BY DEF ClockInv, NeverAhead, Paced

(* Every reading in the table is in the past, or run is pausing. *)
THEOREM ClockInvariant == Spec => []ClockInv
<1>1. Init => ClockInv
  BY McTypeInit DEF Init, ClockInv, NeverAhead, Paced
<1>2. ClockInv /\ [Next]_vars => ClockInv'
  <2> SUFFICES ASSUME ClockInv, [Next]_vars PROVE ClockInv'
    OBVIOUS
  <2>1. McTypeOK /\ McTypeOK'
    BY McTypeStep DEF ClockInv
  <2>2. \A q \in table : q.ts \in Int /\ q.ts <= now
    BY <2>1 DEF ClockInv, NeverAhead, McTypeOK
  <2>3. now \in Int /\ due \in Int /\ offset \in Int /\ offset <= 0
    BY <2>1, MicroPythonAssumption DEF McTypeOK
  <2>4. CASE Publish
    <3>1. \A q \in table' : q.ts <= now
      BY <2>2, <2>3, <2>4 DEF Publish, Store, tstamp
    <3>2. now' = now /\ now < due'
      BY <2>3, <2>4, MicroPythonAssumption DEF Publish, time
    <3> QED
      BY <2>1, <3>1, <3>2 DEF ClockInv, NeverAhead, Paced
  <2>5. CASE PublishFails
    <3>1. now' = now /\ now < due' /\ table' = table
      BY <2>3, <2>5, MicroPythonAssumption DEF PublishFails, time
    <3> QED
      BY <2>1, <2>2, <3>1 DEF ClockInv, NeverAhead, Paced
  <2>6. CASE RebootRequest \/ PowerLoss \/ Tick
    <3>1. now' = now + 1 /\ table' = table
      BY <2>6 DEF RebootRequest, PowerLoss, Restarted, Tick, sent
    <3> QED
      BY <2>1, <2>2, <2>3, <3>1 DEF ClockInv, NeverAhead, Paced
  <2>7. CASE Boot \/ SyncTime \/ GiveUp
    BY <2>1, <2>7, ClockUntouched DEF Boot, SyncTime, GiveUp, time, sent
  <2>8. CASE ShowForm \/ TestFails \/ TestRaises \/ TestWorks \/ OpenFile \/ WriteFile
    BY <2>1, <2>8, ClockUntouched
       DEF ShowForm, TestFails, TestRaises, TestWorks, OpenFile, WriteFile, time, sent
  <2>9. ASSUME NEW c \in Creds, Submit(c) PROVE ClockInv'
    BY <2>1, <2>9, ClockUntouched DEF Submit, time, sent
  <2>10. CASE Surroundings \/ Link
    BY <2>1, <2>10, ClockUntouched DEF Surroundings, Link, time, sent
  <2>11. CASE UNCHANGED vars
    BY <2>1, <2>11, ClockUntouched DEF vars, time, sent
  <2> QED
    BY <2>4, <2>5, <2>6, <2>7, <2>8, <2>9, <2>10, <2>11 DEF Next
<1> QED
  BY <1>1, <1>2, PTL DEF Spec

(* No reading is dated ahead of real time. *)
THEOREM ReadingsNotAhead == Spec => []NeverAhead
<1>1. ClockInv => NeverAhead
  BY DEF ClockInv
<1> QED
  BY <1>1, ClockInvariant, PTL

(* A reading replaces another only when the station's clock is wrong: with *)
(* the right clock it is dated now, and run publishes only when the pause  *)
(* after everything dated now is over.                                     *)
THEOREM ReadingsKept == Spec => OnlyWrongClocksReplace
<1> DEFINE Kept == \A q \in table : q \notin table' => offset # 0
<1>1. ClockInv /\ [Next]_vars => [Kept]_vars
  <2> SUFFICES ASSUME ClockInv, Next PROVE Kept
    BY DEF vars
  <2>1. CASE Publish
    <3> SUFFICES ASSUME NEW q \in table, q \notin table', offset = 0
                 PROVE  FALSE
      OBVIOUS
    <3>1. now \in Int /\ due \in Int /\ now >= due
      BY <2>1, MicroPythonAssumption DEF Publish, ClockInv, McTypeOK
    <3>2. q.ts = now
      BY <2>1, <3>1 DEF Publish, Store, tstamp
    <3> QED
      BY <3>1, <3>2 DEF ClockInv, Paced
  <2>2. CASE ~Publish
    <3>1. UNCHANGED table
      BY <2>2 DEF Next, Boot, SyncTime, GiveUp, PublishFails, ShowForm,
         TestFails, TestRaises, TestWorks, OpenFile, WriteFile, Submit, RebootRequest,
         PowerLoss, Restarted, Tick, Surroundings, Link, sent
    <3> QED
      BY <3>1
  <2> QED
    BY <2>1, <2>2
<1> QED
  BY <1>1, ClockInvariant, PTL DEF Spec, OnlyWrongClocksReplace
=============================================================================
