# A verification of esp32Metheo in TLA+

esp32Metheo is a network of battery-powered weather stations and a small
server. A station wakes every few minutes, joins the Wi-Fi, measures,
broadcasts one MQTT-UDP packet and goes back to deep sleep. A Python process
listens to the broadcast and writes one SQLite file per station; a second one
shows the readings as web pages, on which a chart library of nine thousand
lines draws them.

Nothing in the system is acknowledged. Packets may be lost, doubled or delayed,
stations lose power in the middle of a save, and two processes write the same
SQLite files. This directory holds the TLA+ modules that model how the parts
cope with that, and what the chart does with the readings under a user's hands;
the TLC configurations that check them on small instances; and proofs, checked
by TLAPS, of what the listener, the web process, both firmwares, the packets
between them, and the data, drags, handles, frame and axes of a chart promise for
every instance.

To repeat a check, in this directory:

    tlc -config Listener.cfg MCListener      # any pair from the table of runs
    tlapm ServerProofs.tla

## 1. Inventory

### 1.1 Components

| component | code | state it keeps | operations | model |
|---|---|---|---|---|
| listener | `server/listenudp.py` | `last`, `last_store`, `dev_names`, `db_init` in memory; tables `data` and `params` on disk | `recv_packet`, `store`, `store_conf` | `ReadingLog`, `Listener`; proofs in `ServerProofs` |
| web process | `server/web.py` | none but the files and the configuration | rename and page (`graph`), bulk upload (`store`), `brief_data`, CSV, forecast, `watch_listener` | `Server`, `ServerProofs` (part) |
| Wi-Fi station, C firmware | `espidf/main/wifi.c` | event group, `s_retry_num`, the driver | `wifi_init_sta`, `event_handler`, `wifi_wait_connected[_timeout]`, `wifi_stop` | `Wifi`; proofs in `FirmwareProofs` |
| captive portal, C firmware | `espidf/main/ap_config.c` | credentials and `conn_fail` in NVS | load, save, `root_handler`, `save_handler`, `ap_config_set_conn_failed` | `ApConfig`; proofs in `FirmwareProofs` |
| wake cycle, C firmware | `espidf/main/main.c` | two counters in RTC memory, the watchdog | `app_main` from reset to deep sleep | `Firmware`, `FirmwareProofs` |
| packets | `espidf/main/mqttudp_client.c`, `server/mqttudp/engine.py` | none | build and parse a PUBLISH | `Wire`; proofs in `FirmwareProofs` |
| send throttle, interlocks, settings | `server/mqttudp/` | last time of sending; direction of a lock | `throttle_me`; `Bidirectional`, `Timer` | planned / not modelled |
| sensors | `espidf/main/sensor.c`, `sht30.c` | detected type, calibration | probe, read, CRC | one nondeterministic result in `Firmware` |
| MicroPython firmware | `esp32/boot.py`, `main.py` | configuration file, the chip's clock | `get_cfg`, `connect`, portal (`start_ap`), publish loop (`run`) | `MicroPython`, `MicroPythonProofs`; its packets in `Wire` |
| monitor script | `espidf/listen_mqttudp.py` | none | prints the broadcast | not modelled |
| charts: data and selection | `server/static/dygraph.js` | `rawData_`, `rolledSeries_`, `boundaryIds_`, points, selection | parse, average, cut, stack, range; roll period, zoom, visibility, mouse | `ChartData`, `ChartView`, `ChartViewProofs` |
| charts: mouse and fingers | same | one drag context, listeners on the document | zoom, pan, double click, swipe, pinch, taps | `ChartScale`, `ChartGesture`, `ChartGestureProofs` |
| charts: range selector | same | places of two handles, a drag | `onZoom`, `onPan`, `placeZoomHandles_`, `doZoom`, mini plot | `ChartSelector`, `ChartSelectorProofs`; mini plot in `ChartPaint` |
| charts: painting | same | none | lines, bars, areas, fast canvas | `ChartPaint`, `ChartPaintProofs` |
| charts: axes and frame | same | plot area, marks, canvas of the selector | `updateOptions`, `resize`, zoom; `dateTicker`, `numericTicks` | `ChartTicks`, `ChartFrame`, `ChartFrameProofs` (part) |
| charts: options, legend, annotations | same | | | not modelled |
| templates, calendar, build files | `server/templates`, `flatpickr.min.js`, `Dockerfile`, `Makefile` | none | | not modelled |

### 1.2 How they interact

    sensor -> app_main -> publish ~~~~ UDP broadcast ~~~~> listen -> recv_packet -> store
                 |                                                      |        store_conf
       wifi.c <--+--> ap_config.c (NVS)                                 v
       (events)       ^                                          data, params (one file
                      | HTTP, in AP mode only                    per station, SQLite)
                     user                                               ^
                                                 browser -> web.py -----+

* The stations and the server share only the broadcast, which goes one way. The
  server cannot ask for a packet again; a station never learns that one was lost.
* The listener and the web process share only the SQLite files. The listener
  caches two things it read or made there: names, and the fact that tables exist.
* In a station the main task, the event task and the Wi-Fi driver share the event
  group and the event queue. One wake and the next share the RTC counters (kept
  by deep sleep, lost by every other reset) and the NVS (kept by every reset).
* A page of the browser fetches the readings of a day as CSV and gives them to
  `dygraph.js` as one string; nothing flows back. The chart's parts call each
  other: a handler of the mouse or of the page changes an option, and a redraw of
  one of three depths (`predraw_`, `drawGraph_`, `renderGraph_`) follows.
* `web.py` starts the listener as a child process, looks after it every 30 s and
  exits when it is gone, so that the container's restart policy starts both. In
  the deployment of README.md:289-300 the listener runs alone, under the same
  policy.

### 1.3 What is hard, and what makes each component correct

**Listener.** The handler of a packet is several steps with a process that can
die and statements that can fail between them, and what it remembers is written
before what it stores. The wall clock may jump backwards. Copies of old packets
may come between new ones. Correct means: two readings of one station that the
server stamped lie at least 30 s apart and none replaces another; what is dropped
as a repetition is on disk; what the caches say of the disk is true.

**Web process.** It computes "offline" from two facts that others write at other
times, the newest row and the sleep interval. Correct means: a station that fell
silent is shown as offline, one that is heard is not; a name given by a user
stays, although the listener writes the same table.

**Wi-Fi.** A verdict is passed between three tasks by bits that are set once and
never cleared; retries are counted. Correct means: the bit FAIL is set exactly
when the retries are used up, and never is a started station left idle with no
event to wake anybody.

**Portal and wake cycle.** Three memories of different life times, a watchdog
that is armed for a part of the wake, a save of two keys and a commit. Correct
means: the page says "Saved" only of credentials that survive the restart it
announces; the page on a failure names the credentials that failed; AP mode is
entered without credentials or after a row of failures, and always in the end
when the network stays away; every wake ends.

**MicroPython firmware.** One file that is emptied before it is written, a clock
that starts at the epoch, and readings that are keyed by that clock. Correct
means: the station joins only with credentials that have worked, a damaged file
leads back to the portal, and readings do not overwrite each other.

**Packets.** Two builders and a reader, written apart. Correct means: what one
builds the other reads, whole.

**Charts.** Every handler runs to its end, so the interleavings are those of
whole handlers: a redraw by the page in the middle of a drag, a second button, a
button let go of where nobody hears it, one finger lifted before the other, a
timer that comes late. What they share are structures derived from others, and
one drag context that nobody clears. Correct means: what is derived is what its
sources say, after any sequence of handlers; what is drawn is the data, gaps and
all; a gesture ends, and leaves a window that is not turned around; handles, frame and
marks agree with what is shown.

The parts of the list of what is hard to test that matter most, each at its line, are
`hazards` in `PROJECT.json`; section 3.2 has the rest.

## 2. Modules

| module | models | extends |
|---|---|---|
| `ReadingLog` | abstract specification: the table as slots that are claimed, filled or abandoned | |
| `Listener` | `listenudp.py`, one action per step that commits or can fail | |
| `Server` | the listener and the web process over the same files | `Listener` |
| `ServerProofs` | theorems and proofs about `Listener` and `Server` | `Server` |
| `Wifi` | `wifi.c` with driver, event queue and waiting task | |
| `ApConfig` | `ap_config.c` with NVS and a user | |
| `Firmware` | `main.c`, any number of wakes and resets | `Wifi`, `ApConfig` |
| `MicroPython` | `boot.py` and `main.py`, with the clock and the server's table | |
| `MicroPythonProofs` | theorems and proofs about `MicroPython` | `MicroPython` |
| `Wire` | packets, by the lengths of their parts | |
| `FirmwareProofs` | theorems and proofs about `Wifi`, `ApConfig`, `Firmware` and `Wire` | `Firmware`, `Wire` |
| `ChartData` | rows, data handlers, stacking, ranges: operators | |
| `ChartView` | the handlers that change what a chart derives from its data | `ChartData` |
| `ChartViewProofs` | theorems and proofs about `ChartView` and the operators of `ChartData` it uses | `ChartView` |
| `ChartPaint` | layout, plotters, fast canvas, mini plot, over every short series | `ChartData` |
| `ChartPaintProofs` | theorems and proofs about the lines, the fills and the fast canvas of `ChartPaint` and the layout under them | `ChartPaint` |
| `ChartScale` | pixels and data, and a pan: operators | |
| `ChartGesture`, `ChartSelector` | drags over a chart; the handles of its range selector | `ChartScale` |
| `ChartGestureProofs`, `ChartSelectorProofs` | theorems and proofs about these two | `ChartGesture`; `ChartSelector` |
| `ChartTicks` | marks of an axis on the local clock and of values: operators | |
| `ChartFrame` | plot area, boxes, marks, labels, and the redraws that make them anew | `ChartTicks` |
| `ChartFrameProofs` | theorems and proofs about `ChartFrame` and the operators of `ChartTicks` | `ChartFrame` |
| `MCListener`, `MCServer`, `MCWifi`, `MCFirmware`, `MCMicroPython`, `MCWire`, `MCChartView`, `MCChartGesture`, `MCChartSelector`, `MCChartPaint`, `MCChartFrame` | values for the constants of the runs | |

A definition named `Bug_...` is not part of a specification: it is a wrong
version of the definition that follows it, of the kind a slip in the code would
make, and each checked property is violated when the right definition of its
`mutants` row is exchanged for it.

### 2.1 Listener

State: the four globals of `listenudp.py` under their names, `job` for the
packet the single thread is handling, and the files: `rows` (table `data` of all
files), `tables` (files whose two tables exist), `params`. `stamped` and
`faults` are history: what the present process stamped, and failed statements.

A handler is three steps:

1. `RecvConf`, `RecvDeviceStamped`, `RecvInWindow`, `RecvServerStamped`,
   `RecvGarbled`: `recv_packet` finds a payload that differs from the last of its
   topic, remembers it, and the handler decides about the timestamp, still
   without touching the file. A reading inside the window ends here.
2. `OpenDb`: `get_db` and `ensure_tables`; each `CREATE TABLE` commits by itself.
3. `StoreCommit` or `ConfCommit`: the statements of one `with db:` block.

`HandlerFails` is an SQL statement that raises at any point of steps 2 and 3; the
transaction rolls back, the memory does not. `Crash` and `Restart` may come at
any time. A reading with a timestamp of its own (`ts`) comes from a MicroPython
station and skips the window.

The network is the environment: any packet may be received at any moment, so that
loss, duplication, delay and reordering need no variables.

The clock counts whole seconds, as the timestamp format does
(`%Y-%m-%d %H:%M:%S`). The code keeps fractions in `last_store`; since
a window of a whole number of seconds that has passed in real time has also
passed in whole seconds, the difference of two stored timestamps is the
same in both, except that the code may refuse a reading up to a second longer.
The clock may be set back at any time (`SetBack`).

`ReadingLog` says the same of the table without any of this machinery. In it a
timestamp is *claimed* at a distance from the claim before, then filled once or
abandoned; a restart forgets claims and keeps rows. `Listener` implements it
with `claim <- last_store` and `open` the station of a job that the server has
stamped.

### 2.2 Server

Adds to the listener the rename of `graph`, the bulk upload of `store`, and the
offline flag of `brief_data` with `sleep_seconds` and `is_espidf`. A clock unit
is `TICK` seconds here, and the clock only runs forward. `heard` is history: the
latest sign of life of a station, which is a reading that reached the process, dropped
or not, or the last row of an upload. `Past` is the assumption that no station dates a
reading ahead of the server, and `ConfAssumption` that none tells a name. `Upload` stores any part of its batch, for a row whose `INSERT`
raises is logged and passed over, and nothing of it when the commit raises; the answer is
OK in the first case all the same.

A rename that falls between the commit of `store_conf` and the name lookup after
it is the same as one just before the commit, since they write different keys, so
`ConfCommit` does both in one step. A file held by the other process for longer
than SQLite waits is one of the causes of `HandlerFails`.

### 2.3 Wifi

`evq` is the event loop's queue, `bits` the event group, `waiter` the main task
inside a wait. The driver is external: `Associate`, `ConnectFails`,
`DhcpAnswers`, `LinkLost`. `event_handler` is `EventHandler` with its three
branches. `esp_wifi_connect` of a station that is not idle does nothing. An access point may
keep a station for ever without giving it an address: `DhcpAnswers` owes nothing.
`wifi_wait_connected_timeout` returns on a bit, or at any time (the timeout);
CONNECTED wins over FAIL, and neither bit is cleared.

### 2.4 ApConfig

`nvs` is what a read returns, `flash` what is certain to survive a reset. A write
is visible at once; until `nvs_commit` a reset may keep or lose each key by
itself. A save is a request in steps (`SetSsid`, `SetPassword`, `Commit`), and the
results of the two `nvs_set_str` are not looked at, as in the code. Every NVS call
may fail, a read as well as a write, `MaxNvsFaults` times in all and once in a request for the form. A
read that fails is what the code makes of it: a flag that is not set (`ReadFails`), a key that is
not there (there, and in `NoCredentials` of `Firmware`). A flag that could be written and not
committed is visible and may be lost. A password of no characters is stored as a
key; `Empty` stands for a key that is absent.

### 2.5 Firmware

`pc` walks `app_main`. The RTC counters are ordinary variables that `Wake` keeps
and `Reset` clears; `Reset` stands behind power loss, brownout, panic, watchdog
and `esp_restart`. The Wi-Fi driver, the event task and the HTTP task take their
steps in between. `Hang` is a driver call that does not return; only `WdtFires`
helps, and only while `wdt` holds, from the start of `app_main` to `RemoveWdt`.

### 2.6 Wire

A packet is the digits of its remaining length and the lengths of topic and
payload; a slice is the set of byte positions in it. That is enough, for what can
go wrong is a slice of the wrong bytes. `parse_packet` takes the first length
digit for the highest, as `unpack_remaining_length` does, and then slices with
the number it has got.

The sizes in `MCWire` come from the formats and from the ranges in
`Kconfig.projbuild`: readings of the C firmware have 34 to 60 bytes of payload
under a topic of 20, its configurations 149 to 174 under a topic of 27; readings
of the MicroPython firmware 70 to at most 105, its configuration 49.

### 2.7 MicroPython

`mode` is where `boot.py` and `main.py` stand: `get_cfg` reads the file, then
`connect` (which gives up in silence after `CONNECT_WAIT` looks, and sets the clock
by NTP only when it saw a connection) or `start_ap`, which never returns once it has
a socket. An exception before that is caught at the end of `boot.py`, and `main.py` then runs
with the station interface off. `run`
publishes and pauses; a round without a network loses what it measured. The
portal tries the credentials of a form before it writes them: `Submit`,
`TestWorks`, `TestFails` or `TestRaises` (an exception in `_test_wifi`, after which there
is no page and the interface stays as it was), `OpenFile`, `WriteFile`. A page may also be lost
on its way to the user. A file that is open when the
power goes may be the old one, the new one or neither; that depends on the file
system of the port, and the model allows all three.

`offset` is the chip's clock minus real time: it starts at the epoch on power-up,
survives `machine.reset`, and becomes 0 by NTP. Drift is not modelled. `table` is
what the server keeps: one reading for each timestamp, the last. A start takes a
second at least. `readings` and `now` are bounded by `MaxNow`. Requests are those
of the portal's own form; any other raises an exception that `start_ap` catches,
and changes nothing.

### 2.8 ChartData and ChartView

`dygraph.js` is a vendored library (Dygraphs 2), and the charts of the graph page
are nothing but it. `templates/graph.html` gives it a string of CSV that ends in
a newline, labels, one of five series to show, a roll period of 4 with its text
box, a legend that follows the mouse and a callback that draws a line. The
modules take the library with the options a page may set, since the interesting
cases of its code are there; the range selector, fills and stacks are not used by
`graph.html` today.

`ChartData` is `parseCSV_` (for whole x), the five data handlers with their
`rollingAverage`, `gatherDatasets_`, `stackPoints_` and `computeYAxisRanges_` for one
axis. `null`, `NaN` and numbers are told apart, as JavaScript does it in sums and
comparisons. `ChartView` has one action per handler: `loadedEvent`, `adjustRoll`,
`setVisibility`, `doZoomXDates`, `resetZoom`, `mouseMove`, `clearSelection`, over
`rawData`, `rolledSeries`, `packed` (points, boundaries, extremes), the range and
the selection. An exception in `predraw_` is a step too: it leaves what was drawn.
`ChartAssumption` says what a file is: every row but a first line of labels begins with a
time, and a window has its edges in order.

### 2.9 ChartGesture and ChartSelector

`ChartScale` has the conversion of pixels to dates and what a pan makes of the date window.
`ChartGesture` is `defaultModel`: `mousedown`, `mousemove`, `mouseup`, `doubleClick`,
`touchstart`, `touchmove`, `touchend`, each with what `startZoom`, `endPan` and their
kin do to `context`; `listeners` counts the pairs a press puts on the document.
`mouseupUnheard` is a button that goes up over a menu of the browser. `Wait` is the half
second of a double tap. `adjustRoll` is there because `predraw_` makes the axes
anew. An axis of values that nobody has zoomed is fitted to the window at every redraw
(`drawGraph`, `extremeRange`), to any of the ranges that fit this window; which those are is a
constant relation, `Fits`, since `ChartView` has the arithmetic. `Canvas` is the box from whose
four edges `distanceFromChart` measures.

`ChartSelector` has the drag of a handle, of the zone between the handles and
of the chart (`dragIsPanInteractionModel`), and at any moment `updateOptions`, by which the
page sets a window, and `drawGraph`, any other redraw. The page may set every window with its
ends in order, one beside the data among them. A handle's place is kept as the data under its
middle. `room` is history: the least that a window of the page has left between the handles,
which is less than nothing for one beside the data.

### 2.10 ChartPaint

`NextRow` appends a row of any values to the data, so that the reachable states are
all short series; the invariants compare the paths that `drawSeries`, `fillPlotter`,
`errorPlotter`, `fastCanvas` and `drawMiniPlot` write for them with what the data
say. A path is a sequence of moves and lines; two units of x are a pixel.
`strokeTo` is one turn of the loop of `_drawSeries`: it takes the pen on by a point, or
passes over one that the iterator skips; `fillTo` is that of `_fillPlotter`, `addAction` a
call on the fast canvas. `layout` holds the places of the points (`layout_.points` in the code) and `painted`
the paths on the canvas and the mini plot, as the redraw after the last row left them.

### 2.11 ChartTicks and ChartFrame

`ChartTicks` is `pickDateTickGranularity`, `getDateAxis` and `numericTicks`, on a local
clock that is put forward and back (`Shifts`, with `makeDate` as JavaScript resolves
a time that does not exist or exists twice) and the months of a year (`MonthStart`).
`getDateAxis` keeps a mark under its number of steps, which is not its index in the
array of the code: an hour that was skipped leaves a number out. `BaseScales` gives the
powers a rounded logarithm may lead to; a range is at most `MaxSpan` long, which is how
far these powers reach. `TicksAssumption` and `ClockAssumption` say what a clock and a
calendar are, `FrameAssumption` that a window lies in the year of the calendar. `ChartFrame` is `computePlotArea` with the plugins that
reserve space, and the operations that redraw: `updateOptions` with and without
`block_redraw`, `updateWindow`, `zoom`, `resize`, and `resizeLater`, the timer of
`updateVisibility_`. `pending` is history: pixels were moved and nothing redrawn. That
boxes tile the page is asked at the corners of the boxes, between which nothing changes.

## 3. Runs

| run | module, cfg | what it asks | outcome |
|---|---|---|---|
| `Listener` | `MCListener` | `Spacing`, `CachedTablesExist`, `DropsOnlyTheSaved`, `ServerRowsKept`, `ImplementsReadingLog` | holds |
| `ListenerFault` | `MCListener` | `ConfigSaved` | violated |
| `ServerView` | `MCServer` | `SilentShownOffline`, `RenameSticks` | holds |
| `Wifi` | `MCWifi` | `FailMeansExhausted`, `NeverAbandoned`, `VerdictComes` | holds |
| `Firmware` | `MCFirmware` | `FailureIsTold`, `UnwatchedWaits`, `SavedIsStored`, `ApOnlyAfterFailures`, `AutomaticAp`, `WakeEnds` | holds |
| `MicroPython` | `MCMicroPython` | `StationModeTested`, `StoredPageIsTrue`, `NeverAhead`, `OnlyWrongClocksReplace` | holds |
| `Wire` | `MCWire` | `ReadBack` | holds |
| `ChartView` | `MCChartView` | `RowsAreFound`, `RolledIsTheMean`, `LinesReachTheEdge`, `RangeHoldsThePicture`, `StackIsTheSum`, `SelectionIsTheRow` | holds |
| `ChartGesture` | `MCChartGesture` | `GestureOwned`, `WindowNotTurned`, `FingerHoldsTheData`, `ZoomInside`, `FarAwayIsNoZoom` | holds |
| `ChartSelector` | `MCChartSelector` | `HandlesInOrder`, `HandlesMatchWindow`, `PanKeepsTheSize` | holds |
| `ChartPaint` | `MCChartPaint` | `StrokesJoinNeighbours`, `AreasFit`, `FastPathLooksTheSame` | holds |
| `ChartFrame` | `MCChartFrame` | `FrameFits`, `TicksAreRight` | holds |

The type invariants (`TypeOK` of `Listener`, `McTypeOK` of `MicroPython`, and those in the
proof modules) are proved instead of run; every inductive invariant of section 4
was checked by TLC before it was proved.

### 3.1 What holds

* **Listener.** Whatever the clock and the network do: rows that one process
  stamped are a window apart (`Spacing`) and are replaced by nothing but a reading
  with a timestamp of its own (`ServerRowsKept`); the caches tell the truth
  (`CachedTablesExist`); while no statement fails, what will be dropped as a
  repetition is on disk (`DropsOnlyTheSaved`); the table is a `ReadingLog`. A
  restart forgets the window: a row stamped before it *can* be replaced by one
  stamped after it in the same second, and `Forget` in `ReadingLog` says so.
* **Server.** A station that has been silent for 2.5 of the intervals on file is
  shown offline, through restarts, renames, uploads and a change of firmware
  (`SilentShownOffline`), as long as no station dates its readings ahead of the
  server. A name stays until a user changes it (`RenameSticks`); no configuration
  a station sends holds the key `name`.
* **Wi-Fi.** FAIL means `MAX_RETRY + 1` disconnects in a row
  (`FailMeansExhausted`); an idle station with no event pending has given its
  verdict (`NeverAbandoned`). A started station gives one (`VerdictComes`): retries are not
  made without end. The one thing that can keep it from that is an access point that never
  gives an address; against it there is the timeout of the wait, which `app_main` uses.
* **Firmware.** While no NVS call fails, the portal tells the truth about failed
  and saved credentials (`FailureIsTold`, `SavedIsStored`). AP mode with
  credentials on file needs `WIFI_FAIL_THRESHOLD` failed wakes in a row, unless they cannot
  be read (`ApOnlyAfterFailures`), comes when the router stays away (`AutomaticAp`), and
  runs without a watchdog (`UnwatchedWaits`). Every wake ends (`WakeEnds`), unless
  a call hangs after the watchdog is removed.
* **MicroPython.** Whatever is torn, refused, switched off or raises: out of the portal the
  interface is on only with credentials that worked (`StationModeTested`), a page that says "stored" is true
  until another form is sent (`StoredPageIsTrue`), no reading is dated ahead
  (`NeverAhead`, which `SilentShownOffline` of the server relies on), and a reading
  replaces another only when the clock is wrong (`OnlyWrongClocksReplace`). With a
  wrong clock it does happen: every power-up without NTP starts again at the epoch.
* **Wire.** The configurations of the C firmware have two length digits, and the
  server reads them in the wrong order. It does no harm: for every length the
  firmware can send the number that comes out is too large, and a slice beyond
  the end of the bytes is cut there. That is an accident of the sizes, which the
  run checks one by one.

* **Charts: data.** However roll period, window, visibility and selection are changed:
  rows are sorted and found (`RowsAreFound`), averages are means of known values of
  the last rows of the present data (`RolledIsTheMean`, in all five handlers), no line
  is lost at the edge of a window (`LinesReachTheEdge`), the range holds all that is
  drawn and is never empty (`RangeHoldsThePicture`), stacks are sums (`StackIsTheSum`),
  and what is highlighted is the row under the mouse (`SelectionIsTheRow`), although
  `boundaryIds_` and the points are counted differently when a series is hidden.
* **Charts: gestures.** A drag lives as long as somebody listens for its end
  (`GestureOwned`); no gesture turns the chart around (`WindowNotTurned`; rounding may leave a
  window without a width); a zoom shows, along the axis it zooms, less and not something else
  (`ZoomInside`), while the other axis is fitted anew and may show more; and none comes of a drag
  that ends far away (`FarAwayIsNoZoom`); a finger stays on its data (`FingerHoldsTheData`).
* **Charts: range selector.** Handles keep their order, unless the page sets a window beside
  the data, and stay in the strip and their distance apart, unless it sets one that leaves less
  (`HandlesInOrder`); they stand where the window is (`HandlesMatchWindow`). A pan keeps the
  size: over the chart that of its own beginning, between the handles theirs, and it leaves the
  data only when it shows more than they are (`PanKeepsTheSize`).
* **Charts: paint.** Lines join neighbours and cross no gap, and a lone value is a dot
  (`StrokesJoinNeighbours`); areas, bands and the mini plot have the size the data
  give them (`AreasFit`); the fast canvas fills the same pixels (`FastPathLooksTheSame`),
  but for series with two missing values in a row and for stacks.
* **Charts: frame.** Boxes tile the page, labels and lines lie in theirs (`FrameFits`);
  the marks are the nice times of the local clock, across both changes of it, and
  values a label apart (`TicksAreRight`). `FrameFits` speaks of states in which no redraw
  is held back; the marks are right for the plot area there is in all of them.

### 3.2 What does not hold

One run checks a sentence of the repository and finds a behaviour of the code that
contradicts it; `findings` in `PROJECT.json` quotes both.

* `ListenerFault`: `recv_packet` remembers a payload before it is stored. When the
  handler fails, every repetition of that configuration is dropped, until another
  one or a restart. README.md:217 says configurations are stored.

Seen while modelling, and not run, in the stations and the server:

* A reading with the same figures as the one before is dropped however old that one
  is (`listenudp.py:85`), so a station in steady weather is shown offline.
  README.md:283 says offline means silent.
* Parameters are never deleted, so after a change from the C to the MicroPython
  firmware `fw` still says `espidf`, and milliseconds are read as minutes
  (`web.py:197`).
* The code stores `device_id` when no *name is cached* (`listenudp.py:147`); the comment
  says "once (on first store for this device)".
* The counter of configurations is reset to 0 after one is sent and is 1 at the next
  wake, which counts as a first boot: every wake that sends also sends a
  configuration (`main.c:170`). This one is a bug, not a matter of wording.
* A packet of remaining length 128 is the first that `engine.py` cannot read back
  (`engine.py:284`). No station sends it; a longer payload would.
* `main.c:81` says the watchdog reboots "if anything hangs before deep sleep"; it
  is removed before `wifi_stop` (`main.c:177`). `WakeEnds` leaves that case open.
* `boot.py:96` says the portal serves "until valid credentials are saved"; it
  serves until the device is restarted, and a form sent with the reboot box
  ticked restarts it before the form is looked at.
* `listenudp.py:13` says timestamps are the server's; a reading with `ts` keeps
  its own, also from the future (`listenudp.py:133`), and then hides that the
  station went silent. `SilentShownOffline` therefore assumes that no station is
  ahead of the server.
* `wifi.h:19` says `wifi_wait_connected` blocks until there is an address; it also ends on FAIL,
  and its result is void (`wifi.c:95`). Nothing calls it.
* `wifi.h:28` says true means connected. The bit is never cleared, so a link that
  was lost before the wait returns still gives true.
* `ap_config.h:24` says true on success; a failing `nvs_set_str` is not noticed
  (`ap_config.c:82-83`). `SavedIsStored` and `FailureIsTold` therefore assume that
  no NVS call fails.
* `listen_mqttudp.py:19` expects one length digit and shows no configuration of
  the C firmware; it also listens on another port than the firmware sends to.
* `Kconfig.projbuild:77` names a flag `low_bat`; the code and README.md call it
  `lbat`. README.md:174 says the MicroPython firmware buffers measurements during
  an outage; `esp32/main.py` throws them away.

And in the charts, where most need options that `graph.html` does not set (the roll
period and the pinch do not):

* A roll period of 2.5 in the text box reads between two rows: `predraw_` throws
  (`dygraph.js:6778`), the old picture stays, and the next zoom draws an empty one,
  until another period is typed. A page that resizes the chart meanwhile leaves
  `resize_lock` set (`7314`) and cannot resize again.
* The highlighted series keeps the option it had when the chart was made (`4139`).
* `2596` computes the angle of a pinch from the first finger and the middle; the comments
  at `2592` and `2595` speak of the fingers. `2788` says a drag more than 200 px away
  is dropped; `DRAG_EDGE_MARGIN` is 100 (`2184`).
* Of two values missing in a row the second one ends an area on the fast canvas at
  `NaN`, and a wedge is filled (`1576`). The step area of a missing value goes down
  to the bottom, not to zero (`1865`).
* A window beside the data puts each handle of the range selector at its own end of the window,
  past the other and one of them out of the strip; one that is partly beside them may put the
  handles closer than their distance (`9388-9391`).
* The mini plot bridges a gap that lies within a column of pixels, and shows nothing
  for a constant zero (`9350`).
* An option set with `block_redraw` is drawn by the next zoom with the plot area of
  before (`7301`); when it switches the range selector on, that zoom throws (`9407`).
* `labelsKMG2` is on the list of options that move no pixel (`5956`), so its marks come
  with the next zoom.

Seen while proving, each a case that the statement of a theorem had to name:

* One numerator of a ratio that is `NaN` enters a running sum and never leaves it (`930`):
  every later row is `NaN`, not only those whose window holds it. A numerator that is
  `null` counts as 0, and its denominator counts in full.
* Bars whose ends are blank while the value is there make the extremes depend on the
  order of the rows, since a comparison with `NaN` is false; `ChartAssumption` leaves them out.
* The line of the horizontal axis at zero has no line of the grid when zero is at the top
  of the plot (the grid takes the range without its upper end).
* The lowest label of the values is lifted by half its height, and leaves a page lower than
  two and a half labels at the top; a label of a time is wider than a page of less than 60
  pixels.
* TWO_DAILY counts from an even day of the month in which the window begins, and over the
  end of that month: a pan into the next one may move all its marks by a day. The theorem says
  every other midnight.

### 3.3 Bounds, and why they are enough

| run | bounds | why |
|---|---|---|
| `Listener` | one station, two bodies (symmetric), one configuration, clock 0..4, window 2, one device timestamp, one failing statement | no variable relates two stations except `job`, and the network may make `job` that of any; a window of 2 has readings before, inside, at the edge of and after it, and room for two claims; a device timestamp that the server may stamp too |
| `ServerView` | one station, one body, two configurations that differ in unit, one name, one upload of rows dated 0 and 2, each of which may fail, one failing statement, clock 0..5 of 60 s, window 1 | 2.5 intervals of one minute lie between two and three ticks, so a station can be heard, fall silent and be heard again; the other configuration makes the interval as good as endless |
| `Wifi` | the code's own retry count 5 | no bound is needed: the state is finite |
| `Firmware` | 2 retries, threshold 3, cadence 3, one reset, one hang, one failing NVS call, two networks and two passwords | the threshold leaves room for a success between failures; one reset loses the counters, a second loses nothing more |
| `MicroPython` | three credentials of which two work, a pause of 1, real time 3..8 | room for two sessions with several readings each, one before and one after a restart; a longer pause only makes readings rarer |
| `Wire` | every length the formats allow | complete for the code |
| `ChartView` | three series of at most four rows in five handlers, with doubled and late rows, gaps and `NaN`; roll periods 1, 2 and 2.5; a window inside the data and one beside it; two places of the mouse | a mean over two rows has rows before, in and after its window and a gap at each place; with three series one may be hidden between two |
| `ChartGesture` | four places (left of the plot, two on it, far to the left of the canvas), two ranges of values, of which late windows have the narrower one, two buttons, shift, two fingers, three gestures | two gestures overlap and a third meets what they left; a zoom changes the fit |
| `ChartSelector` | a strip of 30 pixels, handles of 5, six places, two presses, four windows: inside the data, too narrow at their end, partly beside and wholly beside them | every edge is within a drag, and the drags overlap when a release is lost |
| `ChartPaint` | up to five rows of three or four values, `null` and `NaN` among them, x in the same column of pixels, the next, or further | a plotter looks one point back and one forward, the fast canvas at the first, lowest, highest and last of a column |
| `ChartFrame` | 2026 in Central Europe, three sizes, four sets of options, windows of hours, a day, ten days and months, a range around zero and one that ends there, one timer | one window around each change of the clock and one for each kind of placement; a page too small for its labels |

`ListenerFault` uses the smallest instance that shows the behaviour.

Bounds are constants: `MaxClock`, `MaxFaults`, `MaxUploads`, `MaxNvsFaults`,
`MaxResets`, `MaxHangs`, `MaxNow`, `MaxTimers`, and `Gestures` and `Presses` of the charts;
`MaxSpan` of `ChartTicks` bounds a range and is the same in the proofs.
The history `failed` of `Firmware` is counted as far as the threshold, which is all
that is asked of it. `Crash`, renames, wakes, packets, requests and redraws are not
bounded. Values of the charts are whole: a `Unit` divides by every number of rows,
pixels are rounded down, and ranges are chosen so that marks are whole numbers.

Deadlock is checked in every run but `ChartPaint`, whose data have an end; no part of
the system stops for ever.

### 3.4 Fairness

Only `Wifi` and `Firmware` state it, and there only for what ESP-IDF schedules:

* `WF(Attempt)`: the driver ends every attempt to connect, by association or with an event.
  That an address follows is not assumed, and `VerdictComes` leaves the case open.
* `WF(EventHandler)`, `WF(WaitReturns)`: the two tasks are scheduled; a task whose
  bit is set is made ready by FreeRTOS.
* `WF(Main)`: the main task takes a step it can take, a wait ends by its timeout,
  and the timer wakes the chip. Nothing is assumed of driver or router in
  `Firmware`.
* `WF(WdtFires)`: the hardware watchdog fires when nobody feeds it.
* `WF(RestartAfterSave)`: `esp_restart` comes two seconds after the page.

Users, resets, failures, packets and crashes owe nothing to anybody. The listener,
the server, the MicroPython firmware and the charts have safety properties only.

## 4. Proofs

Eight modules hold theorems. `ServerProofs` proves of the listener, for every set of stations, bodies, timestamps and
configurations, every window, every bound of the clock and of failures:

| theorem | statement | property checked by |
|---|---|---|
| `TypeCorrect` | `Spec => []TypeOK` | – |
| `StampInvariant` | `Spec => []StampInv` | – |
| `StampsSpaced` | `Spec => []Spacing` | `Listener` |
| `StampedRowsKept` | `Spec => ServerRowsKept` | `Listener` |
| `CacheIsRight` | `Spec => []CachedTablesExist` | `Listener` |
| `Refinement` | `Spec => ImplementsReadingLog` | `Listener` |
| `DroppedIsSaved` | `Spec => []DropsOnlyTheSaved` | `Listener` |

The assumptions are `ListenerAssumption` (the window is a positive number,
timestamps are numbers, configurations map keys to values) and
`NoneAssumption` (the value that stands for an absent dictionary entry is no
packet and no job, and a payload that cannot be parsed is neither a reading nor a
configuration). TLC evaluates both in every run of the listener.

**The inductive invariant.** `Spacing` speaks of stamps that are in the table. It
is not inductive: a reading on its way to the table has been admitted by
comparison with `last_store`, which `Spacing` does not mention. `StampInv` adds
what ties them together:

* `Claimed`: `last_store` is not before any stamp in the table;
* `PendingClaim`: a job the server stamped holds the value of `last_store`, and it
  lies a window after every stamp in the table;
* `DownIsIdle`: a process that is down handles nothing.

A claim is only taken when the clock is a window after `last_store`; by `Claimed`
it is then a window after every stamp, which is `PendingClaim` after the step, and
`PendingClaim` before `StoreCommit` is `Spacing` after it. A clock that is set
back makes the difference negative, the window stays closed, and nothing
changes. A failing handler drops the job and leaves the claim, which only makes
the next distance longer. A crash empties both sides.

`StampedRowsKept` follows: the only action that writes rows is `StoreCommit`, and
a stamp on its way is in no row by `PendingClaim` (`PendingIsNew`).
`Refinement` maps each action to the abstract action of its name, and
`PendingClaim` gives what `Fill` needs, that the row's timestamp is the claim.

`DroppedIsSaved` needs an invariant of its own, `DropInv`. A payload is dropped
when it equals the one in `last`; so each configuration or dated reading in `last`
is either on disk or the job at work (`ConfsKept`, `ReadingsKept`, while no statement
has failed), and a job is always that of the payload remembered last
(`PendingIsLast`). The keys `name` and `device_id`, which others write too, are left
out. A row that replaces another does so under the same key, and `last` then holds
the payload of the new one.

Of the listener and the web process together it proves, for every set of stations, every
length of a tick, and any number of renames and uploads, restarts and failures:

| theorem | statement | property checked by |
|---|---|---|
| `ServerKeepsItsPromises` | `ServerSpec => []ServerInv` | – |
| `SilentIsOffline` | `ServerSpec => []SilentShownOffline` | `ServerView` |
| `NamesStay` | `ServerSpec => RenameSticks` | `ServerView` |

`ServerInv` holds `TypeOK`, `StampInv` and `CachedTablesExist` of the listener: a second
process that writes the same files breaks none of them. The listener's own steps are
taken over from the first half of the module; only `Web` is new, and it leaves the memory and the job
alone. An upload may replace a row that the server had stamped; `StampInv` is about the
stamps and the memory, and keeps its truth. That a silent station is shown
offline is not inductive, for it compares `heard` with rows that are not yet there:
`SignsKept` adds that every row, and every reading on its way to the table, came with a
sign of life no earlier than its timestamp, and that no sign of life is ahead of the
clock. Then the latest row is at least as old as the silence. That there *is* a latest
row is a lemma of its own (`LatestRow`): of the distances to the clock one is
the least, which follows from finite sets being well ordered (`LeastNumber`).

Two things the proof asked for and TLC's instance had hidden. An upload is a sign of life
too, and a row of it may be newer than anything the listener heard; `heard` counts it
now, so that the theorem is about silence on both ways. And both `Past` and
`ConfAssumption` are needed: a row from the future makes a silent station look alive
until the clock is there, and a configuration with the key `name` would undo a rename.

`MicroPythonProofs` proves, for all credentials, every pause and every length of
time:

| theorem | statement | property checked by |
|---|---|---|
| `McTypeCorrect` | `Spec => []McTypeOK` | – |
| `JoinsWithTested` | `Spec => []StationModeTested` | `MicroPython` |
| `StoredPage` | `Spec => []StoredPageIsTrue` | `MicroPython` |
| `ReadingsNotAhead` | `Spec => []NeverAhead` | `MicroPython` |
| `ReadingsKept` | `Spec => OnlyWrongClocksReplace` | `MicroPython` |

Assumed is `MicroPythonAssumption`: the values that stand for no file, a torn file
and no credentials are no credentials, and the pause is positive. Three small
invariants carry the proofs. `PortalInv`: what is on file, and what is about to be
written, has been tried with success. `PageInv`: no page is seen while a form is
handled, so none can become false by a write that breaks off. `ClockInv`: a reading
on file is dated before now, or `run` is pausing; with a right clock a new reading
is dated now, and hence is a new key.

`FirmwareProofs` proves for all credentials, retries, thresholds and
cadences, and for any number of resets, hangs and failing calls:

| theorem | statement | property checked by |
|---|---|---|
| `FailNeedsExhaustion` | `WifiSpec => []FailMeansExhausted` | `Wifi` |
| `IdleHasVerdict` | `WifiSpec => []NeverAbandoned` | `Wifi` |
| `WaitsAreUnwatched` | `FwSpec => []UnwatchedWaits` | `Firmware` |
| `ApAfterFailures` | `FwSpec => ApOnlyAfterFailures` | `Firmware` |
| `SavedSurvives` | `FwSpec => []SavedIsStored` | `Firmware` |
| `FailuresAreTold` | `FwSpec => []FailureIsTold` | `Firmware` |

* `WifiInv`. That an idle station has an event or a verdict is not inductive: the
  handler might take the last event and do nothing. `Owed` says which event it is: as
  long as FAIL is not set, one that makes the handler connect is pending just when the
  station is idle, and it is the last of the queue; only addresses stand before it.
  `Given` says what the verdict leaves: an idle station, an empty queue, more
  disconnects than retries. `s_retry_num <= streak` ties the code's counter to the
  history.
* `WdtInv`: the watchdog is off from its removal to the wake. `CountInv`: outside
  AP mode the counter in RTC memory is at most the failures in a row, or these have
  reached the threshold; a reset only makes it smaller.
* `PortalInv`: while no NVS call failed, each step of a save has left its key, and
  behind the page "Saved" nothing comes but the restart. Neither the type of the
  portal nor the steps that have been taken can be left out.
* `FailInv`: the failures counted are those of the credentials on file
  (`CountedAreStored`), which needs that a station tries what is on file from the load
  to the verdict (`TriesStored`), and that whoever set the flag had both keys
  (`NotedHasKeys`); else a half-saved pair could be blamed.

Assumed are `WifiAssumption`, `FirmwareAssumption` and `ApConfigAssumption` (`Empty`, which
stands for an absent key, is no name and no password).

`ChartGestureProofs` and `ChartSelectorProofs` prove for every plot, every set of places
and buttons, every set of ranges and way in which they fit windows, every handle that fits the
strip, and every window a page may set with its ends in order, beside the data or not:

| theorem | statement | property checked by |
|---|---|---|
| `DragIsOwned` | `Spec => []GestureOwned` | `ChartGesture` |
| `FarDragIsDropped` | `Spec => FarAwayIsNoZoom` | `ChartGesture` |
| `ViewInvariant` | `Spec => []ViewInv` | – |
| `NeverTurned` | `Spec => []WindowNotTurned` | `ChartGesture` |
| `ZoomsStayInside` | `Spec => ZoomInside` | `ChartGesture` |
| `FingerStays` | `Spec => []FingerHoldsTheData` | `ChartGesture` |
| `HandlesOrdered` | `Spec => []HandlesInOrder` | `ChartSelector` |
| `HandlesMatch` | `Spec => []HandlesMatchWindow` | `ChartSelector` |
| `PansKeepTheSize` | `Spec => PanKeepsTheSize` | `ChartSelector` |

* `DragInv`: a rectangle is on the canvas only in a zoom that has an end (`RectHasEnd`),
  and a zoom has an end only while the pointer is near (`EndIsNear`). The second is
  what `FarDragIsDropped` needs: `mouseup` looks at `dragEnd`, not at the pointer. A press
  leaves the `dragEnd` of an earlier drag in the context, and keeps `EndIsNear` since
  a pointer over the chart is near (`OnCanvasIsNear`).
* `ViewInv` adds the types of window, range and touch, that a touch is about as many fingers
  as are on the chart (`FingersOK`), and `OneFinger`: with one finger down the window is
  that of its start, moved by the finger's way, and `touch.data` is what was under it then.
  `FingerHoldsTheData` does not say so, and a `touchmove` computes the window anew from
  the start. Between the finger and the data are three divisions that round down,
  whose errors add up to one unit; lemmas on `\div` (`DivBounds`, `DivUnique`,
  `DivMono`, `DivSum`, `DivDouble`) bound them, since no prover here knows products of two
  variables. `ZoomsStayInside` needs the same monotony of `toDataXCoord`, and that `endZoom`
  is clipped to the plot, whichever direction an earlier drag left behind.
* `SelectorInv`: the order of the handles is not inductive, since a redraw puts them
  where the window is, and a pan of the chart goes on with a range it took long ago.
  So window, handles and the range of the pan are all good for the `room` the page has left:
  when that is more than nothing, they overlap the strip and go beyond it by less than the
  distance the handles keep; when it is that distance or more, they lie in the strip and are
  wide enough. Of a page that sets a window beside the data nothing is claimed. `Strip` derives from
  the assumptions that good ranges exist.
* `HandlesMatch` needs one sentence more: the handles match the window, or a mobile device
  is in the middle of a drag (`Waiting`); each of the ends of a drag calls `doZoom` or
  `doPan`, which puts the window where the handles are.
* `PansKeepTheSize` is a fact about one step, whatever the range was when the pan began
  (`PannedSize`, `BothKeepTheSize`). A pan of more than the data, which is possible after a
  window beside or around them, shows the whole of them or goes on with what it had; the statement
  allows just these two.

Assumed are `ScaleAssumption`, `GestureAssumption` and `SelectorAssumption`: a plot is at least two
pixels wide and high and lies in its canvas, the data have more than one date, ranges are not
empty, `DRAG_EDGE_MARGIN` is positive; and of the range selector that a handle and three pixels are no wider than the
strip and that there is more than a unit of the data (a millisecond, for dates) in every pixel of it.
Where nothing fits a window, a redraw has no step: the theorems then say nothing of it, and
in the code something always fits (`RangeAlwaysHoldsThePicture`).

`FirmwareProofs` also proves of `Wire`, for every topic and every payload:

| theorem | statement | property checked by |
|---|---|---|
| `ReadableIsReadBack` | all packets `Readable` implies `WireSpec => []ReadBack` | `Wire` |
| `FirmwareIsReadBack` | the same for topics of 20 and 27 bytes and payloads of the firmwares | `Wire` |
| `OtherLengthsRaise` | a length that is not readable makes `parse_packet` raise | – |

The digits of a length are a recursive function, and TLA+ takes such a function by
`CHOOSE`: that there is one is proved by the least length for which there would be none
(`DigitsExist`), that there is only one by the least at which two differ (`DigitsAgree`).
`Digits` can then be computed for one and two digits. A length below 16384 is readable
when it is below 128, or its lower digit, which `engine.py` takes for the higher one, is
not below the other: the number that comes out is then too large, and the slices are cut
at the end of the bytes. `OtherLengthsRaise` is the converse, and `FirmwarePacketsRead`
shows that no station sends such a length: of those that fit the 512 bytes of the C
firmware only 128, 256, 257, 384, 385 and 386 are.

`ChartViewProofs` proves for every file, of any number of lines in any order, every set of
columns, roll periods, windows and places of the mouse, and all five handlers:

| theorem | statement | property checked by |
|---|---|---|
| `ViewsAgree` | `Spec => []ChartInv` | – |
| `RowsAreAlwaysFound` | `Spec => []RowsAreFound` | `ChartView` |
| `LinesAlwaysReachTheEdge` | `Spec => []LinesReachTheEdge` | `ChartView` |
| `SelectionIsAlwaysTheRow` | `Spec => []SelectionIsTheRow` | `ChartView` |
| `PictureWasMade` | `Spec => []MadeInv` | – |
| `RolledIsAlwaysTheMean` | `Spec => []RolledIsTheMean` | `ChartView` |
| `StackIsAlwaysTheSum` | `Spec => []StackIsTheSum` | `ChartView` |
| `RangeAlwaysHoldsThePicture` | `Spec => []RangeHoldsThePicture` | `ChartView` |

* `ChartInv` is what the handlers owe each other: the rows are those of the file
  (`DataInv`); unless `predraw_` threw, the averaged series are those of the rows and the
  roll period of now, and the picture is that of these series, the window and the shown
  columns of now (`PictureInv`); a selected row has a point in this picture
  (`SelectionInv`). An exception leaves the old picture and no series, and `ChartInv` claims
  nothing until the next roll. A handler that forgot one redraw would break it.
* `RowsAreAlwaysFound`: sorting gives each row the number of rows up to it; these sets are
  nested and no two are equal, so each place from 1 to the number of rows is taken
  once (`Ranks`), which serves `parseCSV_` for the choice of lines as well. The halving is a
  recursive function again: the first row of the searched x in each range satisfies its
  equation (`FirstIsFound`, from `HalvingKeepsTheFirst`), and no other function does
  (`OneFinds`: two would differ first at a smallest range).
* `LinesAlwaysReachTheEdge`: `boundaryIds` go to the next known value beyond the window on
  either side, or to the end of the data. `Boundaries` shows that a line through the
  window joins rows between them, and `PictureInv` that these are the points there are.
* `SelectionIsAlwaysTheRow`: every point carries the number of its row (`PictureIsDrawnOf`),
  also when stacked or evaluated, and `PointOfRowIs` says that the index computed from the left
  boundary of *some* set meets the right point of each.

* `PictureWasMade` is the companion of `ViewsAgree` for what was drawn *last*: also after a
  period that throws, the picture on the page was made by `gatherDatasets` from the rows of
  the file, some roll period, window and set of columns, and the range from its extremes
  (`MadeInv`). The three theorems after it are then about these operators.
* Sums are folds of the community modules, and a fold is a function that TLA+ takes by
  `CHOOSE`. That it exists and is unique is proved as for the digits of `Wire`, with a
  smallest set in place of a least number (`SumsExist`, `SumsAgree`); after that any element
  may be taken out first (`SumWithout`), and sums may be compared, cut and counted.
* `RolledIsAlwaysTheMean`: three handlers sum the window of each row anew, two keep running
  sums. `WindowMoves` says what the next row takes in and leaves out, and so the running
  sums are those of the window (`CustomSumsAre`, `FractionSumsAre`), the least row at which
  they are not being a contradiction. Ratios of a series with a `NaN` among its numerators
  are excepted, because there they are not (`Spoilt`; section 3.2).
* `StackIsAlwaysTheSum`: `stackPoints_` goes from the last series to the first and keeps a table
  of heights by x. `IsBelow` says what it holds: at every x of the series after this one
  the sum of their heights (`LayersAreBelow`). Rows of one x count once, the first.
* `RangeAlwaysHoldsThePicture`: every known value, and what its bar reaches, lies between the
  extremes of its column (`MeasuredIs`), also when stacked (`LevelledIs`). A column without
  values has `null` for an extreme, which stands for zero; `IsExtreme` says that the other one
  is then on its side of zero, without which a range could be turned around. The pad
  never takes a range inwards and leaves none empty (`PadIs`).

Assumed is `ChartAssumption` (section 2.8).

`ChartFrameProofs` proves for every page, all options, every window and range, and every
clock and calendar:

| theorem | statement | property checked by |
|---|---|---|
| `FrameIsRedrawn` | `Spec => []FrameInv` | – |
| `FrameAlwaysFits` | `Spec => []FrameFits` | `ChartFrame` |
| `MarksAreOfNow` | `Spec => []MarksInv` | – |
| `TicksAreAlwaysRight` | `Spec => []TicksAreRight` | `ChartFrame` |

* `FrameInv`: unless a redraw is held back, plot area and boxes are what `computePlotArea`
  makes of size and options, labels and lines are drawn in them at the marks there are, and
  the selector's canvas was placed by them (`Redrawn`). The marks are only known to be numbers,
  which takes the existence of extremes of finite sets (`LeastAt`). An operation that redraws
  less than it moved would break it.
* Each plugin that reserves space cuts one rectangle into two, and a cut keeps a tiling
  (`AskTiles`, six times). For the rest of `FrameFits` the plot area is written in closed form
  (`PlotAreaIs`); that a mark in the window is a pixel in the plot is a lemma on `\div` (`PartFits`).
* `MarksInv`: the marks were made for the plot area and the window *there are*, for some
  range and way to label. It holds with a redraw held back as well: a zoom makes marks
  in the old frame, and whatever makes the frame anew makes the marks.
* Marks of values: multiples of a distance reach over both ends of the range (`MarksReach`).
  The first distance that leaves room is one of the list, since the coarsest is wide
  enough for any base that fits (`CoarseFits`); and where a rounded logarithm gives the smaller base,
  the distances it tries before those of the larger base are all too fine (`FineIsTooFine`), so that
  the marks come out the same (`OneScale`).
* The clock: at each time the shift that began last rules (`CurrentRules`), a later time is at
  most an hour earlier on the clock (`ClockSteps`), `makeDate` of a local time shows this time, or,
  where the clock skips it, an hour more (`DatesAre`), and never skips a midnight (`Midnights`).
* A date axis is a function of the number of steps. If it gets later with each and by no
  less than the divisor by which `getDateAxis` bounds their number (`Onward`), then the
  marks are in order and those in the window are all that are kept (`AxisMarks`). What remains is
  one lemma for each kind of placement: up to the hour, marks are a fixed time apart and
  the hour is divided by them, whatever the offset (`FixedAxis`); two hours to a week, they
  are dates on a lattice of local times, an hour off the lattice where one is skipped
  (`LatticeAxis`, `HourAxis`, `DayAxis`); months are counted in the calendar (`MonthAxis`). On
  the other side `NiceTimesAre` shows that the nice times of the property, which it looks for
  on the clock and not by counting, are those whose local time is nice; `NoneMissed` joins the two.

Assumed are `TicksAssumption`, `ClockAssumption` and `FrameAssumption`. The second is what the proof
asked for: where a clock is put forward at midnight the day begins at 1:00 and the code marks that,
and a shift by half an hour moves marks off the hour. Clocks like those of Havana and
Lord Howe are therefore not covered.

`ChartPaintProofs` proves for every chart, any number of rows, any gaps and any options:

| theorem | statement | property checked by |
|---|---|---|
| `PaintedIsOfNow` | `Spec => []PaintInv` | – |
| `LinesJoinNeighbours` | `Spec => []StrokesJoinNeighbours` | `ChartPaint` |
| `DroppedCallsAreNotMissed` | `Spec => []FastPathLooksTheSame` | `ChartPaint` |

* `PaintInv`: layout and paths are those of the data of now, and the rows are in the order of
  their x, which a chart that stacks needs to interpolate.
* A value has a place that is a number, and a missing value has none (`IsPlace`). On a stacked
  chart the place is at the height of all the series below, so this rests on `stackPoints_`
  giving every known value a height (`StackIsTable`), series after series (`LayersAreTables`).
* `PenIs` is the invariant of the loop of `_drawSeries`: when the pen has passed row i, it has
  drawn just the spans that end up to there, every value up to there is a dot or is touched by
  a line (perhaps one that is still to come), and the pen is up unless there is a value that
  only rows the iterator skips have followed (`Current`); then it is where that value is, and
  it is the end of the path. Without the last part, what `lineTo` draws would be anything. One lemma for
  each kind of row: `PenSkips`, `PenLifts`, `PenGoesOn`. The look-ahead of the iterator says
  whether a line is to come (`NextIsTouched`).
* The pen after every row is a recursive function; that there is one is `RunsExist`, and that `PenIs`
  holds of each is proved by the first row at which it would not (`PenDraws`).

`DroppedCallsAreNotMissed` is about two loops, one behind the other: that of `_fillPlotter`, which
makes the calls, and `addAction`, which drops most of them.

* `Shaped` is what the second needs of the first: the x of the calls never goes back, only the
  first call may have none, and a `moveTo` comes right before a `lineTo` in the same place, and
  after a line to the same height. `FillIs` is the invariant that gives it: no call is right of
  the rows to come, there is a point to go on from after every value, and after a gap the pen is
  on the axis (`FillEnds`, `FillReaches`). Of two missing values in a row the second would add
  a call to nowhere in the middle of the path; there `Shaped` is false, and so is the theorem.
* `fillPlotter` goes through the series from the last to the first, and `point` and `newYs` outlive
  a turn of its loop: what is carried over is typed (`LowsAreTyped`), and the area of a series
  does not depend on more than that.
* `ProxyAt` is the invariant of the proxy: `pending` is one run of calls in a column of pixels, all
  before it were sent, and what was sent has (`Out`) just the columns there are, the lowest and
  highest call of each, every line over more than a column, and the last call before a
  gap. A column goes out whole or without what lies between its extremes (`CompressedIs`),
  and the first and last call of a column matter only next to a gap (`GapsSeen`, `ColumnFlushed`).
* The canvas passes over calls to nowhere (`SeenIs`), and what is left has the same lowest and
  highest call in every column (`LooksTheSame`).

Assumed is `ChartsAssumption`: values are whole numbers, `null` or `NaN`, which are no numbers, and
x never goes back from one row to the next.

**Model-checked only:**

* `AreasFit` of `ChartPaint`: an area is a sum, by a fold of the library, of products of two
  variables over a path. What the fold makes of a path that grows is an induction over data,
  and the products are beyond the arithmetic of the SMT solver.
* `ConfigSaved`, which does not hold, and the liveness properties `VerdictComes`, `AutomaticAp` and
  `WakeEnds`: they need fairness and `ENABLED`, which the proof system does not support.

## 5. What is not modelled

* The text of payloads and pages, logging, LEDs, GPIO, ADC and I2C. A payload is
  its fields (`Body`), or `Garbled` when `json.loads` refuses it.
* Figures: forecast, trend, colours, voltage normalisation, CSV export. They read
  what is stored and change nothing; their date windows are on the plan.
* `url_decode` and `unquote`; on the plan.
* The supervision of the listener by the web process (`watch_listener`), on the
  plan. `Restart` in `Listener` stands for what it leads to.
* Of the charts: the legend's and the annotations' HTML, colours, dash patterns, number
  and date formats; the tables of options (`dygraph.js:3259-4053`) and their lookup;
  logarithmic axes and their marks, marks closer than a minute or wider than half a
  year; a second y-axis with a range of its own; loading by XMLHttpRequest, which
  `graph.html` does itself; animated zooms; clicks on points; `destroy`.
* Interlocks and signatures of the MQTT/UDP library, which nothing here uses.
* Two C devices or two listeners: the parts have no shared state but those above.

## 6. Plan

Done, in this order: `ReadingLog`, `Listener`, `Server`, `Wifi`, `ApConfig`,
`Firmware`, `Wire`, `MicroPython`; the chart modules `ChartData`, `ChartView`,
`ChartScale`, `ChartGesture`, `ChartSelector`, `ChartPaint`, `ChartTicks`,
`ChartFrame`; and the proofs of section 4.

To come, the most important first:

1. `Supervision`: web process, child, container. Properties: a listener that died
   is running again in the end; a web process that fails to start while its child
   runs (the child is not a daemon) is the case to look at.
2. `Throttle`: `throttle_me` with its two units of time, against a reference that
   limits the rate.
3. Operators checked against a reference: `Crc8` (with `Bitwise`, in a module
   without theorems), `UrlDecode` with the cut of the query value, `Windows` for
   CSV, forecast and refresh.
4. `Interlock`, last.

New theorems belong into the eight modules there are, or replace one.
