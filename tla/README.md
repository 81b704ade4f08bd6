# TLA+ verification of the water pump manager

The program collects the status messages of a water pump from a Bluetooth mesh
bridge, keeps the newest values in shared memory, logs a row whenever the pump's
counter or its alarms change, and answers the requests of a web server. This
directory holds TLA+ models of it, TLC configurations that check them on small
instances, and TLAPS proofs of their safety properties and of the refinement for all sizes. It follows the
source in `../src` (about a thousand lines beside the vendored sqlite).

Run from this directory:

    tlc -workers 2 -config pump_log.cfg MCPumpLog        # any run of PROJECT.json
    tlapm LogTableProofs.tla                             # any *Proofs module

## 1. The system

Two processes, created by `fork` in `main` after the shared memory, the database
connection and the socket to the bridge exist:

    UART server --stream socket--> parent --shared memory--> child --stream socket--> web server
                 <--BLE_send-----    |  \--- sqlite log.db ---/  |
                                     +------- BLE_send <---------+

| component | state | operations |
|---|---|---|
| bridge input (`main.cpp`) | the socket, the receive buffer `mesh2pc_msg`, `alarm(20)`, the stack of running signal handlers | `bridge_handler` under SIGIO, `SigStopHandler` under SIGALRM |
| BLE messages (`ble_messaging.cpp`) | the pump's mesh address under `ble_mutex`, the transmit buffer | `BLE_message_exec`, `BLE_send` |
| shared memory and row assembly (`up2web_comm.cpp`) | `tShared_mem_st` under `pump_mutex`, the flags `db_new_row_fgs` | `InitMemory`, six `Update*`, the first half of `DB_AddRow` |
| log table | `logtable` in `log.db` | `DB_Open`, the four statements of `DB_AddRow` |
| snapshot | reads the shared memory | `Serialize` |
| web server (child) | listening and client socket, request buffer | `Up2webCommPrc` |
| log queries | none; reads `logtable` | `DB_ServeTableRequest`, `DB_ServeAlarmsRequest`, `DBreq*` |
| lifecycle (`main`) | `stop_flg`, the child | `fork`, SIGINT, SIGTSTP, `wait` |

All work of the parent is done inside signal handlers. The main program only
waits in `fgets` and sends a test command for every line typed.

### What is hard in it

* **Handlers interrupt each other.** SIGIO and SIGALRM have empty masks and both
  run `bridge_handler`; one buffer, one set of flags and one mutex serve both.
* **Signals are not messages.** SIGIO does not queue, a read takes all that waits,
  only the first message of a read is executed, and a handler may find nothing
  left and sleep in `read`.
* **The row is collected over many messages** in any order, while the values change.
* **Errors are passed over.** A failed read executes the old buffer; a failed INSERT
  loses a row whose flags are cleared; a failed prune statement leaves the log larger.
* **The log is pruned by what was true.** A handler counts the rows, finds the lowest
  id and deletes in three statements, and another handler may do the same in between.
* **The process stops anywhere** between the statements of `DB_AddRow`, and starts
  again with what the file holds.
* **Two processes share locks, a connection and a socket**, and stop at different times.

`PROJECT.json` lists the hazards line by line, with the properties that cover them.

### What makes each component correct

* bridge input: no input is forgotten, the watchdog is never lost, every handler
  ends and rearms it, and nested handlers have the effect of handlers in sequence;
* row assembly: a row is fresh (nothing in it is older than the change that began
  it), no change of a trigger is forgotten, a message executed again changes no value
  (it dates the alarms anew, if it was theirs), what is stored can be printed;
* log table: ids without gaps and never reused, a bounded size, and no deletion of
  one of the newest `MAXLOGROWNUMS` rows, whatever fails;
* web server: every request is answered once, a client may come and go at any time;
* queries: the rows returned are the ones a reference definition selects;
* snapshot: the values of one answer belong together, and a request for it is answered;
* lifecycle: when the parent is told to stop it ends, and not before its child;
* together: the newest row of the log is what the memory holds.

## 2. What is modelled

| module | what it is | source |
|---|---|---|
| `RowAssembly` | the abstract machine of the parent: one action per complete handler | `ble_messaging.cpp:36-83`, `up2web_comm.cpp:178-232`, `301-312`, `main.cpp:26-40` |
| `BridgeSignals` | extends it with the socket, the signals, the timer, the mutex and a stack of handlers that run statement by statement | the same, and `main.cpp:50-85`, `126-147` |
| `LogTable` | `DB_Open` and the statements of `DB_AddRow` with failures and restarts | `up2web_comm.cpp:266-298`, `313-348` |
| `LogQueries` | extends `LogTable` with the requests the child answers from it | `up2web_comm.cpp:371-568` |
| `WebChild` | the child's loop and the web server as its client | `up2web_comm.cpp:53-175`, `ble_messaging.cpp:31-43`, `84-107` |
| `Processes` | parent and child with their shared memory and locks, the signals, and the ways to stop | `main.cpp:50-161`, `ble_messaging.cpp:16-43`, `84-107`, `up2web_comm.cpp:29-49`, `217-225`, `235-259` |
| `PumpLog` | composes `RowAssembly` and `LogTable`, with restarts | `main.cpp:88-91`, `up2web_comm.cpp:301-349` |
| `NestedLog` | composes `BridgeSignals` and `LogTable`: the statements of `DB_AddRow` in handlers that nest | `main.cpp:26-67`, `up2web_comm.cpp:266-348` |
| `RowAssemblyProofs`, `BridgeSignalsProofs`, `LogTableProofs`, `NestedLogProofs`, `LogQueriesProofs`, `PumpLogProofs`, `WebChildProofs`, `ProcessesProofs` | theorems about the module each is named for | |
| `MC*` | instances for TLC | |

### RowAssembly

`smem`, `last_time`, `db_new_row_fgs` and `mesh2pc_msg` are the program's variables.
The six bits of `new_row_fgs_en` are a set of fields, and `NEW_FULL_ROW_MSK` is
`Field`. A message is a pair of a field and a value: its opcode and its payload.
The six `Update*` functions differ in two respects only, which are the constants
`Trigger` (counter and alarms begin a row) and `Float` (values that are not normal
floats are stored as 0); `Alarm` is the trigger that also takes the time.
`Receive(m)` is one run of `bridge_handler` that read a status message of the right
length, `ReceiveOther` one that read anything else (both still call `DB_AddRow`), and
`Replay` one whose `read` returned 0 or -1: there is no early return, and the old
buffer is executed again. `offered`, `clock`, `seen` and `changes` are history: the
rows formatted for the INSERT, the messages received, when each field was last
received, and when a trigger arrived with a new value. `clock` counts messages. `last_time`, which the code
sets to the wall clock, is only told from the time before it: every alarm message flips it
(`Restamped`), also one that a `Replay` executes again. So a failed read dates old alarms
anew, which `ReplayOnlyRestamps` says; no field, row or row in progress changes with it.

### BridgeSignals

It extends `RowAssembly` and runs the same operations statement by statement inside
a stack of handlers: `Read`, `Dispatch` (type, address, opcode), `Fetch` (the value),
`Lock`, `Update`, `Unlock`, then `DB_AddRow`: `Check`, `Reset`, `Lock`, `Snap`,
`Offer`; then `Rearm`. `Deliver` pushes a handler, unless one of the same signal
runs, for which the kernel masks it. Messages carry their number, so a value stored
late is still known by its age. Of the kernel and of the rest of the program the model has:

* SIGIO is one bit; it is raised for every write, except that a reader asleep in the
  socket may be woken without it;
* `read` on the blocking socket sleeps while nothing waits; interrupted by SIGIO it
  fails with EINTR (`sa_flags` 0), by SIGALRM it is restarted (`SA_RESTART`);
* the stream has no frames: `Read` takes all that waits, and the code looks at the
  first message only. A chunk is at most 255 bytes, about fifteen messages; a
  message cut by that limit is not modelled;
* while `Contended`, a handler may find `pump_mutex` held by the child's `Serialize`, or
  `ble_mutex`, which `UpdatePPmeshAddr` takes for a new address, held by a `BLE_send` of
  `main` or of the child (`SleepOnMutex`). It is then `asleep`, for as long as the others
  like: the child's unlock wakes nobody in the parent. A signal that is not masked wakes it
  (`Deliver`), and it tries again when the handler above it has returned. `Processes`
  has the sections that the others are in.

The socket is empty at first: messages between `connect` and O_ASYNC, which raise no SIGIO,
belong to the start, which is left out.

The value fetched from a buffer that a nested handler has filled with a message of
another kind is any value. `Offer` stands for all statements of the database here;
`NestedLog` runs them one by one.

Refinement: `ImplementsRows` maps a handler to a `RowAssembly` step at its `Read`:
while a message is held and not applied, or a row is due and not offered, the mapped
state already has the effect (`AbsSmem`, `AbsFlags`, `AbsOffered` and the others).

### LogTable

The table is its set of ids. `INTEGER PRIMARY KEY` without `AUTOINCREMENT` gives
`NextId`. Each statement is one sqlite transaction, so an action; each may fail
(`InsertFails`, `PruneFails`: the file is locked by the child's query, full, or has no
table, because `DB_Open` goes on when its CREATE fails). `Crash` stops the process
between any two statements and `Open` starts it on the same file. `issued` and
`skipped` are history: the highest id given, and the prune passes that failed or were
cut short, all of them, so that the bound of `SizeBounded` is an upper one: a later pass does
not lower it.

### LogQueries

`data` gives the rows of `LogTable` their date, counter and alarms. `FindBase` is the
first SELECT of a request (`DBreqGetBaseID`), `Select` the second
(`DBreqRetriveData`), and `ParentStep` any step of `LogTable` before, between and
after them. Every error return gives the same answer, `Error`. The operators follow
the clauses of the SQL text: `Candidates` and `BaseId`, `InRange` (WHERE),
`FirstOfCounter` (GROUP BY with MIN), `AlarmChanges` (the join), `Limit` (ORDER BY
and LIMIT). An answer is a set of ids. `Amount` keeps the width of `int`, to which
the JSON integer is narrowed: `IntHalf` is 2^31. `ParentStep` assumes that the counter and the clock do
not run backwards; a pump that is reset, and the hour repeated when summer time ends,
are outside the model. `DEFAULT_REQUESTED_ROW_AMOUNT` is used nowhere: a request
without an amount, as in `readme_vpq.txt:59`, gets no rows.

### WebChild

`pc` is where the child is in its two loops, `client_fd` the connection it accepted
last. `Accept`, `Read`, `Eof`, `Answer` and `Command` are the code between two blocking
calls; `Connect`, `Send`, `SendRest` and `Disconnect` are the client's. A snapshot takes
`pump_mutex` and a command `ble_mutex`: the child may find it held by the parent and sleep
(`SleepOnMutex`), and only a signal need wake it (`Wake`). `bridge` is the UART server as
`BLE_send` finds it: its address unknown, known, or its end of the socket closed (`Hangup`),
and then a command ends the child by SIGPIPE. Of the kernel:
a read of a stream takes all that waits, so a chunk may be part of a request or several
(`OneObject`); what a client wrote before it closed can still be read; a write to a
peer that has closed raises SIGPIPE. A tag without an answer is acted on by
`Command`; `BLE_send` is there what it does: nothing, a message to the known address, or
the end of the process.
An answer is written in one step: a client that does not read, until the socket is
full, is not modelled. The client does as it likes; `patient` records whether it has
waited for every answer so far, which some properties require. Requests are shorter than the buffer of 8192 bytes.

### Processes

A context is something that executes: `main`, a handler of SIGIO, one of SIGALRM, the
child. `frame` gives each its label and the critical sections it has yet to go through;
`stack` says which of the parent's contexts interrupted which, and only the last one
executes. `BridgeSignals` follows the values through the nested handlers; `Processes`
leaves most values out and has what `BridgeSignals` has not: two processes, two mutexes
and their ends.

* Sections are `UpdatePPmeshAddr` (`Save`), `BLE_send`, `UpdateAlarms` (`SetAlarms`,
  `SetTime`), the other updates and the text of a row (`Row`), and `Serialize`
  (`GetTime`, `GetAlarms`). `TryLock` enters one, or sleeps.
* A `std::mutex` is private to a process. An unlock wakes nobody: the sleepers of the
  other process are not found, and in the parent a sleeper is the innermost context, so
  its holder cannot run. A signal wakes the sleeper it is delivered to (`Woken`).
* Alarms and their time are told apart by the parity of the update that wrote them.
* `Deliver` may end `fgets`, `wait` and `read` with EINTR, when the signal is SIGIO. The
  alarm is taken to run whenever no SIGALRM handler does; `BridgeSignals` has the rest.
* The socket to the UART server stays O_ASYNC, with the parent as its owner, after the
  parent's `close`, because the child keeps it open. So SIGIO still comes during `wait`.
* `CtrlC` reaches both processes, `KillParent` only the parent; SIGINT ends the child
  where it is, possibly within a section (`Abandoned`). `CtrlZ` sets `stop_flg` and stops
  the child, which `Continue` resumes. `ChildPipe` is the SIGPIPE that `WebChild` has in
  detail, and `Hangup` the server's end of the other socket.

The start is left out: the state begins when both processes run and every handler is
installed. So are the bytes of a command.

### PumpLog

Each run of `bridge_handler` is a step of `RowAssembly` (`Handle`) and, when it has
formatted a row, the statements of `LogTable` (`Store`, `Prune`), any of which may fail.
The module extends both, so that what is proved of them can be used. `Stop` stops the process at any point, `Start` runs `InitMemory` and `DB_Open` of the
next: the file stays, the memory is what `InitMem` says. `data` gives the rows of the
log their values. `lost` records that the last INSERT failed: no later message repeats
it, so the log is behind the memory until the next change, and `LogCurrent` says so. It
also says that after a start the log may tell old alarms until the first change.

### NestedLog

The handlers of `BridgeSignals` with the statements of `LogTable`: `Store` is the
handler's `Offer` and the INSERT, `Prune` one of the statements after it. `pc` and
`min_id` belong to the handler that runs; `Nest` starts another one and puts them
aside in `outer_pc` and `outer_min`, `Return` brings them back. No more is needed,
because two handlers at most exist. A statement is atomic: what happens when a handler interrupts
sqlite itself and uses the same connection is left out. So is a crash, which `LogTable`
and `PumpLog` have; instead the run begins with any log an earlier start can have left,
also one that is over its limit because prune passes were missed (`Missed`). The band is assumed to be more than one row and less than
the limit, as it is in the code (100 and a million).

## 3. What the runs show

| run | shows |
|---|---|
| `row_assembly` | in sequence: `FreshRows`, `NoChangeForgotten`, `RowsParse`, `ReplayOnlyRestamps` |
| `bridge_steady` | without the timer: `FreshRows`; `NoSelfDeadlock` (handlers never wait for each other at `pump_mutex`, only for the child); `ImplementsRows` (every safety property of `RowAssembly` holds of the interleaved program); `HandlersRearm` (a handler ends and rearms the timer, or sleeps on a mutex that no handler holds) |
| `bridge_timer` | handlers nested in any way: `InputAnnounced`, `WatchdogArmed`, `EveryMessageTaken` (what is sent is read, unless a handler comes to sleep on a mutex) |
| `bridge_fresh` | violation: nested handlers put a stale value into a row |
| `nested_timer` | `DB_AddRow` in nested handlers: `Contiguous`, `IdsNeverReused`, `NestedSize` (the log grows no further than with handlers in sequence), `BandRetained` (a prune by a count that is out of date takes one band at most of the newest `MAXLOGROWNUMS` rows) |
| `queries` | `TablePage`: a table answer is a page of distinct readings next to the base; `LastRowAnswered`: rows added and pruned between the SELECTs lose the newest reading only when a whole log was added; `AlarmsPage`: the join on consecutive ids misses no change of the alarms; `EarliestFromGroupEdge`: asked downwards, or upwards from the first row or from a reading, each reading is told by its earliest row; `AnswerBounded`: no answer is longer than the maximum |
| `queries_earliest` | violation: asked upwards from a row inside a group, the query tells a reading by that row |
| `web_server` | `ActedInOrder`: no request is acted on twice or overtaken, over reconnections and requests in pieces; `ServerSurvives`, `PatientServed`, `CommandsSent`, `PatientMayLeave`: a client that waits for its answers is served, its commands are sent on, and it may come and go, unless the child sleeps on a mutex or the UART server has gone |
| `proc_stop` | two processes that are stopped and end anywhere, two pumps, no timer: `SnapshotConsistent`; `AddressCurrent`: commands go to the pump that was heard last; `StopTerminates`: past its `fgets` the stopped parent ends once its child has |
| `proc_wait` | violation: SIGIO interrupts `wait`, and the parent exits before its child |
| `proc_snapshot` | violation: the child sleeps on a mutex that is free |
| `pump_log` | with failures and crashes anywhere: `Contiguous`, `SizeBounded`, `Retention`, `IdsNeverReused` of the log, and `LogCurrent`: failing statements and restarts never leave the newest row at odds with the memory, but for the last INSERT itself |

**Bounds.** `row_assembly`: two triggers and one other field, two values and one that
is not a number, seven messages: two complete rows and a change inside, before and
after a row. The other floats and the timeouts behave as the third field does.
`queries`: two rows and a band of
one, so at most five rows after failed prunes; five kinds of row, in which the date, the
reading and the alarms change apart and together; arguments inside and outside the log,
both directions, amounts from none to three, above the maximum, and a negative one, with
three bits for an `int`. `web_server`: two connections, one served or closed while the other
is queued, which a backlog of one never refuses; three requests, on one connection or both. `bridge_*`: the alarms and one more field,
which make a row of two messages; two messages waiting in the socket; five messages, or three
in `bridge_timer`, whose handlers nest: one for each of two handlers and one that comes later. `bridge_steady` and
`bridge_timer` are `Contended`. Two handlers can nest and no more, since a signal is masked in its own
handler. `nested_*`: the alarms are the only field, so that each change is a row; a limit
of three rows and a band of two; three messages, one of them for the handler below and two
for handlers that prune before it goes on, which takes the log down to where `BandRetained`
is exact; seven ids, so logs below, at and over the limit at the start. `proc_*`: one pump, or two where their addresses matter; the state is finite
without further bounds, because only the first message of a read counts and times are
parities. They run without the timer; that `SnapshotConsistent` and `AddressCurrent`
(for one pump) also hold of nested handlers is proved only. `pump_log`: the two triggers, four messages in each start, any number of starts,
a limit of two rows and a band of one, four ids: prunes, failed ones with a later one after
them, and rows on both sides of a restart. Larger bands and limits are in `nested_timer`.
The type invariants of `RowAssembly`, `LogTable` and `BridgeSignals` are checked as parts of
`PumpTypeOK` and `NestedTypeOK`.

**Fairness.** A handler that can run runs, and a raised signal that is not masked is
delivered: the kernel guarantees both. Nothing makes the device send or the timer
expire. The child runs whenever it can; the client need do nothing. A handler or a child that
sleeps on a mutex is owed nothing: no unlock need come, and none would wake it. Nothing
keeps the others from the mutexes either, so that every liveness property but `StopTerminates`, which has the
sections of both processes, says what holds unless someone comes to sleep. `bridge_steady` and
`proc_*` set `TimerFires` to FALSE, which says that the device is never silent for 20
seconds. In `Processes` fairness is strong for `Main` and the handlers, since each
delivery disables the interrupted context for a while: messages take longer to come than
to handle, so that an interrupted context gets its turns. Deadlock is not checked in
`bridge_*`, `nested_*`, `web_server` and `proc_*`: when the device or the client has sent all, or both
processes have ended, the program rightly does nothing.

**Violations.** `bridge_fresh` needs the timer to expire while a SIGIO handler runs, or a
message to arrive while a SIGALRM handler does. `queries_earliest` needs two rows with one
reading, which an alarm makes, and a request upwards from the second. `proc_wait` needs a message after the
parent left its loop, told to stop by a signal that does not end its child.
`proc_snapshot` needs a request while a handler is in a section, and no signal to the child.

**Exceptions stated by the properties.** They are behaviours of the code that are not
violations above:

* `patient` in `WebChild`: requests that are read together are dropped together, and a
  client that closes before its answer is written ends the child by SIGPIPE;
* `AnswerBounded` leaves out amounts that are negative as an `int`: sqlite takes a
  negative LIMIT for none;
* `EarliestFromGroupEdge` leaves out requests upwards from an id or a date, which
  `queries_earliest` refutes;
* `EveryMessageTaken`, `HandlersRearm`, `PatientServed`, `CommandsSent` and `PatientMayLeave`
  leave out a handler or a child that sleeps on a mutex, as `proc_snapshot` shows the child
  to do, and the last three a child that a command to a UART server that has gone
  ended (`Stuck`); so `ServerSurvives` is stated while the UART server is connected;
* `Retention` is stated of handlers in sequence (`pump_log`, and `SteadyRowsAreRetained` for
  `NestedLog` without the timer): with the timer a handler that has counted
  the rows and is interrupted by handlers that prune the log deletes another band, though
  none is to be deleted any more. `BandRetained` says what is left then;
* `HandlersRearm` is checked without the timer: with it, a handler may wait for the
  mutex of the handler it interrupted, and both stay there; the SIGALRM handler, which is
  to "simply try read", may also sleep in `read` with no timer running;
* `StopTerminates` leaves out `fgets`, which SIGINT restarts, so that the parent notices
  only with the next line or SIGIO, a child that is stopped, and a parent asleep for good;
* `AddressCurrent` leaves out two pumps with nested handlers, where the address saved last
  and the one taken for saved may differ.

## 4. What is proved

TLAPS proves every invariant and every action property that a passing run checks, the
refinement, and the type invariants of `RowAssembly`, `LogTable` and `BridgeSignals`, which
are parts of those of the modules that extend them, for all values of the constants: sets of fields and values, limits,
bands, connections, requests, addresses, the width of `int`. `MaxMsgs`, `MaxId` and the
other bounds are arbitrary, so behaviours have any length. Each module has an inductive
invariant, a lemma for each action, and theorems that follow from them.

* `RowAssemblyProofs`: `TypeCorrect`, `RowsAreFresh`, `ChangesAreKept`,
  `ReplayRestampsOnly`, `RowsAlwaysParse`. `FreshRows` is not inductive: the strengthened
  invariant adds that a row in progress was begun by a change younger than the last
  row, that each field already flagged was received since, that a buffered message has
  been applied already (which is why a replay stores nothing new), and that the flags are never
  the full mask between two handlers. The replay lemma carries the rest: once a message
  is applied, applying it again finds no change and a flag already set.
* `BridgeSignalsProofs`: `HandlersTyped`, `InputIsAnnounced`, `WatchdogIsArmed`, for any
  nesting of handlers. The invariant adds what a handler holds at each label
  (`FrameOK`); the rest is one lemma about a step of the innermost handler (`TopStack`),
  in which the mutex is kept, taken or let go of (`Holding`).
  `HandlersImplementRows`: without the timer the handlers, statement by statement,
  implement `RowAssembly`. That needs `SerialInv`: at most one handler runs (`OneByOne`:
  SIGIO masks itself and nothing else comes), and what it has taken out of the buffer
  is what the buffer still holds (`InHand`). Then `Read` is `Receive` or `ReceiveOther`,
  and every other step leaves the mapped state as it is. Together with
  `RowAssemblyProofs` this carries `FreshRows`, `NoChangeForgotten`, `RowsParse` and
  `ReplayOnlyRestamps` over to the mapped state of the interleaved program.
  `SteadyRowsAreFresh` proves `FreshRows` of its own state, that is, of the rows as they are
  formatted: `FreshInv` says at each label which flags and values of the row in progress are
  from after the change that began it. `SteadyNoSelfDeadlock` is `OneByOne` applied to the
  mutex, the part of `HandlersRearm` that the handlers themselves are answerable for. With the timer all three are false; `bridge_fresh`
  shows it of `FreshRows`.
* `LogTableProofs`: `LogTypeCorrect`, `IdsAreContiguous`, `SizeIsBounded`,
  `RowsAreRetained`, `IdsNameOneRow`. The invariant says that the ids are an interval
  ending with the last id issued; its length then follows from its ends, and the DELETE
  removes exactly a band. `Learnt` carries from statement to statement what
  `DB_AddRow` has found out.
* `NestedLogProofs`: `NestedTyped`, `NestedIdsContiguous`,
  `NestedSizeIsBounded`, `NestedIdsNameOneRow`, `BandsAreRetained`, `SteadyRowsAreRetained`.
  What `Learnt` says in `LogTableProofs` is not true any more of a handler that goes on after
  another one. `Known` is what is left of it: the log was at its limit plus a band when the
  handler counted, and a nested prune takes a band only off a log that is at this size again,
  so `MaxRows` rows remain; the band found by its lowest id is still the oldest, or gone
  altogether, because the ids stay an interval and are deleted by whole bands. `Fresh` is
  `Learnt` for a handler nobody has interrupted. `Due` counts the rows still to be made room
  for, and gives `NestedSize`: a handler whose band is gone owes none. `Band < MaxRows` is
  needed lest a late DELETE empties the log and ids begin at 1 again. The lemmas about
  the log are those of `LogTableProofs`, applied to one statement; the steps of the handlers
  come from `BridgeSignalsProofs`.
* `LogQueriesProofs`: `QueryTyped`, `PagesOfReadings`, `PagesOfAlarms`,
  `LastReadingIsAnswered`, `EarliestRowsFromGroupEdge`, `AnswersAreBounded`. First what the
  clauses return of any log: LIMIT takes the nearest of a set (`LimitTakesNearest`), and
  as many as it may (`LimitSize`, by counting the ids before each one taken); GROUP BY
  takes a row of every reading (`EarliestTaken`). Then the interval of `LogTableProofs`:
  the row logged before another has the id before, so the join misses nothing. Then what
  is left of the choice of a base after the parent went on: the base is still there or a
  whole log was added (`BaseKept`), the first row is still before all others
  (`BaseFirst`), and the rows before a base found by its reading still have smaller ones
  (`BaseCounter`).
* `PumpLogProofs`: `PumpTyped`, `PartsKeepTheirPromises`, `LogIsCurrent`. Every step of the
  composition is a step of one part or a start of both, so their invariants hold of the
  whole (handlers run one after another here; nested ones are in `NestedLogProofs`); `Newest` adds that the newest row of the log is the row last tried, unless its
  INSERT failed.
* `WebChildProofs`: `TypeCorrect`, `RequestsInOrder`, `PatientIsSafe`. `ActedInOrder` is
  inductive only with `WaitingIsLater` (what is still to be read was sent after all that
  was acted on), which in turn needs to know on which connection a request, its pieces and
  its unwritten rest can be (`SentOK`, `PiecesOK`) and which connections are waiting,
  served and closed (`LinksOK`). `LeftAnswered` gives `ServerSurvives`: a patient client
  that has closed had its answers, so nothing is left to be written to it, also by a child
  that slept before the write; and a command ends the child only when the UART server has
  gone.
* `ProcessesProofs`: `TypeCorrect`, `SnapshotsConsistent`, `AddressesCurrent`, with and
  without the timer. The invariant adds what each context has yet to do at each label
  (`ShapeOK`), that a mutex is locked while a context is inside (`LockDiscipline`), that alarms and time differ only while a handler is between the two
  (`HalfWay`), and that an address still to be saved is the one already taken for saved
  (`AddressOK`), which needs that without the timer only one handler exists.

Assumptions: those named in `RowAssembly` (the alarms are a trigger, floats are not
triggers, the initial memory holds normal floats), in `LogTable` (limit and band are
positive), in `LogQueries` (rows and requests have their fields; `None` is no request),
in `BridgeSignals`, `WebChild` and `Processes` (bounds are numbers, model values are
distinct), in `NestedLog` (`1 < Band /\ Band < MaxRows`). `HandlersImplementRows` and the
theorems named `Steady...` assume `~TimerFires` as `bridge_steady` does.

Model-checked only: the liveness properties `EveryMessageTaken`, `HandlersRearm`,
`PatientServed`, `CommandsSent`, `PatientMayLeave` and `StopTerminates`. They rest on
fairness, so on ENABLED, which is out of the prover's reach. What the four violations show
is a counterexample and needs no proof.

## 5. Not modelled, and the plan

Left out for good:

* the internals of sqlite and jansson. The vendored `sqlite/` is 99 % of the lines in
  `../src`; what the program takes from it (a statement is atomic, how an id is chosen,
  what the clauses of its SELECTs mean) is in `LogTable` and `LogQueries`;
* text: the JSON of the answers, the choice of columns, the logs, the bytes of a command;
* the copy loop of the timeouts (`ble_messaging.cpp:71`), which runs `sizeof(dat)` times
  over an array of four and so writes past its end; the models take the four values it
  is meant to copy. So with the zero that ends a request which fills its buffer;
* a sqlite connection that two processes use after `fork`, and library calls in signal
  handlers that are not safe there: their outcome is undefined, and the models take each
  call to do what it promises, or to fail;
* the start: signals that arrive before their handler is installed, and the set-up of
  the sockets, which succeeds or ends the process.

Every function of the program's own source that changes state is an action of some
module, and every safety property of a passing run is a theorem. What could be added:

1. `Processes` with two pumps and the timer: what can still be said of the saved address
   when handlers nest.
2. `LogQueries` over `NestedLog`: a row formatted by the handler below is inserted after one
   that a nested handler formatted later, and the log is then not ordered by its counter,
   which `ParentStep` takes it to be.
