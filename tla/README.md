# INFO6350: what the apps keep, and what they promise

This directory is a verification project for the course apps of this
repository and for the part of the Firestore client that the last of them is
built with. The apps are Swift programs for a console or for iOS; most of them
are successive versions of one application about logistics (items, locations,
and orders that carry items between locations), the last of which keeps its
records in SQLite and fetches them from a web service. The final project is an
app for posts; its own code is little more than screens, and what makes it
work, the Firestore C++ client, is in the repository as source. The TLA+ modules
here are translated from that code. TLC checks small instances of them; TLAPS
proves the main results for all values of the constants.

`FC/` below stands for
`src/Final_Project/Pods/FirebaseFirestore/Firestore/core/src/`.

## 1. The system

| Component | Source | State it keeps | Operations | Modelled in |
|---|---|---|---|---|
| Logistics app, storyboard version (Assignment 9) | `src/Assignment9/Assignment9` | three arrays in the main view controller (`ViewController.swift:12-14`), a copy of one of them in each list (`filteredResults`), the form's row number and draft order lines, the SQLite file | list, search, swipe to delete; forms to create and update items, locations, orders; quantities of an order's lines | `Logistics`, `Database`, `Lists`, abstractly `WriteThrough` |
| `DatabaseManager` | `src/Assignment9/Assignment9/DatabaseManager.swift` | three tables of an SQLite file | `saveRecord`, `updateRecord`, `deleteRecord`, `fetchRecords`, `saveRecords` | `Database` |
| Logistics app with a web service (Assignment 10) | `src/Assignment10/Assignment9` | the same, and two HTTP requests under way | the same, and the two completion handlers | `ApiFetch`, `Database` |
| Logistics app, modal views and SQLite (Assignment 8) | `src/Assignment_8/Assignment_7/Assignment_7` | arrays in the main view controller, each form's position of the record it fetched, the SQLite file | one modal view per operation: create, update, delete by typed id, departure dates, added items | `ModalForms`, `Database`, abstractly `WriteThrough` |
| Task board (Assignment 4) | `src/Assignment_4/Assignment_4/main.swift` | accounts with a counter each, an array of tasks, the last task id | a leader's menu and a member's menu | `TaskBoard` |
| Firestore client, write path | `FC/core/sync_engine.cc`, `FC/local/local_store.cc`, `FC/local/leveldb_mutation_queue.cc`, `FC/remote/remote_store.cc`, `FC/remote/stream.cc`, `FC/remote/write_stream.cc`, `FC/auth` | the mutation queues on file, the write pipeline, the stream and its timers, callbacks, the signed-in user, jobs on the worker queue | write, wait for pending writes, enable and disable the network, change of user, every event of the stream | `MutationQueue`, `WritePipeline`, abstractly `WriteOutbox` |
| Firestore client, listening path | `FC/core/sync_engine.cc`, `FC/local/local_store.cc`, `FC/remote/remote_store.cc`, `FC/remote/remote_event.cc`, `FC/remote/online_state_tracker.cc` | targets with resume tokens in memory and on file, the documents that match them, the aggregator, the online state | listen, stop listening, every message of the watch stream, timers, restart | `WatchChangeAggregator`, `Listening` |
| Firestore client, task executor and shutdown | `FC/util/task.cc`, `FC/util/executor_libdispatch.mm`, `FC/util/async_queue.cc`, `FC/api/firestore.cc`, `FC/core/firestore_client.cc` | tasks with a state and a reference count, the executor's tasks and schedule, the queue's mode, two mutexes | enqueue, schedule, cancel, terminate, clear persistence, dispose | `TaskExecutor`, `ClientShutdown` |
| Firestore client, the rest; other libraries; Posts app; Assignments 7, 6, 5, 3; storyboards | see section 5 | | | not modelled |

How the parts interact:

* **Handlers and arrays.** UIKit calls one handler at a time on the main thread.
  A list copies the main view controller's array when it appears and shows the
  copy; a form addresses a record by its *row number* in the array, never by its
  id. Everything is right as long as copy and array agree row by row.
* **Arrays and file.** Every change is made to the array first (a delete: to the
  file first) and then written to SQLite in a transaction of its own. Errors are
  printed and swallowed, and nothing is rolled back, so array and file may part.
  The file is read once, at the start (Assignments 8 and 9) or never
  (Assignment 10).
* **Orders and what they refer to.** An order embeds copies of its items and
  locations. Deleting an item or a location looks through the orders in memory;
  editing one changes no order.
* **Web service.** In Assignment 10 `fetchDataFromAPI` starts two requests and
  goes on; each completion replaces an array from URLSession's queue, without
  reloading any view.
* **Accounts and tasks.** On the task board a task names the account it is
  assigned to by its id; the account's counter is moved by whoever is logged in.
* **A modal form and the arrays** (Assignment 8). A form finds a record by a typed
  id in `Fetch`, keeps its *position*, and writes to that position in `Update`,
  possibly after further Fetches that find nothing.
* **The Firestore client's worker queue.** Everything that the Firestore client does
  to its state it does in an operation on one serial queue, so that a handler is
  atomic; between two handlers anything may come: a call of the app, a message, a
  timer, a change of user, a token that was asked for long ago.
* **Queue, pipeline, stream, backend.** A write is put into the user's queue in
  LevelDB and from there, up to ten at a time, into `RemoteStore`'s write pipeline; a
  stream that has shaken hands carries the pipeline's writes in order, the backend
  answers in order and *without ids*, and an answer is taken to be about the
  pipeline's first batch. Refused or applied batches leave the queue, and callbacks
  are called.
* **User and stream.** The credentials provider puts a change of user on the worker
  queue, and answers requests for tokens there too; `HandleCredentialChange` closes
  the stream and fills the pipeline from the new user's queue.
* **Targets, stream, views.** A query gets a target; `RemoteStore` watches all targets
  over one stream; the aggregator collects messages between two snapshots and
  counts answers that are still due, so that messages about an earlier watch of the
  same target are told from later ones; a snapshot moves documents, tokens and views
  forward together.
* **Threads of the app and the worker.** `Dispose` and `Terminate` are called from any
  thread while the worker runs; tasks are shared between the executor, libdispatch and
  whoever cancels them.

What is hard to get right, and hardly reached by a test: row numbers after
searching, deleting and creating; a copy that outlives the array it was made
from; writes that were swallowed, followed by a restart; a completion between
the two halves of a handler; a counter that drifts from what it counts; a token
that arrives for a stream that is gone or a user who is; a crash between a commit
and its answer, or between two steps of handling the answer; ids that are given
out again after a restart; timers against work that comes in; messages about a
watch that was given up; a task that runs, is cancelled and disposed of at the same
time; two waits that wait for each other. The list, at its lines, is under
`hazards` in `PROJECT.json`.

What makes each component correct:

* lists and forms: the record shown is the record changed or deleted;
* arrays: no id twice; file: what was written and not refused is what is shown,
  also after a restart;
* orders: cost, dates and lines fit together, and nothing they refer to is gone;
* task board: ids are never given out again; a started task is neither deleted
  nor reassigned; nobody with two tasks in DOING gets another;
* write path: no write is lost; each user's writes are applied in order, by that
  user's credentials; what callbacks are told is true; everything is settled in the end;
* listening path: a view that is current shows one version of the data; a query is
  brought up to date in the end; the client does not wait for ever;
* executor: no task is freed early or leaked, a cancelled task never runs, nothing
  runs after the end, and every call comes back.

## 2. The modules

### `Database` - the SQLite file
`db[k]` is the set of rows of table `k`. `saveRecord`, `updateRecord` and
`deleteRecord` are single transactions, each of which may be refused when
`IOMayFail`; the code goes on either way. `updateRecord` changes nothing when the
row does not exist, as GRDB's `update` throws then. The history variable `dirty`
holds the keys whose last write (or read) was swallowed, so that properties can
speak of all the others. GRDB itself is external: it is modelled by what its
`save`, `update`, `deleteOne` and `fetchAll` do for a table with an integer
primary key.

### `Lists` - Swift's array operations
`filter` and `removeAll` as one non-recursive definition (`Sublist`), `first(where:)`
(`FirstOf`), and `UniqueIds`. Appending and removing at an index are `Append` and
the community modules' `RemoveAt`.

### `Logistics` - Assignment 9
One action per handler.

| Code | Module |
|---|---|
| `ViewController.items`, `locations`, `logisticsOrder` | `mem["item"]`, `mem["location"]`, `mem["order"]` |
| navigation stack: main menu, list, form | `screen`, `kind` |
| `filteredResults`, `searchController.isActive` | `filtered`, `searching` |
| the form's `indexPath` and `vcMode` | `row` (0: create) |
| `tempSelectedOrderItems.items`; each cell's `quantity` | `draft`; `cells` |
| `viewDidLoad`, `generateDummyData` | `Init`, `Relaunch` |
| `viewWillAppear` of lists and forms, `addTapped`, `didSelectRowAt` | `OpenList`, `BackToList`, `viewWillAppear`, `addTapped`, `didSelectRow` |
| `updateSearchResults`, `searchBarCancelButtonClicked` | same names |
| `commit editingStyle`, `canEditRowAt` of the three lists | `deleteItem`, `deleteLocation`, `deleteOrder`, `commitDelete`, `canEditRowAt` |
| `createItem`, `updateItem`, `createLocation`, ... | same names; what the three forms share is `create` and `modify` |
| `btnIncreaseTap`, `btnDecreaseTap`, `cellForRowAt` | same names |
| `createOrder`, `updateOrder` | same names; `createOrderTraps` is the out-of-range picker row |

`picked` is a history variable: the id in the cell the user clicked. Which rows a
search text matches is left open, so `updateSearchResults` may show any part of
the array. An item's `value` stands for all its fields (an item whose picture is
encoded anew counts as changed), a location's `place` for its address. Dates are
instants to the millisecond, which is what a table keeps of them. Field
validation that only refuses an input is not modelled: the inputs enumerated are
those that pass it. A process may end between any two handlers.

### `WriteThrough` - what persistence promises
A set of records per kind that the user sees, changed one at a time, each change
followed by its write, and read back at a start. `Durable` is its promise. `Logistics`
implements it under the refinement mapping `view[k] = Range(mem[k])`,
`Rows[k] = Record(k)`, and so does `ModalForms`.

### `ApiFetch` - Assignment 10
The startup of Assignment 10 and the handlers that race it. `getAll(k)` is a
completion: enabled from the start of a request on, it replaces `mem[k]` and
touches nothing else. `fetchDataFromAPI` saves the arrays while the requests are
under way (`saveRecords`, in two steps, so that a completion may come before,
between or after). A handler that touches the items or the locations more than once is split at
each touch; no other main-thread step can come between its parts (`idle`), a completion can:

| Handler | Parts | Between them |
|---|---|---|
| `createItem`, `createLocation` | `checkId`, `appendChecked` | `checked`: the record |
| swipe on an item or a location | `commitDelete` (line 82 of `ItemsTableViewController.swift`: no order uses what the array has in the row), `deleteSwiped` (89: what it has there by now is deleted from the file), `takeSwiped` (95: the list's copy becomes the array) | `todo`, `swiped`: the row |
| `updateItem`, `updateLocation` | `modify`, `saveModified` (reads the row again and saves what it finds) | `todo` |

The five fields that an update sets one by one (lines 159-163) are one field of the model, `value` or
`place`, so a record of which a completion replaced some fields and not others does not occur in it. The orders
are the main thread's alone: a swipe on an order, `createOrder` and `updateOrder` are one step each (when a completion
comes after `createOrder` has seen that there are locations, the look-up either traps, which is a `Relaunch`, or finds one of
the new ones, as if the completion had come before). Row numbers that are out of
range by the time they are used end the process (`rowTraps`, `updateTraps`,
`cellTraps`, `createOrderTraps`). The history variable `overlaps` says what a
completion has overtaken: `"screen"`, a list or form that copied an array since
replaced; `"create"`, a create between check and append. It is cleared of `"screen"` only when a screen copies the arrays
afresh, so it also says of a swipe or an update whether a completion came between its parts. The search bar, dates and quantities are
those of `Logistics` and left out: an order is one item from one location.
What concurrent access to one Swift array may do besides
(memory is corrupted, the process ends) is covered only as far as the process
ends, by `Relaunch`.

### `ModalForms` - Assignment 8
One action per tap that changes something. `form` is the form on the screen, `found`
its `itemFoundIndex`, `locationFoundIndex` or `orderFoundIndex` (-99 is 0), which
`btnFetchTap` (`Fetch`) sets when it finds the id and leaves alone when it does not;
the history variable `asked` is the id of the last Fetch that found one. `Update` writes
to that position of the array and to the row with the record's id; before any Fetch
it traps, which is a `Relaunch`. What the code does not check the model does not
either: `UpdateDeparture` compares no dates, `Delete` looks through no orders. Forms that
only show or search change nothing and are left out.

### `TaskBoard` - Assignment 4
One action per menu entry. `session` is the account logged in. The two leaders and
two members of `main.swift` are `Leaders` and `Members`; ids a leader may type for
a new task that belong to no account are `TypedIds`. `onGoingTaskCount` moves as in
`updateTaskStatus`: up for DOING, down for anything else, on the account logged in.

### `MutationQueue` - the batches on file
`table[u]` is the set of batches in user `u`'s queue, each an id and a write (which
stands for the batch's mutations); `nextId` is `next_batch_id_` of the queue in use. `LoadNextBatchIdFromDb`
is one more than the highest id of *any* user's batches, so an id is given out again when
the last batches are gone. What an operator of this module "returns" is a set with one
element, so that no definition has to choose. Each operation is one LevelDB
transaction; the table survives a crash of the app (a loss of power, which may take
the last unsynced transactions, is not modelled).

### `WritePipeline` - from the user's call to the backend's answer
One action per handler on the worker queue.

| Code | Module |
|---|---|
| `write_pipeline_`, `is_network_enabled_` | `pipeline`, `network` |
| `Stream::state_`, `handshake_complete_`, `idleness_timer_` | `stream.state`, `.handshake`, `.idle` |
| a request for a token under way, and whether `close_count_` still is what it was | `stream.asked` ("current", "stale") |
| `mutation_callbacks_`, `pending_writes_callbacks_` | `callbacks`, `waits` |
| jobs of `FirebaseCredentialsProvider` on the worker queue | `jobs` (a change of user, a token) |
| the gRPC call, requests and responses on their way | `call` (external) |
| what the backend has applied | `committed` (external) |

`FillWritePipeline` with everything it calls is one operator, used by every handler that
ends with it. `CloseWithError` is `OnStreamFinish` with an error, `Close` and
`OnWriteStreamClose`. A HARD_ASSERT that fails is `Abort`: the process is gone and only the next
start can follow. A crash may come between any two handlers and, inside
`HandleSuccessfulWrite`, between the callback and the transaction that removes the batch
(`CrashAfterAnswer`); after it `Restarted` is the whole startup.

Requests that are on their way when a call is given up may still reach the backend.
They are applied, as a prefix of any length, at the moment the call is given up
(`Flushed`); that a backend does not apply the requests of a call after those of the next one is
assumed. Whether a write is refused is assumed never to change (`Bad` is a constant). So a write that is
applied, loses its answer, and is refused when it is sent again does not occur. A document that must not exist
beforehand can be such a write; its callback reports an error although it was applied. `OutcomeIsTrue`, `NothingLost`,
the refinement and their theorems say nothing of that case. Abstracted: `close_count_` to whether it is the
count at the time of the request; the stream token; the length of backoff delays; the
contents of mutations. Left out: malformed responses (`FC/remote/write_stream.cc:145-147`), a response that is
never read because a write on the same call failed first (`FC/remote/grpc_stream.cc:313`), transactions, local views.

### `WriteOutbox` - what the write path promises
No batches, ids, streams or tokens: each user's writes are made in order (`Make`), the kept
ones among the first *n* are applied (`Commit`, possibly again), and the oldest kept one is let go
once it is applied or the backend refuses it (`Settle`). `WritePipeline` implements it with `kept`
the writes in the queues of all users.

### `TaskExecutor` and `ClientShutdown` - running work, and stopping
`TaskExecutor` has the steps of `AsyncQueue`, `ExecutorLibdispatch` and `Task` between their
mutexes, as actions of a thread `s` with a label `pc[s]`; `ClientShutdown` composes them
with the calls of the app's threads, the worker, `Terminate`, `ClearPersistence` and `Dispose`. A
step under the executor's mutex is one action. The queue's mutex (`qOwner`) is held over
several steps, as is `mutex_` of `api::Firestore` (`apiOwner`) by `Dispose`, and a task's mutex while it
reports completion (`TaskIsLocked`). `task[t].ref` is the reference count, `task[t].executor` whether
`executor_` is still set. libdispatch is external: a FIFO and timers that cannot be taken
back. The client is taken to be configured; the executor for user callbacks and the functions
for tests (`PopFromSchedule`, ...) are left out. `Insert` keeps the code's branch for a disposed
executor, which the queue's mutex makes unreachable.

Worth knowing: an operation that cancels its own timer leaves `tasks_` before it ends, so
`Dispose` does not wait for it. That is safe only because `TerminateInternal` runs first on the same
queue and cancels every such timer (`NothingRunsAfterDispose` breaks when `Dispose` does not
wait for it).

### `WatchChangeAggregator` and `Listening` - queries
`WatchChangeAggregator` has the aggregator and the online state tracker as functions of their
state; `Listening` composes them with `SyncEngine`, `LocalStore`, `RemoteStore` and the watch stream, one
action per call, message or timer. The data of the backend goes through versions; `past[v][t]`
is what matches query `t` at version `v`, and a resume token is a version. The backend
is external: it answers the requests of a stream in order, and between snapshots may
send what it likes of changes, `CURRENT`, resets, existence filters and errors. Two history
variables mark targets for which the code does not keep its promise. A target is in `stale` from a
mismatch of an existence filter, or an error that met other outstanding requests, until a snapshot
that counts right shows that keys and token agree again; it is in `crossed` from such an error to the
end of the stream, since its count of answers stays wrong that long. `CurrentIsConsistent`, `FileMatchesToken` and
`ListensSettle` are claimed of all targets that are not stale. What happens to those that are marked:

* A mismatch and a `CURRENT` in one snapshot make a view that was emptied current (`remote_event.cc:241` says that
  the snapshot is from the cache), and `LocalStore` keeps the old token on file
  (`local_store.cc:259-334`), so a restart before the query is told again resumes from it.
* `ProcessTargetError` erases the target's state (`remote_store.cc:354`) together with the count of outstanding
  answers, although `remote_event.h:208` says that is how messages of earlier watches are told apart: an
  unwatch and a watch on their way when the error comes leave the next watch with a count of their answers that is too low.

Left out: contents of documents and the guard against older snapshots that goes with
them, queries for single documents and limbo resolution, garbage collection, the wait for a
token (as in `WritePipeline`), bundles, limits.

### Proof modules
`ListProofs` (lemmas about `Lists`), `LogisticsProofs` (also `WriteThrough`), `ModalFormsProofs`,
`TaskBoardProofs`, `ApiFetchProofs`, `WritePipelineProofs` (also `WriteOutbox`), `ClientShutdownProofs`,
`ListeningProofs`. The modules `MC...` give
constants small values and define symmetry and refinement mappings for TLC.

Definitions marked *Mutant* are faulty variants of the definition that follows
them; no behaviour uses them. Each shows that a property notices the
fault when it replaces that definition.

## 3. The runs

| Run | Shows | Bounds |
|---|---|---|
| `logistics` | types, ids, row numbers, references, totals | 2 items of 2 values, 1 location, 1 order id, 2 dates, quantities to 1, orders of up to 2 lines, one visible row so that cells are reused, no I/O error |
| `logistics_failing` | the refinement of `WriteThrough`, and so write-through, when any read or write may be refused | 1 item of 2 values, 1 location, 1 order |
| `api_fetch` | what is left of these properties when completions come at any time | 2 items, 1 location, 1 order, arrays of up to 2 rows by hand |
| `modal_forms` | a form stays on the record it was asked for; cost follows lines; the refinement of `WriteThrough` | 2 items of 2 values, 1 location, 1 order, 2 dates, 2 lines, no I/O error |
| `task_board` | ids, started tasks | 1 leader, 2 members, 3 tasks, counters within -2..3 |
| `write_pipeline` | the safety of the write path | 2 users, 3 writes of which one is refused, pipeline of 2, one provider job waiting, no call ended with OK |
| `write_pipeline_live` | the refinement of `WriteOutbox`, which assertion can fail, and that writes are settled | 2 users, 2 writes of which one is refused, pipeline of 1, calls may end with OK; fairness |
| `client_shutdown` | references, cancellation, the end, and that every call comes back | 2 app threads, 1 clear, 2 terminations or disposals, 2 delayed operations of which one is a timer of the client; fairness |
| `watch` | current views are consistent, keys on file fit their token, answers are counted; queries are brought up to date | 1 query of 2 documents, 2 versions, 2 requests and 2 responses waiting, all faults; fairness |
| `busy_reassigned` | *violated*: who has two DOING tasks is given no other | as `task_board` |
| `shutdown_clear` | *violated*: `Dispose` may race `ClearPersistence` | 2 app threads, 1 job, 1 clear, 2 terminations |
| `watch_hangs` | *violated*: a client that does not know whether it is online has a timer running | 1 query, 1 version, no faults |

Why the bounds are enough.

* *Logistics, modal forms, web service.* Two items are what it takes for a row number or
  position to mean the wrong record, for a search to move a row, and for an order to have two
  lines; two values of an item, for an order's embedded copy to grow stale; two
  lines, for one of them to be replaced while the other stays; one location and one
  order, for references to be looked up and to dangle. There is no bound on the
  number of steps: creates, edits, deletes and restarts alternate without end.
  `MaxQuantity`, `MaxLines` and `MaxRows` bound the user, not the code. What the bounds hide:
  sums that overflow `Int`.
* *Task board.* The third task is needed to delete one between two others. `CounterWindow` cuts off
  members who press the status entry more often.
* *Write path.* Two users are what it takes for a token or a pipeline to be the wrong one's; three
  writes and a pipeline of two, for one to wait outside, one behind a refused one, and an id to be
  given out again. There is no bound on crashes, reconnections or changes of user. `MaxJobs`
  bounds the provider's jobs that wait at one time. The proofs of section 4 have none of these bounds.
* *Shutdown.* Two threads for two calls of `Terminate` or `Dispose` at once; a timer of the client and
  an operation it does not own are the two kinds of delayed operation there are.
* *Listening.* The aggregator's state and the checks on it are per target, so one query shows what can
  go wrong with one; two documents, so that a snapshot adds one and removes another; two versions, so
  that a resumed watch has something to catch up with. The same run with three versions
  has 6.1 million states and passes as well. What the run cannot show is that an error of one target leaves the
  counts of the others right: `AnswersCounted` leaves out targets that are `crossed`, and there is no other. The theorem
  `AnswersAlwaysCounted` is about any number of targets and does.

`task_board`, `client_shutdown`, `shutdown_clear`, `watch` and `watch_hangs` do not check for deadlock: the
console program may exit, a client that was shut down rests, and the backend's versions come to an
end. Everywhere else it is checked: apps and client never stop by themselves.

The `violation` runs record places where the program and a text about it (a
comment in the source) disagree; each is a finding in `PROJECT.json` with the
quotation. Other disagreements that the models show without a run of their own:

* Assignment 9: a click on a search result opens the form on another record, since the list passes the
  row of its filtered copy (`ItemsTableViewController.swift:74`); an order whose quantities were tapped down to
  zero can be saved; an item edited after it was ordered can be ordered a second time in the same order
  (`LogisticsOrder.swift:29`). `FormShowsPicked`, `OrdersSound` and `TypeOK` are stated so that they say what holds in spite of it: `FormShowsPicked` leaves
  out a list that is searching, and with it the case in which line 74 goes wrong.
* Assignment 10: a completion between check and append lets an id in twice; a swipe on a list that was
  replaced deletes another row than the one swiped; orders are never read back, so ids of orders and items in use
  of an earlier start are not noticed; a completion between the two looks of a swipe (`ItemsTableViewController.swift:82`
  and `:89`) deletes from the file a record that was not the one checked, possibly one that an order uses. `IdsUniqueUnlessOvertaken`, `SettledSwipeTakesOne` and `OrdersOnFile` say exactly where.
* Firestore: a backend that ends a write call with OK makes the assertion at `remote_store.cc:456` fail;
  `NoAssertionFails` says that nothing else does. See also section 2 on marked targets.

**Fairness.** None is assumed of users, of the network or of anything that may go wrong.
`logistics`, `logistics_failing`, `api_fetch`, `modal_forms`, `task_board` and `write_pipeline` check safety only; the steps of
the apps are those of a user, who may stop. The other three:

* `WritePipeline.FairSpec`: weak fairness, while the process runs, of each kind of work that goes on without
  anyone's doing: the worker queue runs the job at its head; the backoff timer fires; the stream's
  three kinds of message are handled; the auth library answers a request for a token; the backend
  serves a call. `EventuallySettled` assumes on top that disturbances (changes of user, lost
  connections, crashes, ...) cease, and that network and user stay.
* `ClientShutdown.FairSpec`: every thread that is inside a call takes its next step when it can, the worker
  runs what it has, an operation returns, timers fire, and `TerminateInternal` goes on cancelling timers.
* `Listening.FairSpec`: a connection that is tried opens or its backoff ends, the worker takes messages, the
  backend serves. `ListensSettle` assumes that disturbances cease.

Weak fairness is enough: a step on the worker queue, once possible, stays possible until it is
taken or a disturbance intervenes, and the mutexes of a shutdown are contended for by
finitely many calls.

## 4. What is proved

All theorems hold for every value of the constants that the modules' named
assumptions allow; TLC evaluates the assumptions in the runs. TLC had found each to hold on
small instances before.

* `LogisticsProofs`:
  * `WriteThroughDurable`, about the abstract `WriteThrough`. The inductive invariant `WInv` adds that
    rows and view are keyed by id, since a write by id may otherwise leave a second
    record behind.
  * `TypesAlways` and `TypesAndRows`. `TypeOK` alone is not inductive: a row number must be in range
    of the array it indexes, so `TypedRows` = `TypeOK /\ RowsMatch` is.
  * `UniqueIdsAlways`, `FormShowsPickedAlways`, by `KeyedRows`, which adds both to
    `TypedRows`: a replaced record keeps its id because the form's row is in range.
  * `ImplementsStore`: every step of the app is a step of `WriteThrough` or a stutter. Its
    proof first shows that every step treats the arrays in one of five ways
    (`ArraysStep`: quiet, create, modify, delete, relaunch) and then maps each.
  * `WrittenThroughAlways`: from the refinement and `WriteThroughDurable`, which is why no run checks it.
  * `OrdersSoundAlways`, by `SoundDraft`: the draft of an open order form has no two equal
    items, which is what a saved order inherits.
  * `NoDanglingOrdersAlways`, by `Linked`: when SQLite does not fail nothing is dirty, and
    the draft too refers only to items that exist.
* `ModalFormsProofs`: `ModalTypes`, `FormAlwaysOnAsked`, `CostsAlwaysFollow`, `ModalImplementsStore`, by `IInv` = `TablesOK` (rows
  of a table have their types and unique ids), `ArraysOK` (so have the arrays), `FormOK` (an open form is on a record it was asked
  for) and the type of what is dirty. A step leaves rows and arrays alone, creates, updates or deletes a record, or is a
  relaunch (`FormStep`), and each of these is a step of `WriteThrough` or a stutter.
* `TaskBoardProofs`: `BoardTypes`, `IdsAscendAlways`, `StartedTasksStayAlways`, by `BoardInv` =
  `TypeOK /\ IdsAscending` and the four things a step may do to the tasks.
* `ApiFetchProofs`: `FetchTypes`, `SettledRowsAlways`, `SettledSwipesAlways`, `IdsUniqueAlways`, `OrdersOnFileAlways`. The
  steps are first sorted by what they do to the arrays (`StepKinds`). That a swipe deletes no record in use
  needs the row to stay the checked one until it is looked up again (`SwipeChecked`). That ids are unique
  until a completion overtakes needs to know of the record that passed `checkId` and of the list a swipe
  is about to make the array (`IdsInduct`); that orders are on file, that no answer touches them (`OrdersInduct`).
* `WritePipelineProofs`, about the abstract `WriteOutbox`: `OutboxPromises`. In the abstract outbox each user's writes
  are settled from the first to the last and applied in order, and nothing is let go that was neither applied nor refused.
* `WritePipelineProofs`: every invariant that the two runs of the write path check. None is inductive alone. `IInv` is,
  in four parts:
  * `Types`;
  * `Wired`: stream, call and pipeline fit together (`Fits`), a pipeline that is not empty has a stream that
    runs (`Runs`), the pipeline is the first rows of the queue, in order and as many as fit (`Lined`, `Full`), an
    open stream's call is the signed-in user's, and an assertion fails only after an end with OK;
  * `Tokens`: at most one token that waits on the worker queue is fresh, it is what the stream
    that is starting asked for, and it is the current user's unless a change of user waits *before* it. This order is
    what keeps one user's writes off another user's call, and so what the correlation of responses rests on;
  * `Kept`: rows have distinct ids below the next id; what was made and is not queued has been applied or
    refused; callbacks and waits are about rows that are there or settled; answers under way are about applied writes.

  One lemma per handler shows that it preserves `IInv`; what several handlers do
  alike (give up a call, restart, settle the first batch, fill the pipeline) is a lemma of its own. The theorems are
  `WritePathInvariant` and, as its consequences, `WriteTypes`, `PipelineAlwaysHead`, `ResponsesAlwaysCorrelate`, `OutcomesAlwaysTrue`,
  `NothingIsLost`, `CallbacksAlwaysQueued`, `WaitsAreHonest`, `CredentialsAreOwn`, `NeededStreamsRun`, `AssertionsHold`. They are about any number of users and
  writes, any length of the pipeline and any number of jobs.
* Also in `WritePipelineProofs`: `PathImplementsOutbox`, that `WritePipeline` implements `WriteOutbox`, and, with `OutboxPromises`,
  `PathKeepsPromises`: the backend applies each user's writes in the order in which they were made. Beside `IInv` this needs
  that ids ascend in the order in which a user's writes were made (`IdsInOrder`), although they are given
  out again. Every step is of one of three kinds (`StepKinds`): it makes a write, it settles the first of the
  pipeline, or it applies a prefix of the requests of the call, possibly none. A prefix of the requests is, with what
  had been applied before, a prefix of the kept writes (`CommitMaps`).
* `ClientShutdownProofs`: the safety invariants of `ClientShutdown` except `RaceWithClearIsOK`, which the code
  violates: `ShutdownTypes`, `CountsAreRight`, `CancelReturnsFinal`, `NothingIsLeftRunning`, for any number of threads and
  tasks. None of them is inductive alone. `IInv` is, in six parts:
  * `Types`, and `Places`: where each thread can be, which mutex it holds there, and what mode that implies;
  * `Args`: no two threads add the same task, and what is about to be handed to libdispatch still waits to run;
  * `Owns`: libdispatch has a task in one place (`Apart`), the executor and the calls that took tasks from it
    have one owner for each (`OneOwner`), so a count is at most 2 (`Counted`);
  * `Runs`: at most one task runs; a task that waits to run has an owner who can still prevent it (`Preventable`); one
    that runs has an owner, too, unless it has cancelled itself, which none does once a termination has
    started (`Watched`);
  * `Ends`: the queue is disposed of only after a termination has started, and that one leaves no timer in the schedule.

  After `Dispose` nothing is owned outside libdispatch and a termination has started, so by `Watched` nothing runs.
  There is one lemma per action. Each first says who owns a task after the step in terms of who did, and from
  there on the definitions of ownership stay closed.

* `ListeningProofs`: `ListeningTypes`, `CurrentAlwaysConsistent`, `FileAlwaysMatchesToken`, `AnswersAlwaysCounted`, from the inductive invariant of `ListeningInductive`, for any number
  of queries, documents, versions and messages on their way. `CurrentIsConsistent` relates the file to what the backend had at some
  version, and nothing in between is ever compared, so the invariant says what each message on its way is worth. `IInv` is, in six parts:
  * `Types` and `Traffic`: what is on file, in the client and on its way has its type, and no token or version is ahead of the data;
  * `StreamOK`: nothing is on its way but over a stream that is open; `OnlineOK`: the timer and the count of failures;
  * `Known`: the keys of a target that is not stale are the documents of its token, on file and in memory, and, when
    its view is current, of the last snapshot;
  * `InStep`: while the stream is open, each target that is not crossed is `Steady`: its count of outstanding answers is the
    number of requests and answers about it on their way (`Counted`); the last request (`Asked`) and else the last answer
    (`Answered`) say whether the client listens to it; and once the backend has all requests, the messages behind the last answer
    lead from the documents the client shows to those the backend takes it to know (`Told`).

  `Told` has as its witness the view before each message (`Leads`). A snapshot comes when that view is the one of
  its version, `CURRENT` only when it is or behind a filter, a filter only when the number of documents is wrong. A message that the
  client ignores, because an answer is outstanding, is ahead of that answer and so outside what `Told` speaks of: that is why the
  count makes it safe to watch a target again. `Moves` says the same of the messages that the backend adds,
  `Heeds` of what the aggregator makes of one message. There is one lemma per action; steps that are alike share one
  (`Loses`, `Leaves`, `Asks`, `HeedsStep`, `AnswerTaken`, `AnsweringStep`, `TellingStep`). A target that is resumed or becomes steady
  again after a mismatch needs `Known`, and `Known` needs `Told` when a snapshot is taken (`Snapshots`).

The sum of an order is a fold over its lines; that it is a natural number is the
assumption `TotalAssumption`, which TLC evaluates, because a fact about every fold
needs induction over data, which the installed provers cannot instantiate.

Only model-checked: the liveness properties (`EventuallySettled`, `ComesToRest`, `ListensSettle`), since liveness under
fairness and `ENABLED` are out of the provers' reach. Every invariant, action property and refinement
that a passing run checks is a theorem. The three properties of the `violation` runs are false and so have none.

## 5. Not modelled, and why

* *Assignment 7* is Assignment 8 without the calls of `DatabaseManager`; *Assignment 6* has one form per operation on
  arrays in memory, each handler complete in itself; *Assignment 5* is the same behind text menus. They have nothing that
  `ModalForms` does not have. *Assignment 3* is a handful of pure functions without state.
* *Posts app.* Its queries ask for fields that its documents do not have (`uid` for `userId`, `createdByUID` for
  `createdById`, `lastUpdated` for `updateTime`), so creating a post traps and both lists stay empty. A model of it
  would have nothing to say; the Firestore client below it has.
* *Storyboards, delegates, images, layout, wording*: no logic of the apps.
* *Firestore client, the rest*: queries and their order, event listeners, transactions, garbage collection, the document
  cache, bundles, values and their encodings. Mostly data with little control; transactions and the garbage
  collector would come next. Of the paths that are modelled, section 2 says what is left out.
* *Other libraries* (gRPC, BoringSSL, abseil, LevelDB, nanopb, the other Firebase SDKs): third-party code below what
  the apps and the Firestore client are about. LevelDB, gRPC and libdispatch appear as external actions.

The vendored libraries are nearly all of the repository: some 650,000 lines of C, C++ and headers, against a few
thousand of the apps. What is modelled is the apps' own logic and about two and a half thousand lines of the
Firestore client, chosen for their concurrency and their crash and retry handling. Measured against everything under
`src/Final_Project/Pods` that is well below one percent, and models of TLS or of generated
protocol buffers would not make the project say more about these apps.
