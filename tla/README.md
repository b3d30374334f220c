# Verification of gosh-lan-transfer

TLA+ specifications of the transfer engine in `src/src/*.rs`, the TLC instances
that check them, and TLAPS proofs of their main properties. `PROJECT.json`
lists the runs, the source lines behind every definition (`map`), the mutants
that show that each checked property can fail, the hazards the properties are
aimed at, and what was found.

Model-check a run with `tlc -config <cfg> <module>`, check the proofs with
`tlapm <module>` for the eight `*Proofs` modules.

## 1. The system

`GoshTransferEngine` (`lib.rs`) owns an HTTP server (`server.rs`), a client
(`client.rs`, `resumable.rs`) and a multicast discovery service
(`discovery.rs`). Two protocols exist side by side: v2 (resumable, the default)
and v1 (legacy, whole files).

| Component | State | Operations | What makes it correct |
|---|---|---|---|
| v2 receiver, `durable.rs` | per session a `Record` behind a mutex, its journal `<id>.json`, part files, the download directory, a cancellation token; one global registration mutex | register, accept, reject, cancel, upload, status, forget, load, close | a receipt names a verified, durable file; no file of others is replaced; answers survive restarts; one outcome per session |
| v2 sender, `resumable.rs` | the saved plan (manifest, source), current file, attempt, handle token | prepare, start/send_prepared, retry, cancel | success means delivered; a resumed plan gets through; every send ends |
| v1 receiver, `server.rs` | nine tables, each behind its own lock, the `decisions` mutex, one upload lock per transfer | request (with expiry), accept, reject, cancel, chunk upload, status | tables agree; one outcome; a retry is idempotent; the limit holds |
| v1 sender, `client.rs` | attempt counters, byte counters, the token | request_transfer, wait_for_approval, send_file_with_retry, send_directory | success means received; the outcome reported is the real one; every send ends |
| Download directory, `server.rs`, `durable.rs` | files, directories and links on the disk, `r.targets`, the path a v1 handler has open | receive_target, create_receive_parent, open_unique_file, publication by hard link, rollback | nothing outside the directory or behind a link; nobody's file replaced; what was reported stays; repeated attempts leave no copies |
| Engine, `lib.rs` | server handle, port, configuration, discovery handle | start, stop, change_port (with rollback), update_config, drop | the old server comes back after a failed port change; the lock of the state directory is released |
| Discovery, `discovery.rs`, `lib.rs` | peer table with timestamps, handle, task, shutdown signal | start, stop, discover_peers, announce, handle_packet, expire | events and table agree; peers that announce themselves are found, silent ones are lost, lost packets are tolerated |
| Throttle, `throttle.rs` | window start, bytes sent | pace | the rate is never exceeded, over all windows; no burst after a stall; no needless wait |
| History, favorites | vectors behind locks | add, list, delete, touch, ... | bounded, newest kept |
| Security, config, types, protocol, events, error | none, or constant | validation | - |

How they interact: handlers of both protocols share one `ServerState` and one
download directory; the application decides through the engine while HTTP
handlers run; the sender drives the receiver by requests that may be lost before
or after they were processed. What is hard is the concurrency of handlers across
`await` points, handlers that are dropped where they are (closed connection,
server stop) while blocking tasks they started go on, crashes and power failures
between two disk operations, and retries of things already done.

## 2. Modules

### DurableStore - the v2 receiver

One record per transfer ID in memory (`mem`) and on disk (`journal`). A handler
that holds the record mutex is described by `pc[id]`, `cur[id]`, `idx[id]`; every
move of `pc` is one await point of the code. `upload` is the sequence
`body -> verify -> pick -> target -> link -> sync -> commit -> finish`;
`cancel_transfer` sets the token, waits (`waiting`), then goes through
`cancel -> clean`. `register` holds the registration mutex (`reg`) while it
writes the first journal or waits for an existing session. Disk state is split
into what is there and what a power failure may take (`dirty`, `unsynced`, `fresh`):
upload syncs the directory of the destination, `create_receive_parent` does not sync
the directories it makes, so that such a directory can still go with all its files,
receipts or not (`lost`), until the directory above it is synced for another file.
`LinkUnread` is an existing target that cannot be read, which upload takes for a name
conflict (`misread`). `HandlerFails` is an I/O error, `HandlerDropped`/`RegisterDropped` a dropped
future whose journal write may land later (`detached`), `Crash` a kill or a power
failure, `Start` is `load`. `maker`, `told` are history variables: who linked a
name, what callers were told.

### TransferReceipts - the promise

The abstract life of a transfer: asked once, files received only while accepted,
terminal phases left only by `forget`. Transfers are independent, and a step may move
several of them, because a crash may find the journal writes of several sessions half
done and land any of them. `DurableStore` implements it with the
journal as the state (`ReceiptsSpec`), so the promise is about what a restart
would load; `ResumableTransfer` implements it with its receiver.

### ResumableTransfer - sender and receiver

`send_plan` against the receiver over connections. The sender may leave a
connection (`att = FALSE`) that the receiver goes on serving, so stale uploads
overlap with later checkpoints and uploads. A part records whether its blocks lie
where they belong and are those of the plan. The source may change behind the
sender's back; both sides may cancel and crash; the application may send the saved
plan again at any time.

### LegacyReceiver - the v1 receiver

The tables of `ServerState` and the phases of `chunk_upload_handler`. `deciding`
is the request that holds the `decisions` mutex while it expires transfers one by
one, each from one table after the other; `Expire` is one such removal, so that uploads
run between two of them and the request may be dropped there (`RequestDropped`).
`torn` remembers the transfers that a dropped removal has left in some of the tables.
Time is abstract: `Hour`
makes a transfer idle.

### LegacyTransfer - the v1 sender against that receiver

Takes the actions of `LegacyReceiver` as they are (`R == INSTANCE LegacyReceiver`)
and adds `send_files`: the request and its retries, the poll of the status with its
three reads under three locks (`poll`, `pollRejected`, `pollPending`), the upload
of each file and its retries. The sender may leave a request (`late`) or an upload
(`listen = None` while `flow` goes on) that the receiver still serves, so that a
retry meets its predecessor. The body of an upload belongs to its connection: it may be
read on, and count into the shared `bytes_sent_so_far`, after an early reply or after
the sender left (`StreamOn`; `stray` adds up what was counted so). `from` is the value
of the counter when `send_file` began, to which it adds the file at the end. Source
files may grow or shrink (`grown`) after they
were announced; strangers fill the table of sessions.

### DownloadDirectory - where both receivers put files

A path is a sequence of names, a name a sequence such as `<<"doc", 1>>` for
"doc (1)"; `sanitize_relative_path`, `sanitize_file_name` and `receive_target` are
operators on them with the cleaning of one component (`Clean`) as a parameter.
A v1 handler goes `mkdir -> try -> body`, a v2 publication `mkdir -> try -> link ->
compare -> linked`; each is one system call or a few without an await in between.
The user creates files, directories and symbolic links at any time. `borrowed` and
`left` remember what the code does not account for: files v1 was still writing when
v2 took them for its own, files of dropped handlers, and v2's own links that it could
not read when it tried again (`misreads`). How a part is received and
journalled is in DurableStore.

### Discovery - announcing and listing peers

One engine with its table, its tasks (two may overlap, since `stop_discovery` only
signals) and its events; the others are what they put on the network. A task changes
the table under its lock and tells the application after it, so every step is two
actions (`handle_packet`/`PacketHandled`, `expire_stale_peers`/`ExpiryTold`). Time
passes in thirds of `peer_timeout`; since timers and packets fall anywhere in such a
unit, an entry that reaches the timeout in the current one may or may not be stale
(`Stale`). A stop signals the task and clears the table in a later step (`StopTask`,
`clear_peers`), and may be dropped in between. The wall clock may be set.

### Throttle - the bandwidth limit

`pace` on integer time, whose unit is what a byte takes at the configured rate. A
retry and the next file begin with a new throttle (`new`). `sent`, `mark` and
`after` are history variables: everything let go, a moment chosen once, and what was
let go since.

### EngineLifecycle - starting, stopping and moving the server

The engine runs one call at a time (`&mut self`); `call` says where it awaits and
which `ServerHandle` it has in hand. The configuration exists three times (engine,
`server_state`, `discovery_state`), updated one after the other. `listener` is the
spawned task of each port: it goes on after the call that lost its handle was
dropped, until it notices the closed channel. `root` is the open state directory
with its lock; `load` opens it before the port is bound, `durable.close` gives it
back. Other programs take ports, other receivers directories, at any time.

### Proof modules

Every component has one: `DurableStoreProofs`, `ResumableTransferProofs`,
`LegacyReceiverProofs`, `LegacyTransferProofs`, `DownloadDirectoryProofs`,
`EngineLifecycleProofs`, `DiscoveryProofs` and `ThrottleProofs` extend the modules they
are about. `MC*` modules only give constants values. Operators named `X_Variant` are
mutants: plausible bugs of `X`, used by no specification.

## 3. Runs

| Run | Instance | Shows |
|---|---|---|
| durable_publish | 1 transfer, 2 files that want one name (one empty), in a directory that may have to be made, any content, 1 crash, 1 dropped handler; 2.9 M states up to the view | parts, links, receipts and completion stay consistent through publication, resume and restart; only verified files of live sessions appear |
| durable_restart | 2 transfers for 1 retained session, 3 files in the download directory and below it, 2 crashes; 1.6 M states | what callers were told survives; nothing appears after a cancellation; the limit holds across reload; refinement of TransferReceipts |
| durable_errors | 1 transfer, 2 files, 1 I/O error (a misread target too), 1 crash; 0.6 M states | no file is published twice unless its target was misread; one outcome; an undisturbed cancellation removes the parts, an undisturbed completion is recorded; cancel is answered; registration gets its turn |
| resumable_transfer | 2 files of 1 and 2 blocks, 3 connections, 2 faults, cancellation, a changing source; 0.2 M states | success is truthful; parts stay aligned prefixes; one writer at the end; the outcome reported is the real one; refinement; every send ends; a plan that is resumed is delivered |
| legacy_uploads | 2 transfers for 1 session, 3 files, 2 concurrent uploads, 2 approvals or 1 and a dropped handler; 1.1 M states | limit, outcomes, completion, progress and retries; uploads of a cancelled transfer end |
| legacy_transfer | a transfer of 2 files (one empty) and a stranger's for 1 session, 1 retry, 1 hour, and two of a fault, a change of the source and a dropped handler; 0.5 M states | Ok means that each file is there, within the hour exactly once; rejected and cancelled are never said for another reason; progress ends at the total, up to what bodies left behind have counted; send_files returns; no upload outlives its sender |
| download_directory | 2 v1 and 2 v2 files that want the same names, one of them below a directory of that name and one reserved, 3 candidates, 1 entry of the user, 1 dropped handler, 1 misread target; 0.3 M states | nothing outside or behind a link; no file replaced; what was reported stays; no second copies unless a target was misread |
| engine_lifecycle | 3 ports (and port 0), 2 directories, 1 dropped call; 0.4 M states | the copies of the port agree with the listener; a restart does not meet its own listener; the store follows the configured directory; a dropped engine releases everything |
| discovery | 1 peer with 2 names and without a port, 2 starts, 1 change, 1 clock jump; 0.6 M states | events tell the table; one lost announcement is tolerated, whatever the order of timers and packets; gone peers are lost, announcing ones found |
| throttle | idle time 4, chunks up to 3, time up to 16; 1.3 M states | the rate holds over all windows; bursts are bounded |
| dropped_registration, expired_upload | as small as the counterexample | disagreements with the docs, section 5 |

Why the bounds are enough: two files of one transfer reach every case of
"last file" and of a name conflict (`MaxIndex` = 2 also exhausts the candidates);
one block separates an empty, a partial and a complete part, and two blocks
(resumable_transfer) a part cut in the middle; two transfers at a limit of one reach a full table;
three ports are an old one, a new one and one
left over from a dropped call; two handlers or connections are the least that can
overlap, and a third is a
stale one (two faults leave two uploads behind). Two crashes include one during
recovery. In the download directory, three
candidates are one that is taken, one that is taken meanwhile and the last; the four
files are the pairs v1/v2 of one name and content, a v2 file whose directory is a
name another may choose, and a v1 file whose name becomes the reserved one when it
is cleaned. One peer is enough for discovery because a packet touches the entry
of its sender only; expiry treats the entries alike. Four units before a throttle's
window is renewed and sixteen in all leave room for three windows.
durable_publish explores states once that differ only in `told`, `history` and `misread`
(the view `Consulted`): no action and neither of its properties depends on them, types
apart. Counters of faults
(`MaxCrashes`, `MaxDrops`, `MaxIoErrors`, `MaxFaults`, `MaxChanges`, `MaxTokens`,
`MaxBoth`, `MaxTrouble`, `MaxMisreads`, `MaxForeign`, `MaxHours`, `MaxStarts`,
`MaxJumps`) only bound the length of the
unusual.

### Fairness

- `DurableStore.Fairness`: the runtime polls a ready handler (WF of
  `HandlerStep`, `RegisterDone`); tokio mutexes are FIFO, so a waiting caller gets
  the mutex although others keep coming (SF of the canceller and of a waiting
  registration). Nothing is assumed of the body. `IdleTimeout` adds the 120 s limit
  between chunks, which the second half of `CallsAreAnswered`
  (registration) needs and the first (cancellation) does not.
- `ResumableTransfer.Fairness`: both sides take their own enabled steps. `Resuming`
  is what `ResumeDelivers` assumes of the application: it sends the plan again until
  it succeeds, and the poll (every 100 ms) sees an approval before 120 s pass.
- `LegacyReceiver.Fairness`: WF of the handler's own steps and of the 25 ms poll,
  SF where the FIFO mutex `decisions` is awaited, nothing of the sender.
- `LegacyTransfer.Fairness`: the sender's task and the receiver's handlers take their
  enabled steps, the FIFO mutexes are obtained (SF), the approval deadline of
  120 seconds passes although the poll keeps answering (SF of `ApprovalTimeout`), and a
  body that stalls is ended by the receiver's limit of 120 seconds.
- `Discovery.Fairness`: tasks and peers take their steps, a signalled task ends
  (SF: `select!` chooses among ready branches at random), time passes, and not all
  packets of a peer that keeps sending are lost; a stop gets the table's lock.
- `EngineLifecycle.Fairness`: a listener whose channel is closed ends (graceful
  shutdown is bounded by a second), and a state that nobody shares is freed.

`DownloadDirectory` and `Throttle` state no fairness: their properties are about safety.

## 4. Proofs

For every value of the constants that satisfies the named assumptions
(`ConstantsAssumption`, `NoNameAssumption`, `NoRegAssumption`, `TransferAssumption`,
`LegacyAssumption`, `ReceiverAssumption`, `SenderAssumption`, `EngineAssumption`,
`DownloadAssumption`, `TargetAssumption`, `NoneAssumption`, `ThrottleAssumption`). They
give the constants their types, say that the markers for "none" are no ordinary values,
that plans have at least one file (the code refuses empty ones), that IDs and files
are finitely many where they are counted, and that no cleaned name becomes the reserved
one by numbering it.

Sums over files and the path of a target are defined by recursion, and the library's
induction theorems take the predicate as a parameter that no backend instantiates. Two
facts without a parameter take their place: every non-empty set of numbers has a least
element, every non-empty collection of finite sets a minimal one (`LeastElement`,
`MinimalSubset`, from the well-founded orders of WellFoundedInduction). The least input
for which a claim fails leads to a contradiction, claim by claim: the recursive functions
exist (`SizesExist`, `ResultExists`), and `SumFunctionOnSet` does not depend on the order
in which its definition picks the elements (`SumUnique`), so that adding an element adds
its value (`SumStep`).

- **DurableStore** - `Inv` = `TypeOK /\ HandlersAreSound /\ PartWithinSize /\
  ReceiptsAreDelivered /\ CompleteMeansAll`. `HandlersAreSound` is the
  strengthening that makes the others inductive: it says what each phase of upload
  still knows (session accepted and not cancelled, the part between hash and link is
  the verified one, the name to be recorded has the verified content). `TypeStep`,
  `PartStep`, `DestStep`, `HandlerStepSound` treat the actions one by one.
  `RecordsStep` shows that every record in memory, on disk or under way is an old one
  of the same session or the result of the six actions that change one, so that
  `DeliveryStep` and `CompletionStep` only look at those. A receipt is durable as far as
  the code makes it so: its name is synced in its directory, and it is lost only with
  a directory that was never synced into the one above it (`lost`). The action properties
  `ExistingFilesAreKept` and `OnlyVerifiedPublished` follow from the same invariant.
  A second invariant, `FaultFree`, says what memory, journals and names say of each
  other until something goes wrong; each part has the weakest condition under which it
  is true. As long as no handler was dropped (crashes and I/O errors allowed), no journal
  write is stray, a name that upload made is the target the journal has for its file
  unless a read of that target failed (`NamesAreJournalled`, hence `OneCopyPerFile`),
  and an outcome on record is what memory
  and journal say (`OutcomesAreRecorded`, hence `OutcomesExclusive`). As long as there was
  no I/O error either (crashes and power failures allowed), the journal lags behind memory
  by at most the change the holder of the mutex is writing (`JournalsAreInStep`), what
  callers were told is so in both (`ToldIsTrue`, hence `ToldFactsAreDurable`), and the
  sessions a restart would load, with a registration in progress, are within the limit
  (`RetainedWithinLimit`, hence `SessionsWithinLimit`). `EffectsAreThere` gives
  `OutcomesTakeEffect`. durable_restart and durable_errors have the same conditions
  (`MaxDrops` = 0, and `MaxIoErrors` = 0 in the former), and they are needed: a dropped
  handler's journal
  write may land after a later one, a failed write leaves memory ahead of its journal.
  `Refinement` and `CancelledStaysOut` assume `MaxDrops = 0` and `MaxIoErrors = 0`:
  `JournalStep` finds the few ways a step can change the journal of a session,
  `StepIsPromised` matches each with a step of `TransferReceipts`, and
  `PromisedImplements` does the rest for all sessions at once, which a crash needs.
  `OutcomesKept` needs only `MaxDrops = 0`: after a failed write memory is ahead of its
  journal, but it never lacks an outcome that the journal has (`MemoryIsAhead`), since a
  handler changes a record only towards an outcome (`MemoryGrows`); so I/O errors and
  crashes never take one back, and the counterexample of dropped_registration is due to
  the dropped handler alone.
- **ResumableTransfer** - `Inv` adds three parts to the properties: the sender is at a file
  of the plan (`PointsAtFiles`), every trace of a cancellation goes back to somebody who
  asked (`CancelsWereAsked`), and files are received only while the approval stands, by an
  upload that holds the mutex (`ReceiverIsSound`). `SenderActions` shows once for all steps
  of the sender that they leave the receiver's connections in place, so that only the
  receiver's own steps remain for the parts. `Refinement` of TransferReceipts follows from
  `Inv`, for any number of connections, faults and crashes.
- **LegacyReceiver** - `Inv` = `TypeOK /\ RemovalInOrder /\ TablesAgree /\
  WithinCapacity /\ TakesTurns /\ NotYetReceived /\ OutcomesKnown /\ ReceiptsAreKept`.
  `RemovalInOrder` says which tables the transfer being expired has left already, so that
  a token without a pending transfer is one whose removal is under way or was dropped.
  The limit needs the tables to be disjoint
  (cancel moves, it adds only what a dropped removal has left); idempotence needs that
  uploads take turns and that
  an upload under way has no receipt; the single outcome needs to know that a pending
  transfer outside `completed` has none; `CompleteMeansReceived` needs that the receipts
  of a transfer are files of it, so that as many receipts as files means all files.
  `ProgressNotInflated` follows from `Within`: the counter is at most the sizes of the
  receipts, plus what the one upload that has the transfer's lock has counted
  (`GotInPhase`: nothing before its body, the whole file when it commits). A rollback takes
  back exactly that, a commit turns it into a receipt the transfer did not have. Between
  the removal of the receipts and that of the counter of an expired transfer (`Halfway`)
  the counter stands alone.
- **LegacyTransfer** - `Inv` has the receiver's invariants for the instance `R` (of the
  tables only that they are disjoint, `Apart`, which no removal can disturb), proved of
  `ReceiverStep`, the receiver's part of a step, in which uploads come with the sender's
  token. `WithinTheHour` says that nothing expires before an hour has passed: a file is
  received at most once, and not without a receipt unless the transfer is cancelled, and
  a transfer with all receipts is complete. `Follows` says what the sender may rely on:
  the upload it listens to is one of its current file, and the files before it were
  received. `MovesStep` reduces the steps to six things a sender can learn, and
  `LastingStep` says what the receiver never takes back; `OutcomesAreHonest` follows.
  `ProgressIsTrue` rests on `Counts`, for sources that do not change: when a file begins,
  in the baseline and when an attempt begins, the counter is the size of the files before
  it, up to the blocks that bodies left behind have counted since (`Around`); an attempt
  counts on top of it what it has handed out, and a retry starts from the baseline again.
  A body never hands out a block twice, so that each such block is in `stray` once.
- **EngineLifecycle** - `Inv` = `TypeOK /\ PortsAgree /\ Starting /\ NoOrphans /\
  StoreClosed /\ StoreFollowsConfig`. `Starting` says which of the ports a call with
  a new handle has set already, and that an engine with a handle runs only calls that
  leave it alone. `NoOrphans` ties every listener to a handle as long as no call was
  dropped, from which `NotInOwnWay` follows; `StoreClosed` says when a stopped engine
  has no open state directory.
- **DownloadDirectory** - `Inv` = `TypeOK /\ Handlers /\ Contents /\ Settled /\
  NothingLeftOver /\ Opened /\ Confined`. `Handlers` says that a v1 upload has its own
  file open and that a v2 target stays recorded; `Contents` that the receiver's files
  are prefixes of what was sent, so that v2 recognises a file of its own when it
  tries again, if it can read it; `Settled` is `FinishedIsIntact` from the comparison
  on, together with
  "nobody writes there"; `Opened` that the directories above a target were seen to be
  real. `DiskStep` is the key lemma: what one step can do to one path. It gives
  `FilesAreKept`, and the other steps rest on it. `TargetsAreClean`: for
  every file a sender may announce, the loop of `sanitize_relative_path` and the
  fallbacks of `receive_target` yield a non-empty path of clean names. Of the cleaning of
  one component only its type is assumed: a name, or none.
- **Discovery** - `Inv` = `TypeOK /\ TasksAreSound /\ EventsAreInOrder /\
  LossesAreCounted`. A task owes at most the events of one step, and without a task that
  outlived a start these are exactly what separates the events told from the table
  (`EventsAreInOrder`); the age of an entry is bounded by the losses since it was renewed,
  and by one more while an announcement is still expected (`LossesAreCounted`). An entry
  may be stale from the third unit on, so `LossesAreTolerated` follows: one that is
  dropped has missed two announcements at least.
- **Throttle** - `Paced`: the bytes of the window are paid for by the time in it, up
  to the chunk that sleeps, those of the windows before it by the time before, and a
  window that holds the mark cannot grow beyond the idle time and a chunk. It gives
  the rate, the bound on bursts, and `SleepIsShort`: no chunk waits longer than its
  own bytes take.

`Inv` of DurableStore is also an invariant of a run; the types of
LegacyReceiver, EngineLifecycle, DownloadDirectory and Throttle, `TablesAgree`,
`ExistingFilesAreKept` and `SleepIsShort` are left to the proofs.

Only model-checked: liveness, which is out of the prover's reach (`CallsAreAnswered`,
`SendEnds`, `ResumeDelivers`, `CancelStopsUpload`, `TransferEnds`, `DropReleases` and
`TableFollowsPeers`). Every other property of a passing run is stated by a theorem.

## 5. What was found

Two runs show that the code does not do what a doc or comment says; the quotes
are under `findings`.

- *dropped_registration*: the journal write of a dropped register request can land
  after a later cancellation and take it back. The same late journals are not
  counted against the session limit until a restart loads them all; therefore
  `SessionsWithinLimit` is checked without dropped handlers and I/O errors. Without a
  dropped handler no outcome is lost (`OutcomesKept`, section 4).
- *expired_upload*: expiry may prune an upload that started after the expired
  transfers were listed.

Also seen, where no text decides what is meant; the properties say what they except:

- `reject_transfer` looks at the decision only, so that a cancelled session that was
  still pending can become rejected (`durable.rs:222`).
- `create_receive_parent` makes directories and nobody syncs the ones above
  them: upload syncs the directory of the file only (`durable.rs:671`, under the comment
  "Order destination durability before the completion receipt on Unix"). After a power
  failure a receipt may name a file that went with its new directory. `ReceiptsAreDelivered`
  says exactly that: the entry is synced, or its directory was lost.
- An existing target that cannot be read counts as a name conflict (`is_ok_and`,
  `durable.rs:657`). If it is the file that this upload linked before a crash, the retry
  links it again under the next name. `OneCopyPerFile` and `NothingLeftOver` except the
  files whose target was misread.
- After a failed journal write, a repeated cancellation answers at once and leaves
  the parts (`durable.rs:256`), and a completion that could not be journalled is
  not recorded in the history later (`durable.rs:694`). `OutcomesTakeEffect`
  therefore asks for an undisturbed run.
- v2 takes a file with the right content for its own although a v1 upload is still
  writing it; if that upload fails, its rollback removes the file (`durable.rs:657`).
  `FinishedIsIntact` excepts these (`borrowed`).
- The status poll of v1 reads three tables under three locks; a rejection between
  the reads is answered "not found", and the send ends with that instead of
  "rejected" (`server.rs:905`).
- The body of a v1 upload goes on counting into `bytes_sent_so_far` after a reply that did
  not wait for it ("already_received") or after the sender left, as long as the
  connection is read; these bytes enter the baseline of the next attempt or file
  (`client.rs:442`, `594`), and progress ends above the total. `ProgressIsTrue` bounds
  the excess by what was counted so.
- A v1 request that is dropped while it expires a transfer leaves it in the tables that
  it has not come to (`server.rs:683`). A token without a pending transfer then lets
  `cancel_transfer` enter the ID beyond the limit, and if the ID is asked for again it
  is approved with the old token, without a decision. `WithinCapacity` does not count
  such transfers once they are cancelled (`torn`), `TablesAgree` names them.
- Two lost announcements suffice to drop a peer if the third comes a little after the
  expiry timer, although the timeout is three intervals.
- A `stop_discovery` that is dropped while it waits for the table has taken the handle
  and leaves the table as it is (`lib.rs:397`).
- A discovery task in the middle of a step may list a peer after `stop_discovery`
  has cleared the table; it stays until discovery runs again. A dropped
  `discover_peers` leaves the discovery it started running (`lib.rs:431`).
- `start_server` opens the state directory before it binds, and
  `stop_server` closes it only if there is a handle. After a start that failed at the
  bind, stop, `update_config` with another download directory and start - the way
  docs/ROLLOUT.md gives - serve the new directory with the sessions and the lock of
  the old one; so does a start after an `update_config` that was dropped between its
  two locks. `StoreFollowsConfig` therefore excepts both (`stale`, `drops`); without
  the exception TLC gives the four-step trace. After a failed rollback discovery
  keeps the port that could not be bound.
- With a dropped handler `OneCopyPerFile` is false: the handler's journal write may land
  after the target of its file was given up for another name, and a power failure then
  reloads the old target, under which the file is linked again. The property therefore
  asks for no drops; durable_errors has none, the proof needs the condition.
- A v1 request that the sender has given up on may be served after the idle transfer has
  expired, begins it anew, and the retry of an upload then stores a file again: Ok is true,
  but there are two copies. `OutcomesAreHonest` says "exactly once" within the hour.
- A dropped v1 upload leaves its file and its bytes in the progress counter
  (`ProgressNotInflated` therefore asks for no drops, `NothingLeftOver` excepts
  `left`).

## 6. Simplifications and what is not modelled

Each module's header lists its own. Common to all: a request refused before any
state changes is no action; names, digests and bodies are abstract values and
blocks; formatting, logging and events without a consumer in the engine are left
out. A write of a dropped v2 handler lands before its session's mutex is taken
again; a truly late write is listed as a hazard without a property.

Not modelled, and why:

- *Security*: tokens and TLS are refusals before any state change, or library code.
- *Configuration, wire types, events, errors*: plain data and validation of it.
- *The in-memory history and favorites*: vectors behind one lock; the records a
  transfer adds to the history are counted by both receivers. The default `touch` of
  favorites reads and writes in two calls, so that a rename in between is lost.
- *Late writes* of a dropped handler within tokio's file handle, *the same ID in v1
  and v2* (the tables check each other under different locks; IDs are random), and a
  `forget` while a canceller holds the session: known, not covered by a property.

## 7. Plan

Every safety property that a passing run checks is proved for all values of the
constants. What is left:

1. `ActiveNotPruned` of LegacyReceiver, which expired_upload refutes, for the transfers
   that no request has listed yet.
2. If a model of tokio's file handle is wanted: `PartFile`, late writes of a dropped
   upload; `Registrations`, one ID in both protocols.
