# Verification of somethingremotelygood

TLA+ models, TLC runs and TLAPS proofs for the programs of this repository: a
manager that authenticates users by a signature from an ESP32, opens their
LUKS-encrypted home, starts their LXD container with that home bound into it,
watches the SSH session, and closes everything again; the firmware that keeps the
key, with the SSH agent bridge and the key tool at its serial line; and the
analysis programs that read the session log and the homes.

Paths below are those of the repository; `volume.c`, `server.c`, `lxd.c` and
`database.c` are in `src/manager/`, the Python programs in `wrapper/` and
`src/ai/`, and `main.cpp` is the firmware's (`esp32/ssh_agent/src/`).

## 1. Inventory

| Component | State | Operations | Interacts with |
|---|---|---|---|
| **Manager server** (`server.c`) | position of the one main thread, `server_running`, the session's container, poll counters | accept, verify, set up, poll, stop, `signal_handler`, `cleanup_worker` | volumes (calls, from three contexts), LXD, database |
| **Volumes** (`volume.c`) | `mounted_volumes`, `provisioning_active`, `homes/*.img`, `*.key`, `*_mnt`, device mapper, mounts | create, open, close, sweep, clean up all | kernel, server, `make cleanup-luks`, command analysis |
| **LXD commands** (`lxd.c`) | none of its own: LXD's containers | create, start, stop, remove, SSH and user set-up, port | volumes (closes homes), LXD |
| **Registry** (`database.c`, `cli.c`, `crypto.c`) | SQLCipher file: users, containers, keys, session events | register, add container, look up, log event | server, AI scripts, the command line |
| **Client** (`src/client`) | keys offered by an agent | challenge-response over TCP, then SSH | server, SSH agent |
| **Bridge** (`wrapper/esp32_agent_bridge.py`) | serial line, lock, Unix socket | identities, sign, unlock, lock | client, firmware |
| **Key tool** (`wrapper/esp32_keytool.py`) | none | the firmware's serial commands | firmware |
| **Firmware** (`esp32/ssh_agent`) | NVS entries of the key, the unlocked key in memory | generate, encrypt, unlock, sign | bridge, key tool |
| **AI** (`src/ai`) | reports, temporary mounts | baseline, anomaly flags, command analysis, sanitizing | database, homes |
| **Operator targets** (`Makefile`) | none | `clean-containers`, `cleanup-luks` | LXD, device mapper |

What makes the system hard is in the volumes and their callers. Three contexts
run `volume.c` on one table without a lock: the main thread, the cleaner thread
every ten seconds, and the signal handler on the main thread's stack. Each call
waits for child commands that take seconds and may fail, and nearly every
result is ignored. The manager may die at any point; files, devices, mounts and
containers survive it, the table does not. Elsewhere: an unframed TCP
handshake, a serial line shared by threads with time-outs, and NVS records
written piece by piece.

What makes each part correct:

- *volumes*: at most one live entry per container; every mounted home has an
  entry; indices stay valid; a home image is absent or complete; no key is left
  on disk; whatever was left by a crash does not keep a user out.
- *server*: every session ends and leaves its home closed; the cleaner leaves
  sessions being set up alone and closes what nobody uses; a signal leads to an
  exit; the event log pairs every connection with one end.
- *registry*: a container belongs to one user; a key is that of its container.
- *client, bridge, firmware*: a signature answers the challenge it was asked
  for; an answer belongs to its request; a stored key is old or new, never a
  mixture; a locked key does not sign.
- *AI*: durations and flags follow from the event log; the analysis does not
  disturb a live home; no command escapes the data markers.

`PROJECT.json` lists every component with its status and every hazard with the
line where it bites and the properties that cover it.

## 2. Plan

Done, in this order:

1. `HomeVolumes`, `Manager`, `SessionLog` - the manager, composed of its three
   threads, and what its event log promises; every safety property proved.
2. `KeyDevice` - the key in flash and in memory, the serial commands, power
   loss; composed with `AgentBridge` (threads, lock and time-outs on the serial
   line) and with `KeyTool` (one process after the other on the same line);
   every safety property of both compositions proved.
3. `SessionStats`, `AnomalyDetect`, `UserBaseline` - the statistics as operators
   against reference definitions, and the programs around them beside a manager
   that goes on logging; every property proved.
4. `Sanitizer`, `CommandAnalysis` - the limits and filters as operators, and the
   mounts of the analysis beside the manager's; every property proved.

Left out, with the reason:

- `AuthProtocol`, `SshWire` - the handshake and the parsers of `agent.go`. Their
  states are positions in byte streams; what `Manager` needs of them is one
  step with three outcomes, and anything finer would be a model of bytes.
- `Registry` - each command line runs one SQL statement in a process of its own.
  There is no interleaving to explore.
- The refinement of an atomic key store by `KeyDevice` does not hold: power lost
  between two of the six writes leaves a mixed record.
  `SignsWithOwnKey`, `LockedForgets` and `RightPasswordUnlocks` say what holds
  nevertheless.

## 3. Modules

| Module | Models |
|---|---|
| `HomeVolumes.tla` | `volume.c`: the table, the sweep of the cleaner (`BeginSweep`, `Probe`), closing (`volume_close_encrypted_home`, `CloseUmount`, `CloseCrypt`, `CloseRmdir`); the rules of kernel and LXD the code depends on |
| `Manager.tla` | `server.c` and `lxd.c`, creating and opening in `volume.c`, the signal handler, `Makefile` targets, crashes; the properties |
| `SessionLog.tla` | the promise of the session event table to its reader (`src/ai/anomaly_detect.py:47-59`) |
| `KeyDevice.tla` | `main.cpp`: the NVS record, the globals, the serial commands, the writes of a generated key, power loss; the loop in which a program on the host reads the line |
| `AgentBridge.tla` | `esp32_agent_bridge.py`: accept loop, one thread per connection, `serial_lock`, time-outs, `shutdown`; EXTENDS `KeyDevice` |
| `KeyTool.tla` | `esp32_keytool.py`: its five options, run one after the other; EXTENDS `KeyDevice` |
| `SessionStats.tla` | the statistics of `anomaly_detect.py` as operators, with `DurationsOf` as the reference definition of a session's length |
| `AnomalyDetect.tla` | `anomaly_detect.py` on the tables of `db_access.py`, beside the manager's logging |
| `UserBaseline.tla` | `generate_user_baseline.py`, before or between the detector's runs |
| `Sanitizer.tla` | `sanitizer.py` as operators |
| `CommandAnalysis.tla` | `command_analysis.py` beside the manager's opening and closing of homes |
| `MCManager.tla`, `MCAnalysis.tla` | values and symmetry for TLC |

### The manager

**State.** `mounted_volumes` and `provisioning_active` are the globals of
`volume.c`. `image`, `keyfiles`, `dirs` and `plain` are the files of
`./homes` (`plain`: files that landed in a mount point while nothing was
mounted on it). `mapper` and `mounts` are the kernel's, `lxc` is what
`lxc list` says, `homed` the containers that have the device `home` in their
configuration, and `bound` the running ones whose `/home` is the
encrypted filesystem. `pc` is where the main thread is in
`start_manager`/`handle_client`; `at`, `cur` and `ent` say, for each of the
three contexts, which call of `volume.c` it waits in, the index of its loop and
the entry it is closing.

**Steps.** A step is what a thread does up to the return of its next blocking
call; the plain memory accesses between two such calls belong to it. This is
coarser than the machine, which may interleave two threads inside a C
statement: the data race on the table's pointer (`volume.c:220`) is listed as a
hazard and not modelled. The several commands of `lxd_create_user_and_setup`,
of `cleanup_stale_mapper`, of `lxd_create_container` and of the
handshake are one step each, as nothing another thread does in between depends
on how far they are; their partial failures are among the step's outcomes.
`lxd_setup_network` is left out: its result is ignored and nothing depends on it.

**External rules.** The kernel and LXD are modelled from how the code uses them:
`cryptsetup close` fails on a device that is mounted or bound in a running
container; `cryptsetup open` fails on an open device name and without a LUKS
header; `rmdir` fails on a mount point and on a directory with files; `lxc
start` needs a stopped container and the source directory of its disk device,
and binds what is there - the mounted home or the bare directory; `umount` on
the host succeeds although a container has the filesystem bound, since it has
a mount of its own; `lxc list` takes a name for the beginning of one
(`Namesakes`), and `is_container_running` reads the first line of its answer.

**Undefined behaviour.** `volume_open_encrypted_home` measures two buffers
before writing them (lines 162-163): the action `OpenRefused` may always refuse
the call. After the signal handler has freed the table, a thread that comes back
to its index finds any container (`NamedBy`), writes nowhere (`Cleared`), or
dies (`Dangling` enables `Crash`).

**Failures.** The constant `Faults` names the commands that may fail at will,
those of the error paths included (`delete`: a half-configured container that
stays, with or without its home device).
`Events` names what may happen around the manager: a container that exits by
itself, `make clean-containers`, `make cleanup-luks`, one signal, and crashes
with a restart.

### The key and its serial line

**State of the device.** `nvs` and `ram` are the flash namespace and the globals
of the firmware. A key is a number: key `k` is the k-th the device made, and its
salt, IV and encrypted seed carry the same number, so that a record whose parts
stem from different keys differs from a whole one. `step` is the next of the six
writes of `generateEncryptedKey` (`WriteNvs`), `Reset` loses power between any two
steps and runs `loadKeys` (`Loaded`). `Decrypted` is what AES-CBC with its padding
check yields: with the right key and a foreign IV only the first block is wrong
and nothing shows; with a wrong key the last byte is a valid padding now and then
(`"short"`).

**Unlocking.** `HandleUnlock` may fail in the crypto library, in `deriveKey` without
touching the private key or in `decryptSeed` with the key zeroed, before the
password has been tried.

**The line.** `toDev` holds requests, `fromDev` what the host has not read: debug
`text`, a `frame` (an answer), or the `rest` of a frame whose first bytes were
taken before a reader gave up (`Abandon`). The readers of both programs are the
same loop: `Skip` text, `Take` a frame, `Misread` a rest as an answer of any type
that swallows what follows. After the header of an oversized packet (`HandleHuge`)
the device reads the bytes of its body as packets, up to `MaxBody` of the kinds in
`BodyKinds`; a packet that ends too soon (`HandleFragment`) is dropped after five
seconds, or takes the beginning of the next one for its rest, after which the
device is out of step in the same way (`OutOfStep`).

**Bridge.** `pc[c]` is the blocking call the thread of connection `c` waits in. A
thread's step goes from one such call to the next: `ReadLength`, `ReadData` with
`Dispatch` to the handlers, `StreamTimeout` (thirty seconds without a byte),
`SendToDevice` (takes `serial_lock`), the reads of `recv_from_esp32`, `SendReply`.
A client writes length and body separately, may be several pieces ahead, and may
hang up anywhere (`stream`, `owes`). `Shutdown` closes the socket, then the
port, under the running threads.

**Key tool.** `at` is where the process is, `op` and `secret` its command line.
`Start` opens the port and empties the input buffer while an answer may be coming
in; `PortFails` is the exception of the serial library. `--generate` without a
password sends nothing and listens (`ReadLine`, `StopListening`).

**History variables.** Of the device: `spoiled` names what has gone wrong with the
key and cannot be noticed by the code - `torn` (power lost among the writes),
`failed` (a generation that failed after the new pair was made, until the next
restart), `padding` (a wrong password that passed); `unlockedBy` is the request
that unlocked, `untried` the last unlock whose password was never tried. Of the
bridge: `last` is the request whose answer was taken last, `missed` counts the
exchanges that took no answer of their own, `acked` is the last lock whose own answer was
a success. Of the tool: `quiet` says that the device had nothing else in hand when
the request was sent, `before` how many keys there were, `restarted` that the device
lost power since. The code sees none of these: the protocol's answers carry no
request number, and the record has no checksum.

### The analysis programs

**Detector.** `sessions` and `anomaly_reports` are the tables: sets of rows with
the AUTOINCREMENT identifiers of SQLite, which are never given out twice, also after
`--clean` (`session_id`, `report_id` are the last ones). Every SQL statement
is a process of its own and one step; between the two queries of `analyze_user`
(`ReadBaseline`, `ReadRecent`) the manager may log rows and the clock may advance.
`get_sessions` orders by time only, so rows of one second come in any order
(`ties`). Z-scores are compared over the integers (`Deviant`); thresholds, hours
per day and the window are constants, so that small instances reach each branch.
The manager's side logs what `SessionLog` allows: rejected clients (`Reject`),
sessions, and sessions that fail, are stopped or killed and leave no end
(`Abandon`). A query may fail and end the program (`DetectorFails`). As history,
`opened` and `ended` keep the identifiers of a session's connection and end, to
compare the pairs of `compute_durations` with. The clock does not go back, and the
manager's sleeps keep the rows of one session apart (`now > since`); rows of one
second that the generator writes do meet.

**Generator.** `day` and `n_sessions` are the variables of its two loops; the number
of sessions is drawn when the outer loop turns to a day (`TurnTo`), time and length
in `WriteSession`, where a session is three inserts in one step, as nothing reads
the table while the generator runs. `StartTimes` is the code's arithmetic on local
time, the hour added to the time of the run included.

**Statistics.** `ComputeDurations` is the loop with its table of pending connections
(`Pairing`, `PairUp`), `DurationsOf` what a reader of the same rows would pair. Both
are recursive functions or sets and not RECURSIVE operators, so that they can be
reasoned about.

**Command analysis.** Each command of `mount_volume` and `unmount_volume` is a step
that may fail, where the code looks at its result and where it does not
(`CloseOrLeave`, `Detach`, `UnmountVolume`). `mounts[c]` is the stack of
devices on a mount point - `umount` takes the top one, whoever mounted it -
`mapper` the open devices under the two programs' names, `loops` the loop devices
that the program has attached. The manager's four steps (`ManagerOpens` to
`ManagerCloses`) interleave with them. `sub` is the history in a directory of the
home named after the user, where the code looks, `own` the one the shell writes.
History: `busy` are the homes whose last umount failed, `left` those where a close or a
`losetup -d` came to nothing, `crossed` those where the manager mounted or unmounted
across the program's mount.

**Sanitizer.** A line is its place, whether it was cut, and where in it one of the
patterns matches: within the first 200 characters (`MAX_LINE_LENGTH`), only beyond, or nowhere.

## 4. Runs

The first six runs are those of the manager. They use two containers, so that
a session meets another one's leftovers, and `Core` three sessions, so that a
container is opened, cleared and opened again with another entry in the table
between (`MaxSessions` is the only bound on behaviour the code does not have). The
polling loops of 60 polls, 3 empty polls and 86400 polls become `ConnectWait`,
`EmptyPolls` and `MaxChecks` of one or two: every loop is entered, repeated, reset
and left by each of its exits. The sets of containers are symmetric; no symmetry is
used where liveness is checked or where one container's name begins the other's.

| Run | Question | Result |
|---|---|---|
| `Core` | All commands but `umount` fail at will, containers exit, the cleaner overlaps everything: are table, mounts, files and log in step? | holds, 2.1 million states |
| `Interrupts` | A signal, crashes and `cleanup-luks`: is what is left behind harmless to the next session, and does a signalled manager exit? | holds, 0.45 million states |
| `Live` | Does every session end, and does the cleaner unmount unused homes, with all commands but `umount` failing at will, the polls included, containers deleted, and one container's name the beginning of the other's? | holds, 0.24 million states |
| `HomeEncrypted` | "Container %s stopped and home encrypted" (`server.c:261`) | **violated** |
| `DataEncrypted` | "Container data encrypted at rest (LUKS)" (`README.md:140`) | **violated** |
| `Shutdown` | "Shutting down manager, cleaning up encrypted volumes..." (`server.c:34`) | **violated** |
| `Bridge` | Two clients, all kinds of messages, time-outs, late answers, oversized packets, shutdown: is every message answered or its connection closed, whose answer is it, and does an acknowledged lock hold? | holds, 0.59 million states |
| `LateAnswer` | "[*] Agent locked" (`esp32_agent_bridge.py:184`) | **violated** |
| `KeyTool` | Three commands on a device that is empty, sealed or holds a plaintext key, with power lost anywhere and a failing crypto library: is what the tool reports what the device did? | holds, 1.4 million states |
| `Detect` | Durations and flags against the sessions that took place, with a past, a generated baseline, rejected clients, abandoned sessions and a live session | holds, 1.0 million states |
| `Analysis` | Two runs over two containers, every command failing at will, those of the clean-up included, beside the manager: what is left behind or not reported? | holds, 8.0 million states |
| `HistoryRead` | "deep analysis of shell history from LUKS-encrypted volumes" (`README.md:91`) | **violated** |

The manager's `umount` fails in no passing run: its result is ignored
and the entry cleared, so that `MountsKnown`, `DoneUnmounted` and `CleanerCloses`
fail at once, while the way a session takes to its end does not depend on it.
Deadlock is checked, except where the system ends: a manager that exits
(`Interrupts`, `Shutdown`), a bridge that is shut down or whose clients have sent
all they may, a tool or an analysis that is run a bounded number of times.

Bounds of the later runs, and why they are enough:

- `Bridge`: two requests (`MaxRequests`), from one or from two clients, are the
  pair that a late or foreign answer needs; one piece ahead
  (`MaxAhead`) is a client that does not wait for its answer. The body of an
  oversized packet is read as at most one packet (`MaxBody`), an unlock or a fragment
  (`BodyKinds`): an answer that nobody waits for, or a packet that swallows the next.
  There is no restart of the device here (a request whose answer never comes is met by
  the deadline) and no body that is answered twice: for these, as for more clients and
  requests, `AnswersMatch` and `LockHolds` rest on their proofs. The device is shipped
  sealed, as the bridge never generates keys.
- `KeyTool`: two keys and two passwords, so that a record can mix an old key with
  a new one and an old password can meet a new record; three commands, for
  generate, unlock and sign; one power loss, anywhere. A plaintext key in flash is
  one that `generateEd25519Key`, which nothing calls any more, has left. The tool
  sends no oversized packet (`MaxBody` is 0).
- `Detect`: a day has eight hours of one time unit and the thresholds are scaled
  with it; one user with two containers, so that sessions of different
  containers interleave in one log; an earlier session that begins within the window,
  at its edge (so that it cuts the session in two) or before it, and that may have
  been killed; live sessions that connect, time out, are rejected or abandoned.
- `Analysis`: two containers, so that a failure with the first can touch the
  second; two runs, so that the second meets what the first left; the manager
  opens one home, at any moment. Histories are longer than the limit of lines
  and contain a line of each kind.

Time-outs need no clock: a deadline may pass whenever its wait is entered.

Properties, by what they relate:

- `UniqueMounted`, `IndexValid`, `MountsKnown` - the table against itself, the
  threads' indices and the kernel's mounts;
- `ImagesReady`, `KeyFileTransient` - the files against the session;
- `DoneUnmounted` - the end of a session against the mounts, when the cleaner is
  closing the same home;
- `StaleDeviceYields` - a session against what an earlier process left;
- `NoSweepStartsInSetup` - the flag against the cleaner (an action property);
- `LogImplementsPromise` - refinement of `SessionLog`;
- `SessionEnds`, `CleanerCloses`, `ShutdownEnds` - liveness;
- `AnswersMatch`, `LockHolds` - an answer against the requests sent before it and
  the exchanges that were given up, and an acknowledged lock against everything
  that is still on the line and in the device;
- `SignsWithOwnKey`, `LockedForgets` - the parts of the key in memory and in flash
  against each other, over generations and power losses;
- `SuccessIsReal`, `RightPasswordUnlocks` - the exit status of the tool against
  the device;
- `Answered`, `CommandEnds` - liveness with a device that may be dead;
- `DurationsPaired`, `DurationsReal` - the loop that pairs events against a
  reference definition, and the rows of both queries against the sessions that took
  place;
- `RecentInBaseline`, `EnoughDays` - the two queries against each other, and the
  busiest day against the number of days it is compared with;
- `CurrentSessionFlagged` - the generated baseline against the detector's verdict;
- `KeyFileGone`, `LeavesNoTrace` - the analysis' files, devices and mounts against
  its failures and the manager's moves;
- `AllReported`, `PromptFaithful` - the histories found against the reports, and
  the history against what the model is shown.

**The manager's three violations.** The cleaner reads `provisioning_active` once, before
its loop, and the main thread sets it after the home is open. A sweep that
begins in between (after a home's entry is appended, `volume.c:227`, and before
`server.c:129`) probes a container that does not run yet and closes its home
seconds later. If that happens before the container starts, the user works on
the host's own disk (`DataEncrypted`); if after, `cryptsetup close` fails, the
entry is cleared all the same, and the device is open when the session ends
(`HomeEncrypted`). A signal handler that interrupts a session cleans up
first and lets the session go on: its container still holds the device, the close
fails, and nothing closes it later (`Shutdown`).

**The bridge's violation.** The bridge takes the first answer it finds: an unlock that
was given up answers the lock that follows, and the client is told that the key is
locked while it is not (`LateAnswer`). Everything else that a late answer can do is
bounded by `AnswersMatch`.

**The analysis' violation.** The analysis mounts the volume, which is the
user's home itself, and looks in it for a directory with the user's name; the shell's
history lies in the root of the volume (`HistoryRead`: a home with a history is
opened, nothing is found, and the program ends with 0).

**What the other properties except.** These are behaviours of the code that the models
have and the properties name, so that they hold of everything else:

- power lost after the first of the six writes of a key leaves the new public half with
  the old seed, salt and IV, which the device loads as a key (`torn`, in
  `SignsWithOwnKey`, `LockedForgets`, `RightPasswordUnlocks`);
- the padding check accepts any valid padding although a seed is always followed by
  sixteen bytes of 0x10 (`main.cpp:118`), so that now and then a wrong password
  unlocks the device with garbage for a private key (`padding`);
- without `--password`, `generate_key` prints that it sends the command, but sends
  nothing, reads lines for thirty seconds and returns success
  (`esp32_keytool.py:87-101`; `StopListening`: `SuccessIsReal` speaks of answers taken);
- the analysis looks at no result of its own clean-up and ends well with a device open
  (`left`, `busy` in `LeavesNoTrace`);
- the detector pairs the connection of a session whose manager was killed with the
  time-out of a later one in the same container that nobody connected to, a duration no
  session had (the last case of `DurationsReal`).

**Fairness.** In `Bridge`, weak fairness of each thread (`ThreadStep`): a thread
that can run does, its deadlines pass, and a free lock is taken. In `KeyTool`, weak
fairness of the tool's own steps (`ToolStep`), without `PortFails`: the port need
not fail for a command to end. In both nothing is asked of the device, so that a
dead device is among the behaviours; nor of clients or operator. In the manager's
runs, weak fairness of the main thread inside a session, of the
cleaner and of the signal handler: commands return and threads are scheduled.
None is assumed of clients (`Accept` and the verdict on a signature may never
happen), of containers or of the operator. `ShutdownEnds` therefore excepts a
client that has connected and says nothing, which the code waits for without a
time-out.

## 5. Proofs

For every set of containers, every set of failing commands, every number of
polls and sessions (within the named assumptions `FaultsAssumption`,
`NamesakesAssumption`, `PollsAssumption`, `EventsAssumption`, `MaxSessionsAssumption`); for every set of
clients, passwords, shipped devices and every number of keys, resets, requests
and runs (`ClientAssumption`, `CommandAssumption`, `PasswordAssumption`,
`ShippedAssumption`, `BodyAssumption`, `BoundAssumption`, `RunsAssumption`); for every set of
homes, test directories and answers of the model and every limit of lines
(`AnalysisAssumption`, `LimitAssumption`); and for all users and containers, every
length of the hour, the day and the window, every clock, every number of sessions and
every set of positive thresholds (`StatsAssumption`, `DetectAssumption`,
`ClockAssumption`, `GeneratorAssumption`). The last two say that the clock stands
long after the epoch, so that no row has a negative time; a window of at least one
day is needed, as a shorter baseline would not contain the day held against it:

| Theorem | Statement | Excluded |
|---|---|---|
| `TypeCorrect` | `[]TypeOK` | nothing |
| `UniqueCorrect` | `[]UniqueMounted` | nothing |
| `NoSweepCorrect` | `NoSweepStartsInSetup` | nothing |
| `IndexCorrect` | `[]IndexValid` | signals |
| `ImagesReadyCorrect`, `KeyFileTransientCorrect` | `[]ImagesReady`, `[]KeyFileTransient` | signals, crashes |
| `LogCorrect` | `Spec` implements `SessionLog` | signals, crashes |
| `MountsKnownCorrect` | `[]MountsKnown` | signals, crashes, failing `umount` |
| `DoneUnmountedCorrect` | `[]DoneUnmounted` | signals, failing `umount` |
| `StaleDeviceCorrect` | `[]StaleDeviceYields` | failing `umount`, containers that stop by themselves |
| `BridgeTypeCorrect`, `ToolTypeCorrect`, `AnalysisTypeCorrect`, `BaselineTypeCorrect` | `[]BridgeTypeOK`, `[]ToolTypeOK`, `[]AnalysisTypeOK`, `[]BaselineTypeOK` | nothing |
| `BridgeAnswersMatch` | `[]AnswersMatch` | nothing; after `k` exchanges without an answer of their own the answer may be up to `k` requests late |
| `BridgeLockHolds` | `[]LockHolds` | locks acknowledged by an answer that was not their own |
| `KeySignsWithOwnKey` | `[]SignsWithOwnKey` | torn records; an accidental padding, after which the private key is garbage |
| `KeyLockedForgets` | `[]LockedForgets` | for the memory: a generation that failed; for the record: power lost among its writes |
| `ToolSuccessIsReal` | `[]SuccessIsReal` | answers that are not the run's own, possible only if something was on its way when it began; for all but `generate`, what the device did before a restart |
| `ToolRightPasswordUnlocks` | `[]RightPasswordUnlocks` | for the right password: an unlock the crypto library did not carry out, torn records, failed generations; for a wrong one: nothing |
| `KeyFileGoneCorrect` | `[]KeyFileGone` | nothing |
| `LeavesNoTraceCorrect` | `[]LeavesNoTrace` | homes where a close or `losetup -d` came to nothing (`left`), or where the manager mounted or unmounted across the program's mount (`crossed`) |
| `AllReportedCorrect` | `[]AllReported` | histories of homes that could not be opened, which the program skips |
| `PromptFaithfulCorrect` | `[]PromptFaithful` | nothing |
| `DurationsPairedCorrect` | `[]DurationsPaired` | nothing |
| `DurationsRealCorrect` | `[]DurationsReal` | pairs with a generated row; a connection whose session was killed, paired with a time-out |
| `RecentInBaselineCorrect`, `EnoughDaysCorrect` | `[]RecentInBaseline`, `[]EnoughDays` | users for whom a row was logged between the two queries |
| `CurrentSessionFlaggedCorrect` | `[]CurrentSessionFlagged` | the same, and normal hours next to midnight |
| `ComputeDurationsCorrect` | `ComputeDurations(rows) = DurationsOf(rows)` for every sequence of rows | nothing |
| `DeviantBound` | the largest of `n` counts lies at most `(n - 1) / sqrt(n)` sample deviations above their mean | nothing |

The exclusions are needed: what is excluded happens in the model and in the code
(section 4). A crash in the middle of a session leaves half an image, a key, an open
connection event or a mount without an entry; a signal handler frees the table
under the other threads, which may then crash.

The argument:

- `ManagerProofs` proves types, one lemma per group of actions, and what the
  helpers on the table return (`ClearedTable`, `AddedEntry`, `NextIndex`,
  `EntryIndex`).
- The second part of `ManagerProofs`: the table only ever loses a live entry, is emptied, or gains
  the entry of a home just mounted (`TableStep`). `UniqueMounted` is not
  inductive: between the look at the table and the new entry lie two blocking
  commands. `Pending` says that in between no entry of the container exists.
  For the indices, `CallStep` says all a thread can do inside `volume.c`, and
  `TableKeeps` that without a signal the table never shrinks.
- `ManagerHomes`: `MountsKnown` needs to know that who clears an entry has
  unmounted it and that it was not mounted again since (`Emptied`), which in
  turn needs `Pending`, the indices and the uniqueness of entries. `Closing`
  says that at the end of a session the main thread is closing the only entry
  its container can have. After a crash `MountsKnown` is lost, but not for the
  session's own container once it is past the stale-device clean-up (`Known`,
  which needs that mounts lie on open devices, `Backed`); with `Closing` this
  gives `DoneUnmounted`.
- Its second part: `ImagesInv` and `KeysInv` say at which points of the creation
  the files exist; `Provisioned` ties the flag to the set-up; `DeviceFree`
  carries the clean-up of a stale device to `cryptsetup open`.
- The last part of `ManagerHomes`: each step of the manager is a step of
  `SessionLog` or leaves its view unchanged, under the mapping `LogPhase`,
  `LogContainer`.
- `KeyDeviceProofs`: `KeyInv` is inductive under every step of the device and of a
  host that only reads and writes the line (`KeyInvSteps`, `KeyInvHost`), so both
  compositions use it. `SignsWithOwnKey` alone is not inductive: while a key is
  generated the memory is ahead of the flash (`WritesInOrder`), a reboot loads what
  the flash has (`RecordWhole`), and an unlock decrypts with the salt and the IV
  loaded then (`MemoryWhole`).
- `BridgeProofs`: `AnswersMatch` needs to know what is on the line at all times. The
  answers on it come in the order of their requests and before every request the
  device has not read (`LineInv`), and one answer is
  left behind by each exchange that took none: `missed` counts the answers that may
  still be ahead of a request's own, those of an oversized packet included. For
  `LockHolds`: from the moment the device has carried out a lock, only requests sent
  after it are on the line, and only they can unlock; the acknowledgement carries
  the lock's own number (`LockPending`, `LockedSince`).
- `KeyToolProofs`: the invariant follows a request that was sent to an idle device
  while it waits on the line, is worked on and is answered; `Effect` is what an
  answer of each type says of the device, and it survives whatever the device and the
  tool can still do, up to a restart (`Waiting`, `Concluded`).
- `AnalysisProofs`: the invariant ties the mounts, devices and loop devices of every
  home that is neither `left` nor `crossed` to the manager's state and the program's
  place (what the program has open, and that its mount is on top);
  `LeavesNoTrace` is its end. `DueInv` says that a failure is remembered to the end
  and that before one only the container in hand waits for its report. `FlowInv`
  ties `needs` to the clean-up. `Sanitized` is proved of the operators for every
  history and limit.
- `StatsProofs`: what the recursive functions of the detector compute. The prover
  has no induction rule to cite for them, but the induction itself is one of sets:
  the numbers up to `n` that satisfy a statement contain 0 and every successor
  (`SetInduction`). `PairingOK` is the loop's invariant, `PairingStep` one pass of
  it: after `n` rows the pending containers are those whose last event was a
  connection, and the lengths found are those of the paired ends among these rows;
  `ComputeDurationsCorrect` is its end. `DeviantBound` is the Cauchy-Schwarz
  inequality over finite sets of days (`CauchySums`): sums are taken apart one day
  at a time (`SumRemove`), and every step is one inequality of squares.
- `DetectProofs`: the invariant is `DetectInv`. None of the properties is inductive,
  as each compares what two earlier queries returned with a table that has gone on
  growing. `IdsInv` says that identifiers are given out once and in order.
  `BaselineInv`: an answer has every row of the table up to any row it has, so what
  is missing in it was logged later. `RecentInv`: what of the last day is in the
  first answer is in the second, and the other way round unless something was logged
  in between.
  `OrderInv`: of the rows that the manager logs for sessions, the order of identifiers is
  the order of times, strictly. `EndsInv`: a recorded pair of a connection and an end
  belongs to one container, with no row of a session between them. `LiveInv` says the
  same of the session that is on. `HourInv`: no generated connection has the hour of
  the run, which is arithmetic on the length of the day (`HourApart`).
  `PairIsSession` puts them together for `DurationsReal`: between the connection and
  the end that the loop pairs lies no row of that container in the answer, which has
  every row of the table between two of its own; so the two are a recorded pair, or
  the connection has no end and the end no connection. For `EnoughDays`, the last day's connections
  are among the baseline's of the same day (`DayWithin`), so that `DeviantBound` limits
  how far its count can stand out.

Only model-checked: the five liveness properties (`SessionEnds`, `CleanerCloses`,
`ShutdownEnds`, `Answered`, `CommandEnds`), since fairness is out of the prover's
reach. Every invariant and every action property of a passing run is proved.

## 6. Not modelled

Everything marked `not_modelled` in `PROJECT.json`: the Ed25519 arithmetic of the
firmware (255-bit numbers), the PDF and test-data generators, the unused Docker
back end, build files and documents, the registry's SQL and the bytes of the
handshake.

Within the modelled parts:

- *manager*: the contents of the homes, port and address allocation, root and
  path-length checks, log output;
- *firmware*: the bytes of a packet that is read out of step (which packets they make
  is a choice among `BodyKinds`); `generateEd25519Key`, which no command reaches (only the record it
  leaves is met);
- *bridge and tool*: two programs that have the serial port open at once; a port
  that is unplugged while the bridge runs (other than by its shutdown);
- *detector*: the conversion of column values by the reader of `sqlcipher`'s output
  (`db_access.py:42-52` makes numbers of user names that look like numbers), the
  listing of pending reports and `--dry-run`, which change nothing;
- *analysis*: a process killed while it holds a key file; an exception in
  `mount_volume` between two commands (`os.makedirs` on a full disk, a command that
  is not installed), which leaves what was opened before it; the name of the JSON
  file, under which two reports of the same second overwrite one another; `--list`.
