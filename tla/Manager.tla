-------------------------------- MODULE Manager --------------------------------
(***************************************************************************)
(* The container manager: start_manager and handle_client (server.c), the  *)
(* LXD operations they call (lxd.c) and the opening and creation of a home *)
(* (volume.c), run by the main thread, one client at a time; the cleaner   *)
(* thread (cleanup_worker); the signal handler, which interrupts the main  *)
(* thread; and what the environment does to the containers meanwhile.      *)
(***************************************************************************)
EXTENDS HomeVolumes

CONSTANTS
    ConnectWait,  (* polls for a first SSH connection: 60                   *)
    EmptyPolls,   (* polls without a connection that end a session: 3       *)
    MaxChecks,    (* polls of a connected session: 86400                    *)
    Events,       (* what may happen around the manager                     *)
    MaxSessions   (* bound on the clients accepted; the code has none       *)

ASSUME PollsAssumption ==
    ConnectWait \in Nat /\ EmptyPolls \in Nat \ {0} /\ MaxChecks \in Nat
ASSUME EventsAssumption == Events \subseteq 
    {"exit", "delete", "luks", "signal", "crash"}
ASSUME MaxSessionsAssumption == MaxSessions \in Nat

VARIABLES
    pc,           (* where the main thread is in start_manager/handle_client *)
    containerid,  (* the container of the session being served              *)
    polls,        (* connect_wait, then check_count                         *)
    empty_count,
    log,          (* the rows of the session event table                    *)
    sessions,     (* clients accepted so far                                *)
    server_running

clientVars == <<pc, containerid, polls, empty_count>>
serverVars == <<sessions, server_running>>
vars == <<homeVars, clientVars, log, serverVars>>

None == "none"

CreatePCs == {"create", "dd", "format", "luksopen", "mkfs", "unmkfs", "luksclose"}
OpenPCs   == {"open", "cryptopen", "mount", "provision"}
SetupPCs  == {"sshdir", "start", "init", "restart", "user", "sshd", "port"}
PollPCs   == {"wait", "watch"}
EndPCs    == {"stop", "done", "failclose", "return"}
SessionPCs == CreatePCs \cup OpenPCs \cup SetupPCs \cup PollPCs \cup EndPCs
PCs == {"accept", "auth", "exited"} \cup SessionPCs

LogRow == [event : {"auth_fail", "auth_ok", "ssh_connected",
                    "ssh_disconnected", "timeout"},
           container : Containers \cup {None}]

TypeOK ==
    /\ HomeTypeOK
    /\ pc \in PCs
    /\ containerid \in Containers \cup {None}
    /\ pc \in SessionPCs => containerid \in Containers
    /\ polls \in Nat
    /\ empty_count \in Nat
    /\ log \in Seq(LogRow)
    /\ sessions \in Nat
    /\ server_running \in BOOLEAN

Init ==
    /\ HomeInit
    /\ pc = "accept"
    /\ containerid = None
    /\ polls = 0
    /\ empty_count = 0
    /\ log = << >>
    /\ sessions = 0
    /\ server_running = TRUE

(***************************************************************************)
(* The main thread.  It takes a step of handle_client only when it is not  *)
(* inside a call of volume.c and no signal handler runs on its stack.      *)
(***************************************************************************)
MainAt(label) == pc = label /\ at["main"] = "out" /\ at["signal"] = "out"

Goto(label) == pc' = label /\ UNCHANGED <<containerid, polls, empty_count>>

(* handle_client returns, and start_manager goes back to accept.           *)
Return == Goto("return")
Finish == pc' = "accept" /\ containerid' = None /\ polls' = 0 /\ empty_count' = 0

Log(event, c) == log' = Append(log, [event |-> event, container |-> c])

(* accept, and the sweep with which handle_client begins.                  *)
Accept ==
    /\ MainAt("accept")
    /\ server_running
    /\ sessions < MaxSessions
    /\ sessions' = sessions + 1
    /\ BeginSweep("main")
    /\ Goto("auth")
    /\ UNCHANGED <<tableVars, fileVars, deviceVars, lxdVars, log, server_running>>

(* Mutant of Exit: a failed accept is retried whatever server_running says. *)
Exit_Retries == MainAt("accept") /\ ~server_running /\ UNCHANGED vars

(* Once the handler has closed the socket accept fails, the loop ends and  *)
(* the cleaner is joined.                                                  *)
Exit ==
    /\ MainAt("accept")
    /\ ~server_running
    /\ at["cleaner"] = "out"
    /\ pc' = "exited"
    /\ UNCHANGED <<homeVars, containerid, polls, empty_count, log, serverVars>>

(* The client leaves, sends too little, or names no user.                  *)
ClientGone ==
    /\ MainAt("auth")
    /\ Finish
    /\ UNCHANGED <<homeVars, log, serverVars>>

VerifyFails ==
    /\ MainAt("auth")
    /\ Log("auth_fail", None)
    /\ Finish
    /\ UNCHANGED <<homeVars, serverVars>>

(* Mutant of VerifySucceeds: the session goes on without its container.    *)
VerifySucceeds_NoContainer(c) ==
    /\ MainAt("auth")
    /\ Log("auth_ok", None)
    /\ Goto(IF image[c] = "none" THEN "create" ELSE "open")
    /\ UNCHANGED <<homeVars, serverVars>>

(* The signature is good; then the container is not the user's, or its key *)
(* is found and its home is created first when there is no image file.     *)
VerifySucceeds(c) ==
    /\ MainAt("auth")
    /\ Log("auth_ok", None)
    /\ \/ Finish
       \/ /\ pc' = IF image[c] = "none" THEN "create" ELSE "open"
          /\ containerid' = c
          /\ UNCHANGED <<polls, empty_count>>
    /\ UNCHANGED <<homeVars, serverVars>>

(***************************************************************************)
(* volume_create_encrypted_home                                            *)
(***************************************************************************)
(* Mutant of CleanupStaleMapper: the device is closed, never unmounted.    *)
CleanupStaleMapper_NoUmount(c) ==
    /\ mapper' = MapperAfterClose(c, mounts)
    /\ UNCHANGED mounts

(* cleanup_stale_mapper: whatever holds the device is unmounted, and the   *)
(* device closed if that leaves it free.                                   *)
CleanupStaleMapper(c) ==
    \/ c \notin mapper /\ UNCHANGED <<mapper, mounts>>
    \/ /\ c \in mapper
       /\ mounts' \in UmountResults(c)
       /\ mapper' = MapperAfterClose(c, mounts')

WriteKey(label) ==
    \/ keyfiles' = keyfiles \cup {containerid} /\ Goto(label)
    \/ Fails("key") /\ UNCHANGED keyfiles /\ Return

CreateBegin ==
    /\ MainAt("create")
    /\ CleanupStaleMapper(containerid)
    /\ \/ image[containerid] # "none" /\ Goto("open") /\ UNCHANGED keyfiles
       \/ image[containerid] = "none" /\ WriteKey("dd")
    /\ UNCHANGED <<tableVars, image, dirs, plain, lxdVars, callVars, log, serverVars>>

(* Mutant of CreateCleanup: the image file stays.                          *)
CreateCleanup_KeepsImage ==
    /\ keyfiles' = keyfiles \ {containerid}
    /\ Return
    /\ UNCHANGED image

(* Mutant of CreateCleanup: the key file stays.                            *)
CreateCleanup_KeepsKey ==
    /\ image' = [image EXCEPT ![containerid] = "none"]
    /\ Return
    /\ UNCHANGED keyfiles

(* The label cleanup: both files are removed and ERR ENCRYPT_HOME sent.    *)
CreateCleanup ==
    /\ keyfiles' = keyfiles \ {containerid}
    /\ image' = [image EXCEPT ![containerid] = "none"]
    /\ Return

(* A command of the creation that works leaves the image in the given      *)
(* state.                                                                  *)
CreateCommand(label, command, contents, next) ==
    /\ MainAt(label)
    /\ \/ /\ image' = [image EXCEPT ![containerid] = contents]
          /\ Goto(next)
          /\ UNCHANGED keyfiles
       \/ Fails(command) /\ CreateCleanup
    /\ UNCHANGED <<tableVars, deviceVars, lxdVars, callVars, log, serverVars>>

CreateImage  == CreateCommand("dd", "dd", "blank", "format")
FormatImage  == CreateCommand("format", "format", "luks", "luksopen")

OpenNewImage ==
    /\ MainAt("luksopen")
    /\ \/ /\ containerid \notin mapper
          /\ mapper' = mapper \cup {containerid}
          /\ Goto("mkfs")
          /\ UNCHANGED fileVars
       \/ /\ containerid \in mapper \/ Fails("luksopen")
          /\ CreateCleanup
          /\ UNCHANGED mapper
    /\ UNCHANGED <<tableVars, mounts, dirs, plain, lxdVars, callVars, log, serverVars>>

MakeFilesystem ==
    /\ MainAt("mkfs")
    /\ \/ /\ containerid \in mapper
          /\ image' = [image EXCEPT ![containerid] = "ready"]
          /\ Goto("luksclose")
       \/ /\ containerid \notin mapper \/ Fails("mkfs")
          /\ Goto("unmkfs")
          /\ UNCHANGED image
    /\ UNCHANGED <<tableVars, keyfiles, deviceVars, lxdVars, callVars, log, serverVars>>

UndoFilesystem ==
    /\ MainAt("unmkfs")
    /\ mapper' = MapperAfterClose(containerid, mounts)
    /\ CreateCleanup
    /\ UNCHANGED <<tableVars, mounts, dirs, plain, lxdVars, callVars, log, serverVars>>

CloseNewHome ==
    /\ MainAt("luksclose")
    /\ mapper' = MapperAfterClose(containerid, mounts)
    /\ keyfiles' = keyfiles \ {containerid}
    /\ Goto("open")
    /\ UNCHANGED <<tableVars, image, mounts, dirs, plain, lxdVars, callVars, log, serverVars>>

Create == \/ CreateBegin \/ CreateImage \/ FormatImage \/ OpenNewImage
          \/ MakeFilesystem \/ UndoFilesystem \/ CloseNewHome

(***************************************************************************)
(* volume_open_encrypted_home                                              *)
(***************************************************************************)
(* The lengths of two buffers are taken before they are written: on what   *)
(* the stack holds, the call is refused.                                   *)
OpenRefused ==
    /\ MainAt("open")
    /\ Return
    /\ UNCHANGED <<homeVars, log, serverVars>>

(* Mutant of AlreadyOpen: the table is not consulted.                      *)
AlreadyOpen_NotConsulted(c) == c \notin Containers

AlreadyOpen(c) == HasEntry(mounted_volumes, c)

(* The stale mapper is cleaned up before the table is consulted: a home    *)
(* with a mounted entry is reported as mounted whatever that did.          *)
OpenBegin ==
    /\ MainAt("open")
    /\ \/ /\ image[containerid] = "none"
          /\ Return
          /\ UNCHANGED <<mapper, mounts, keyfiles>>
       \/ /\ image[containerid] # "none"
          /\ CleanupStaleMapper(containerid)
          /\ \/ AlreadyOpen(containerid) /\ Goto("provision") /\ UNCHANGED keyfiles
             \/ ~AlreadyOpen(containerid) /\ WriteKey("cryptopen")
    /\ UNCHANGED <<tableVars, image, dirs, plain, lxdVars, callVars, log, serverVars>>

(* cryptsetup open needs a LUKS header and a free device name; the key     *)
(* file goes in either case.                                               *)
CryptOpen ==
    LET opens == image[containerid] \in {"luks", "ready"} /\ containerid \notin mapper
    IN  /\ MainAt("cryptopen")
        /\ keyfiles' = keyfiles \ {containerid}
        /\ \/ opens /\ mapper' = mapper \cup {containerid} /\ Goto("mount")
           \/ (~opens \/ Fails("cryptopen")) /\ UNCHANGED mapper /\ Return
        /\ UNCHANGED <<tableVars, image, mounts, dirs, plain, lxdVars, callVars,
                       log, serverVars>>

(* Mutant of AddEntry: a cleared entry of the container is used again.     *)
AddEntry_ReusesSlot(table, c) ==
    IF \E n \in DOMAIN table : table[n].container = c
    THEN [n \in DOMAIN table |-> [table[n] EXCEPT
             !.is_mounted = @ \/ table[n].container = c]]
    ELSE Append(table, [container |-> c, is_mounted |-> TRUE])

(* The entry of a mounted home goes to the end of the table, which grows;  *)
(* no slot is ever used again.                                             *)
AddEntry(table, c) == Append(table, [container |-> c, is_mounted |-> TRUE])

(* The mount point is made if it is missing.                               *)
MountHome ==
    LET mountable == image[containerid] = "ready" /\ containerid \in mapper
    IN  /\ MainAt("mount")
        /\ dirs' = dirs \cup {containerid}
        /\ \/ /\ mountable
              /\ mounts' = mounts \cup {containerid}
              /\ mounted_volumes' = AddEntry(mounted_volumes, containerid)
              /\ Goto("provision")
              /\ UNCHANGED mapper
           \/ /\ ~mountable \/ Fails("mount")
              /\ mapper' = MapperAfterClose(containerid, mounts)
              /\ Return
              /\ UNCHANGED <<mounts, mounted_volumes>>
        /\ UNCHANGED <<provisioning_active, fileVars, plain, lxdVars, callVars,
                       log, serverVars>>

BeginProvisioning ==
    /\ MainAt("provision")
    /\ provisioning_active' = TRUE
    /\ Goto("sshdir")
    /\ UNCHANGED <<mounted_volumes, fileVars, deviceVars, lxdVars, callVars, log,
                   serverVars>>

Open == \/ OpenRefused \/ OpenBegin \/ CryptOpen \/ MountHome \/ BeginProvisioning

(***************************************************************************)
(* The rest of the set-up, and the LXD commands it runs.                   *)
(***************************************************************************)
(* lxd_setup_ssh_in_volume writes below the mount point: into the home if  *)
(* it is mounted there, else onto the host's disk.                         *)
SetupSsh ==
    /\ MainAt("sshdir")
    /\ \/ /\ containerid \in dirs
          /\ plain' = IF containerid \in mounts THEN plain
                                                ELSE plain \cup {containerid}
          /\ Goto("start")
       \/ /\ containerid \notin dirs \/ Fails("sshdir")
          /\ Goto("failclose")
          /\ UNCHANGED plain
    /\ UNCHANGED <<tableVars, fileVars, mapper, mounts, dirs, lxdVars, callVars, log,
                   serverVars>>

(* lxc start needs a stopped container and the source of its home device,  *)
(* if it has one, and binds what is there: the mounted home, or the bare   *)
(* directory.                                                              *)
Startable(c) == lxc[c] = "stopped" /\ (c \in homed => c \in dirs)

Started(c) ==
    /\ Startable(c)
    /\ lxc' = [lxc EXCEPT ![c] = "running"]
    /\ bound' = bound \cup ({c} \cap homed \cap mounts)
    /\ plain' = plain \cup (({c} \cap homed) \ mounts)
    /\ UNCHANGED homed

NotStarted(c) ==
    /\ ~Startable(c) \/ Fails("start")
    /\ UNCHANGED <<lxdVars, plain>>

(* A container that does not start is taken for one that does not exist.   *)
StartContainer ==
    /\ MainAt("start")
    /\ \/ Started(containerid) /\ Goto("user")
       \/ NotStarted(containerid) /\ Goto("init")
    /\ UNCHANGED <<tableVars, fileVars, mapper, mounts, dirs, callVars, log, serverVars>>

(* A container whose configuration failed is deleted, if that works; else  *)
(* it stays, with or without the home device, as the failure came after it *)
(* was added or before.                                                    *)
Deleted(c) ==
    \/ UNCHANGED lxdVars
    \/ /\ Fails("delete")
       /\ lxc' = [lxc EXCEPT ![c] = "stopped"]
       /\ \/ UNCHANGED homed
          \/ Fails("config") /\ homed' = homed \cup {c}
       /\ UNCHANGED bound

(* lxd_create_container: lxc init, then the configuration, whose disk      *)
(* device may want its source; when that fails lxd_remove_container deletes   *)
(* the container and closes the home, and the handler closes it again.     *)
CreateContainer ==
    /\ MainAt("init")
    /\ \/ /\ lxc[containerid] = "absent"
          /\ lxc' = [lxc EXCEPT ![containerid] = "stopped"]
          /\ homed' = homed \cup {containerid}
          /\ Goto("restart")
          /\ UNCHANGED <<bound, callVars>>
       \/ /\ lxc[containerid] # "absent" \/ Fails("init")
          /\ Goto("failclose")
          /\ UNCHANGED <<lxdVars, callVars>>
       \/ /\ lxc[containerid] = "absent"
          /\ containerid \notin dirs \/ Fails("config")
          /\ Deleted(containerid)
          /\ volume_close_encrypted_home("main", containerid)
          /\ Goto("failclose")
    /\ UNCHANGED <<tableVars, fileVars, deviceVars, log, serverVars>>

(* The result of the second start is ignored.                              *)
StartCreated ==
    /\ MainAt("restart")
    /\ Started(containerid) \/ NotStarted(containerid)
    /\ Goto("user")
    /\ UNCHANGED <<tableVars, fileVars, mapper, mounts, dirs, callVars, log, serverVars>>

(* Mutant of SetupUser: provisioning ends once the user is set up.         *)
SetupUser_EndsProvisioning ==
    /\ MainAt("user")
    /\ \/ lxc[containerid] = "running" /\ provisioning_active' = FALSE /\ Goto("sshd")
       \/ lxc[containerid] # "running" /\ UNCHANGED provisioning_active /\ Return
    /\ UNCHANGED <<mounted_volumes, fileVars, deviceVars, lxdVars, callVars, log,
                   serverVars>>

(* The commands run in the container; when one fails the handler returns   *)
(* without closing the home.  Network set-up and permissions may fail      *)
(* without consequence.                                                    *)
SetupUser ==
    /\ MainAt("user")
    /\ \/ lxc[containerid] = "running" /\ Goto("sshd")
       \/ (lxc[containerid] # "running" \/ Fails("user")) /\ Return
    /\ UNCHANGED <<homeVars, log, serverVars>>

EnsureSshd ==
    /\ MainAt("sshd")
    /\ \/ /\ lxc[containerid] = "running"
          /\ provisioning_active' = FALSE
          /\ Goto("port")
       \/ /\ lxc[containerid] # "running" \/ Fails("sshd")
          /\ Return
          /\ UNCHANGED provisioning_active
    /\ UNCHANGED <<mounted_volumes, fileVars, deviceVars, lxdVars, callVars, log,
                   serverVars>>

(* The configured port is sent to the client with OK.                      *)
GetSshPort ==
    /\ MainAt("port")
    /\ \/ lxc[containerid] # "absent" /\ Goto("wait")
       \/ (lxc[containerid] = "absent" \/ Fails("port")) /\ Return
    /\ UNCHANGED <<homeVars, log, serverVars>>

Setup == \/ SetupSsh \/ StartContainer \/ CreateContainer \/ StartCreated
         \/ SetupUser \/ EnsureSshd \/ GetSshPort

(***************************************************************************)
(* The two polling loops.  A poll of a container that does not run prints  *)
(* 0; one whose popen fails says nothing.                                  *)
(***************************************************************************)
Connections(c) == IF lxc[c] = "running" THEN {"none", "some"} ELSE {"none"}
Polled(c) == Connections(c) \cup (IF Fails("poll") THEN {"unknown"} ELSE {})

(* Mutant of WaitPoll: polls without a connection are not counted.         *)
WaitPoll_Uncounted ==
    /\ MainAt("wait")
    /\ \E seen \in Polled(containerid) :
          \/ /\ seen = "some"
             /\ Log("ssh_connected", containerid)
             /\ pc' = "watch" /\ polls' = 0 /\ empty_count' = 0
          \/ seen # "some" /\ UNCHANGED <<pc, polls, empty_count, log>>
    /\ UNCHANGED <<homeVars, containerid, serverVars>>

WaitPoll ==
    /\ MainAt("wait")
    /\ polls < ConnectWait
    /\ \E seen \in Polled(containerid) :
          \/ /\ seen = "some"
             /\ Log("ssh_connected", containerid)
             /\ pc' = "watch" /\ polls' = 0 /\ empty_count' = 0
          \/ /\ seen # "some"
             /\ polls' = polls + 1
             /\ UNCHANGED <<pc, empty_count, log>>
    /\ UNCHANGED <<homeVars, containerid, serverVars>>

WatchPoll ==
    /\ MainAt("watch")
    /\ polls < MaxChecks
    /\ \E seen \in Polled(containerid) :
          empty_count' = CASE seen = "none"    -> empty_count + 1
                           [] seen = "some"    -> 0
                           [] seen = "unknown" -> empty_count
    /\ \/ /\ empty_count' > empty_count /\ empty_count' >= EmptyPolls
          /\ Log("ssh_disconnected", containerid)
          /\ pc' = "stop"
          /\ UNCHANGED polls
       \/ /\ ~(empty_count' > empty_count /\ empty_count' >= EmptyPolls)
          /\ polls' = polls + 1
          /\ UNCHANGED <<pc, log>>
    /\ UNCHANGED <<homeVars, containerid, serverVars>>

(* Mutant of PollTimeout: nothing is logged.                               *)
PollTimeout_Unlogged ==
    /\ \/ MainAt("wait") /\ polls >= ConnectWait
       \/ MainAt("watch") /\ polls >= MaxChecks
    /\ Goto("stop")
    /\ UNCHANGED <<homeVars, log, serverVars>>

(* No connection within the wait, or a session of the maximal length.      *)
PollTimeout ==
    /\ \/ MainAt("wait") /\ polls >= ConnectWait
       \/ MainAt("watch") /\ polls >= MaxChecks
    /\ Log("timeout", containerid)
    /\ Goto("stop")
    /\ UNCHANGED <<homeVars, serverVars>>

(***************************************************************************)
(* The end of a session.                                                   *)
(***************************************************************************)
(* A container that is not running any more has released its home.         *)
Stopped(c, state) ==
    /\ lxc' = [lxc EXCEPT ![c] = state]
    /\ homed' = IF state = "absent" THEN homed \ {c} ELSE homed
    /\ bound' = bound \ {c}

(* Mutant of StopContainer: the home is closed only if lxc stop succeeds.   *)
StopContainer_ClosesOnSuccess ==
    /\ MainAt("stop")
    /\ \/ /\ lxc[containerid] = "running"
          /\ Stopped(containerid, "stopped")
          /\ volume_close_encrypted_home("main", containerid)
       \/ lxc[containerid] # "running" /\ UNCHANGED <<lxdVars, callVars>>
    /\ Goto("done")
    /\ UNCHANGED <<tableVars, fileVars, deviceVars, log, serverVars>>

(* lxd_stop_container closes the home whatever lxc stop did.  At "done"    *)
(* the close has returned and the end of the session is announced.         *)
StopContainer ==
    /\ MainAt("stop")
    /\ \/ lxc[containerid] = "running" /\ Stopped(containerid, "stopped")
       \/ (lxc[containerid] # "running" \/ Fails("stop")) /\ UNCHANGED lxdVars
    /\ volume_close_encrypted_home("main", containerid)
    /\ Goto("done")
    /\ UNCHANGED <<tableVars, fileVars, deviceVars, log, serverVars>>

CloseAfterFailure ==
    /\ MainAt("failclose")
    /\ volume_close_encrypted_home("main", containerid)
    /\ Return
    /\ UNCHANGED <<tableVars, fileVars, deviceVars, lxdVars, log, serverVars>>

EndSession ==
    /\ MainAt("done") \/ MainAt("return")
    /\ Finish
    /\ UNCHANGED <<homeVars, log, serverVars>>

Serve == \/ Create \/ Open \/ Setup
         \/ WaitPoll \/ WatchPoll \/ PollTimeout
         \/ StopContainer \/ CloseAfterFailure \/ EndSession

(***************************************************************************)
(* The calls inside volume.c, per thread.                                  *)
(***************************************************************************)
CloseStep(t) == CloseUmount(t) \/ CloseCrypt(t)

MainCall ==
    /\ at["signal"] = "out"
    /\ Probe("main") \/ CloseStep("main") \/ CloseRmdir("main")
    /\ UNCHANGED <<clientVars, log, serverVars>>

(* cleanup_worker wakes up, looks at server_running, and sweeps.           *)
CleanerWakes ==
    /\ server_running
    /\ BeginSweep("cleaner")
    /\ UNCHANGED <<tableVars, fileVars, deviceVars, lxdVars>>

Cleaner ==
    /\ \/ CleanerWakes
       \/ Probe("cleaner")
       \/ CloseStep("cleaner")
       \/ CloseRmdir("cleaner")
    /\ UNCHANGED <<clientVars, log, serverVars>>

(* volume_cleanup_all: every mounted entry from k on is closed, whatever   *)
(* its container does; then the table is freed.                            *)
volume_cleanup_all(table, k) ==
    /\ \/ \E n \in NextMounted(table, k) :
             BeginClose("signal", n) /\ mounted_volumes' = table
       \/ /\ NextMounted(table, k) = {}
          /\ at' = [at EXCEPT !["signal"] = "out"]
          /\ ent' = [ent EXCEPT !["signal"] = 0]
          /\ mounted_volumes' = << >>
    /\ UNCHANGED cur

(* A signal interrupts the main thread wherever it is; one is enough.      *)
SignalArrives ==
    /\ "signal" \in Events
    /\ server_running
    /\ server_running' = FALSE
    /\ volume_cleanup_all(mounted_volumes, 1)
    /\ UNCHANGED <<provisioning_active, fileVars, deviceVars, lxdVars, clientVars,
                   log, sessions>>

SignalClosed ==
    /\ at["signal"] = "rmdir"
    /\ RemoveMountPoint("signal")
    /\ volume_cleanup_all(Cleared(mounted_volumes, ent["signal"]), ent["signal"] + 1)
    /\ UNCHANGED <<provisioning_active, fileVars, mapper, mounts, plain, lxdVars>>

SignalHandler ==
    /\ CloseStep("signal") \/ SignalClosed
    /\ UNCHANGED <<clientVars, log, serverVars>>

(***************************************************************************)
(* What happens around the manager.                                        *)
(***************************************************************************)
(* A container stops by itself, as when its user shuts it down.            *)
ContainerExits(c) ==
    /\ "exit" \in Events
    /\ lxc[c] = "running"
    /\ Stopped(c, "stopped")
    /\ UNCHANGED <<tableVars, fileVars, deviceVars, callVars, clientVars, log, serverVars>>

(* make clean-containers, one container of it.                             *)
CleanContainer(c) ==
    /\ "delete" \in Events
    /\ lxc[c] # "absent"
    /\ Stopped(c, "absent")
    /\ UNCHANGED <<tableVars, fileVars, deviceVars, callVars, clientVars, log, serverVars>>

(* make cleanup-luks: every mapper is unmounted and closed where that      *)
(* works, and every empty mount point removed.                             *)
CleanupLuks ==
    /\ "luks" \in Events
    /\ \E stuck \in (IF Fails("umount") THEN SUBSET (mounts \cap mapper) ELSE {{}}) :
          mounts' = (mounts \ mapper) \cup stuck
    /\ mapper' = mapper \cap (mounts' \cup bound)
    /\ dirs' = dirs \cap (mounts' \cup plain)
    /\ UNCHANGED <<tableVars, fileVars, plain, lxdVars, callVars, clientVars, log, serverVars>>

(* A thread uses an index into a table that has been freed under it.       *)
Dangling ==
    \E t \in Threads :
        \/ at[t] = "probe" /\ cur[t] \notin DOMAIN mounted_volumes
        \/ at[t] \in {"umount", "crypt", "rmdir"} /\ ent[t] \notin DOMAIN mounted_volumes

(* The process dies and is started again: its memory is gone, the files,   *)
(* devices, mounts and containers are as it left them.                     *)
Crash ==
    /\ pc # "exited"
    /\ "crash" \in Events \/ Dangling
    /\ mounted_volumes' = << >>
    /\ provisioning_active' = FALSE
    /\ at' = [t \in Threads |-> "out"]
    /\ cur' = [t \in Threads |-> 0]
    /\ ent' = [t \in Threads |-> 0]
    /\ Finish
    /\ server_running' = TRUE
    /\ UNCHANGED <<fileVars, deviceVars, lxdVars, log, sessions>>

(***************************************************************************)
(* The specification.                                                      *)
(***************************************************************************)
Next ==
    \/ Accept
    \/ Exit
    \/ ClientGone
    \/ VerifyFails
    \/ \E c \in Containers : VerifySucceeds(c)
    \/ Serve
    \/ MainCall
    \/ Cleaner
    \/ SignalArrives
    \/ SignalHandler
    \/ \E c \in Containers : ContainerExits(c) \/ CleanContainer(c)
    \/ CleanupLuks
    \/ Crash

Spec == Init /\ [][Next]_vars

(* Commands return and threads are scheduled; clients owe the manager      *)
(* nothing, and neither does the environment.                              *)
Fairness ==
    /\ WF_vars(Serve \/ MainCall \/ Exit)
    /\ WF_vars(Cleaner)
    /\ WF_vars(SignalHandler)

LiveSpec == Spec /\ Fairness

(***************************************************************************)
(* Properties.                                                             *)
(***************************************************************************)
(* A container has at most one mounted entry, so that the close that finds *)
(* the first one has found them all (volume.c:176-184, 223-227, 237-239).  *)
UniqueMounted ==
    \A c \in Containers : \A m, n \in DOMAIN mounted_volumes :
        IsEntryOf(mounted_volumes, m, c) /\ IsEntryOf(mounted_volumes, n, c) => m = n

(* No thread holds an index outside the table across a blocking call, so   *)
(* long as no signal handler frees it (volume.c:241-249, 299-301).         *)
IndexValid == ~Dangling

(* Every home mounted on the host has a mounted entry, without which       *)
(* nothing would ever close it: a clean-up racing the session may clear an *)
(* entry only once its home is unmounted (volume.c:211-227, 237-249).      *)
MountsKnown ==
    \A c \in mounts : \E n \in DOMAIN mounted_volumes : IsEntryOf(mounted_volumes, n, c)

(* An image file, which is all volume_is_home_encrypted looks at, is       *)
(* complete except while it is being created (volume.c:104-147, 256-260).  *)
ImagesReady ==
    \A c \in Containers :
        (pc \in CreatePCs /\ c = containerid) \/ image[c] \in {"none", "ready"}

(* A container's key lies on the disk only while the command that reads it *)
(* is pending, whichever way that ends (volume.c:104-146, 186-201).        *)
KeyFileTransient ==
    \A c \in keyfiles : c = containerid /\ pc \in (CreatePCs \cup {"cryptopen"})

(* When the end of a session is announced, its home is not mounted on the  *)
(* host any more, whatever the cleaner did meanwhile (server.c:216, 260).  *)
DoneUnmounted == MainAt("done") => containerid \notin mounts

(* A device left open by a manager that died, mounted or not, does not     *)
(* keep the next session of its container out, unless a running container  *)
(* still uses it (volume.c:54-65, 174, 194-199).  No container stops in    *)
(* the run of this property: one that does so right after the clean-up     *)
(* leaves the device open and free, and keeps the session out.             *)
StaleDeviceYields ==
    MainAt("cryptopen") /\ containerid \in mapper => containerid \in bound

(* From volume_set_provisioning(1) to the container's sshd running, no     *)
(* sweep of the cleaner begins, which would find the container not yet     *)
(* running (server.c:129-168, volume.c:296).                               *)
NoSweepStartsInSetup ==
    [][(pc \in SetupPCs \ {"port"} /\ at["cleaner"] = "out")
            => (at["cleaner"] = "out")']_vars

(* The session events come as their reader expects them.                   *)
LogPhase == CASE pc = "watch" -> "connected"
              [] pc \in CreatePCs \cup OpenPCs \cup SetupPCs \cup {"wait"} -> "authenticated"
              [] OTHER -> "idle"
LogContainer == IF LogPhase = "idle" THEN None ELSE containerid

Promise == INSTANCE SessionLog WITH session <- LogPhase, of <- LogContainer

(* The manager implements SessionLog: each authentication, connection and  *)
(* end is logged once and in order, for the container of the session, and  *)
(* every connection gets its end (server.c:101-106, 201, 215, 240, 256).   *)
LogImplementsPromise == Promise!Spec

(* Every session that was authenticated ends, whatever fails and whether   *)
(* or not anyone connects or disconnects: the polls are counted            *)
(* (server.c:189-211, 226-253).                                            *)
SessionEnds == pc \in SessionPCs ~> pc = "accept"

(* A mounted home whose container does not run is unmounted by the         *)
(* cleaner, unless a session keeps the cleaner off by its flag, or a       *)
(* container of a longer name is taken for it (volume.c:283, 295-305).     *)
CleanerCloses ==
    \A c \in Containers :
        c \in mounts ~> \/ c \notin mounts
                       \/ TRUE \in ProbeSays(c)
                       \/ provisioning_active
                       \/ ~server_running

(* After a signal the manager exits, unless a client that has connected    *)
(* keeps it waiting for its next message (server.c:35-39, 51-79, 292-303). *)
ShutdownEnds == ~server_running ~> pc = "exited" \/ MainAt("auth") \/ server_running

(* "Container %s stopped and home encrypted" (server.c:217, 261): at the   *)
(* end of a session its device is closed.                                  *)
HomeEncryptedWhenStopped == MainAt("done") => containerid \notin mapper

(* "Container data encrypted at rest (LUKS)" (README.md:140): the home of  *)
(* the container a connected user works in is on the encrypted volume.     *)
SessionsEncrypted ==
    pc = "watch" /\ lxc[containerid] = "running" => containerid \in bound

(* "Shutting down manager, cleaning up encrypted volumes..." (server.c:34): *)
(* when the manager has exited no volume is open.                          *)
ShutdownCleansUp == pc = "exited" => mapper = {}
================================================================================
