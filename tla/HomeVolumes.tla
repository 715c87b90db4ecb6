------------------------------ MODULE HomeVolumes ------------------------------
(***************************************************************************)
(* The encrypted home volumes of the manager (src/src/manager/volume.c),   *)
(* together with what they act on: the files in ./homes, the device-mapper *)
(* table, the mount table and the LXD containers that bind the mount point *)
(* as /home/<user>.                                                        *)
(*                                                                         *)
(* Several threads run this code on one unsynchronised table, so every     *)
(* operation takes the thread t that runs it.  A step is what a thread     *)
(* does up to the return of its next blocking call (a child command,       *)
(* mount, umount or rmdir); the plain memory accesses between two such     *)
(* calls belong to the step.                                               *)
(***************************************************************************)
EXTENDS Naturals, Sequences, FiniteSets

CONSTANTS
    Containers,  (* container identifiers (rows of the table containers)   *)
    Namesakes,   (* <<c, d>>: the name of d begins with the name of c      *)
    Faults       (* the external commands that may fail, by name           *)

Commands == {"probe", "umount", "key", "dd", "format", "luksopen", "mkfs",
             "cryptopen", "mount", "sshdir", "start", "init", "config",
             "delete", "user", "sshd", "port", "poll", "stop"}

ASSUME FaultsAssumption == Faults \subseteq Commands
ASSUME NamesakesAssumption == Namesakes \subseteq Containers \X Containers

(* "main" runs handle_client, "cleaner" runs cleanup_worker and "signal" is *)
(* signal_handler, which runs on the main thread's stack.                   *)
Threads == {"main", "cleaner", "signal"}

VARIABLES
    mounted_volumes,     (* the table: its entries [container, is_mounted]  *)
    provisioning_active,
    image,     (* image[c]: the file homes/c.img                            *)
    keyfiles,  (* containers whose key lies in homes/c.key                  *)
    mapper,    (* containers with an open /dev/mapper/somethinigremotelygood_c *)
    mounts,    (* containers whose home is mounted on homes/c_mnt           *)
    dirs,      (* containers whose directory homes/c_mnt exists             *)
    plain,     (* containers with files in homes/c_mnt on the host's own disk *)
    lxc,       (* lxc[c]: what LXD says of container c                      *)
    homed,     (* containers whose configuration has the device home        *)
    bound,     (* running containers whose /home is the encrypted volume    *)
    at,        (* at[t]: the call inside volume.c that thread t is in       *)
    cur,       (* cur[t]: the index t's loop over the table is at; 0: none  *)
    ent        (* ent[t]: the index of the entry t is closing               *)

tableVars  == <<mounted_volumes, provisioning_active>>
fileVars   == <<image, keyfiles>>
deviceVars == <<mapper, mounts, dirs, plain>>
lxdVars    == <<lxc, homed, bound>>
callVars   == <<at, cur, ent>>
homeVars   == <<tableVars, fileVars, deviceVars, lxdVars, callVars>>

VolumeInfo == [container : Containers, is_mounted : BOOLEAN]

(* What homes/c.img holds: nothing yet, zeroes, a LUKS header, a filesystem. *)
ImageStates == {"none", "blank", "luks", "ready"}
LxdStates   == {"absent", "stopped", "running"}
CallStates  == {"out", "probe", "umount", "crypt", "rmdir"}

HomeTypeOK ==
    /\ mounted_volumes \in Seq(VolumeInfo)
    /\ provisioning_active \in BOOLEAN
    /\ image \in [Containers -> ImageStates]
    /\ keyfiles \subseteq Containers
    /\ mapper \subseteq Containers
    /\ mounts \subseteq Containers
    /\ dirs \subseteq Containers
    /\ plain \subseteq Containers
    /\ lxc \in [Containers -> LxdStates]
    /\ homed \subseteq Containers
    /\ bound \subseteq Containers
    /\ at \in [Threads -> CallStates]
    /\ cur \in [Threads -> Nat]
    /\ ent \in [Threads -> Nat]

HomeInit ==
    /\ mounted_volumes = << >>
    /\ provisioning_active = FALSE
    /\ image = [c \in Containers |-> "none"]
    /\ keyfiles = {}
    /\ mapper = {}
    /\ mounts = {}
    /\ dirs = {}
    /\ plain = {}
    /\ lxc = [c \in Containers |-> "absent"]
    /\ homed = {}
    /\ bound = {}
    /\ at = [t \in Threads |-> "out"]
    /\ cur = [t \in Threads |-> 0]
    /\ ent = [t \in Threads |-> 0]

(***************************************************************************)
(* The kernel and LXD, as volume.c and lxd.c depend on them.               *)
(***************************************************************************)
Fails(command) == command \in Faults

(* A mounted filesystem, or one a running container has bound, keeps the   *)
(* device busy; cryptsetup close then fails and its result is ignored.     *)
MapperAfterClose(c, mounted) ==
    IF c \in mounted \cup bound THEN mapper ELSE mapper \ {c}

(* What umount of c leaves mounted; its result is ignored everywhere.      *)
UmountResults(c) ==
    {mounts \ {c}} \cup (IF Fails("umount") THEN {mounts} ELSE {})

(***************************************************************************)
(* The table.                                                              *)
(***************************************************************************)
Mounted(table, n) == n \in DOMAIN table /\ table[n].is_mounted

IsEntryOf(table, n, c) == Mounted(table, n) /\ table[n].container = c

(* Mutant of NextMounted: the loop begins one entry too late.              *)
NextMounted_OffByOne(table, k) ==
    {n \in DOMAIN table : /\ n > k
                          /\ Mounted(table, n)
                          /\ \A m \in DOMAIN table :
                                 k < m /\ m < n => ~Mounted(table, m)}

(* The first mounted entry at or after k: at most one index.               *)
NextMounted(table, k) ==
    {n \in DOMAIN table : /\ n >= k
                          /\ Mounted(table, n)
                          /\ \A m \in DOMAIN table :
                                 k <= m /\ m < n => ~Mounted(table, m)}

HasEntry(table, c) == \E n \in DOMAIN table : IsEntryOf(table, n, c)

(* The entry the loop of volume_close_encrypted_home stops at.             *)
EntryOf(table, c) ==
    {n \in DOMAIN table : /\ IsEntryOf(table, n, c)
                          /\ \A m \in DOMAIN table :
                                 m < n => ~IsEntryOf(table, m, c)}

(* The container an index names.  The table may have been freed since t    *)
(* read the index: what lies there then is undefined, and may be the bytes *)
(* of any former entry.                                                    *)
NamedBy(n) ==
    IF n \in DOMAIN mounted_volumes THEN {mounted_volumes[n].container}
                                    ELSE Containers

(* Mutant of Cleared: a closed entry is taken out of the table.            *)
Cleared_Compacts(table, n) ==
    SubSeq(table, 1, n - 1) \o SubSeq(table, n + 1, Len(table))

Cleared(table, n) ==
    IF n \in DOMAIN table THEN [table EXCEPT ![n].is_mounted = FALSE]
                          ELSE table

(***************************************************************************)
(* volume_cleanup_stopped_containers: a sweep of thread t.                 *)
(***************************************************************************)
(* The loop moves on to the next mounted entry of the table from k on.     *)
SweepFrom(t, table, k) ==
    \/ \E n \in NextMounted(table, k) :
          /\ at' = [at EXCEPT ![t] = "probe"]
          /\ cur' = [cur EXCEPT ![t] = n]
          /\ ent' = [ent EXCEPT ![t] = 0]
    \/ /\ NextMounted(table, k) = {}
       /\ at' = [at EXCEPT ![t] = "out"]
       /\ cur' = [cur EXCEPT ![t] = 0]
       /\ ent' = [ent EXCEPT ![t] = 0]

(* The flag is read once, before the loop.                                 *)
BeginSweep(t) ==
    /\ at[t] = "out"
    /\ \/ provisioning_active /\ UNCHANGED callVars
       \/ ~provisioning_active /\ SweepFrom(t, mounted_volumes, 1)

(* lxc list takes its argument for the beginning of a name.                *)
Listed(c) ==
    {d \in Containers : (d = c \/ <<c, d>> \in Namesakes) /\ lxc[d] # "absent"}

(* is_container_running has returned.  It reads the first line, whichever  *)
(* container LXD puts there, and returns 0 also when popen failed.         *)
ProbeSays(c) ==
    {lxc[d] = "running" : d \in Listed(c)}
        \cup (IF Fails("probe") \/ Listed(c) = {} THEN {FALSE} ELSE {})

BeginClose(t, n) ==
    /\ at' = [at EXCEPT ![t] = "umount"]
    /\ ent' = [ent EXCEPT ![t] = n]

Probe(t) ==
    /\ at[t] = "probe"
    /\ \E c \in NamedBy(cur[t]) : \E running \in ProbeSays(c) :
          \/ running /\ SweepFrom(t, mounted_volumes, cur[t] + 1)
          \/ /\ ~running
             /\ \/ /\ \E n \in EntryOf(mounted_volumes, c) : BeginClose(t, n)
                   /\ UNCHANGED cur
                \/ /\ ~HasEntry(mounted_volumes, c)
                   /\ SweepFrom(t, mounted_volumes, cur[t] + 1)
    /\ UNCHANGED <<tableVars, fileVars, deviceVars, lxdVars>>

(***************************************************************************)
(* volume_close_encrypted_home(c) called by a handler on thread t, and the *)
(* steps every close goes through.                                         *)
(***************************************************************************)
volume_close_encrypted_home(t, c) ==
    /\ \/ \E n \in EntryOf(mounted_volumes, c) : BeginClose(t, n)
       \/ ~HasEntry(mounted_volumes, c) /\ UNCHANGED <<at, ent>>
    /\ UNCHANGED cur

CloseUmount(t) ==
    /\ at[t] = "umount"
    /\ \E c \in NamedBy(ent[t]) : mounts' \in UmountResults(c)
    /\ at' = [at EXCEPT ![t] = "crypt"]
    /\ UNCHANGED <<tableVars, fileVars, mapper, dirs, plain, lxdVars, cur, ent>>

CloseCrypt(t) ==
    /\ at[t] = "crypt"
    /\ \E c \in NamedBy(ent[t]) : mapper' = MapperAfterClose(c, mounts)
    /\ at' = [at EXCEPT ![t] = "rmdir"]
    /\ UNCHANGED <<tableVars, fileVars, mounts, dirs, plain, lxdVars, cur, ent>>

(* rmdir fails on a mount point and on a directory with files in it.       *)
RemoveMountPoint(t) ==
    \E c \in NamedBy(ent[t]) :
        dirs' = IF c \in mounts \cup plain THEN dirs ELSE dirs \ {c}

CloseRmdir(t) ==
    LET table == Cleared(mounted_volumes, ent[t]) IN
    /\ at[t] = "rmdir"
    /\ RemoveMountPoint(t)
    /\ mounted_volumes' = table
    /\ \/ /\ cur[t] = 0
          /\ at' = [at EXCEPT ![t] = "out"]
          /\ ent' = [ent EXCEPT ![t] = 0]
          /\ UNCHANGED cur
       \/ cur[t] # 0 /\ SweepFrom(t, table, cur[t] + 1)
    /\ UNCHANGED <<provisioning_active, fileVars, mapper, mounts, plain, lxdVars>>

================================================================================
