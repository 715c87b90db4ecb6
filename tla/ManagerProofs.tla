----------------------------- MODULE ManagerProofs -----------------------------
(***************************************************************************)
(* Safety of the manager, for every set of containers, every choice of     *)
(* failing commands and every bound: the types, and the two invariants     *)
(* that keep the table of volume.c in order.                               *)
(***************************************************************************)
EXTENDS Manager, SequenceTheorems, TLAPS

Main    == "main"
Callers == {"umount", "crypt", "rmdir"}

(***************************************************************************)
(* The table.                                                              *)
(***************************************************************************)
(* Clearing an entry leaves a table of the same length in which every      *)
(* other entry is as it was, and no entry changes its container.           *)
LEMMA ClearedTable ==
    ASSUME NEW table \in Seq(VolumeInfo), NEW n \in Nat
    PROVE  /\ Cleared(table, n) \in Seq(VolumeInfo)
           /\ DOMAIN Cleared(table, n) = DOMAIN table
           /\ \A m \in DOMAIN table :
                 /\ Cleared(table, n)[m].container = table[m].container
                 /\ m # n => Cleared(table, n)[m] = table[m]
           /\ n \in DOMAIN table => ~Cleared(table, n)[n].is_mounted
<1>1. CASE n \notin DOMAIN table
  BY <1>1 DEF Cleared
<1>2. CASE n \in DOMAIN table
  <2> DEFINE e == [table[n] EXCEPT !.is_mounted = FALSE]
  <2>1. n \in 1..Len(table) /\ table[n] \in VolumeInfo
    BY <1>2
  <2>2. e \in VolumeInfo /\ e.container = table[n].container /\ ~e.is_mounted
    BY <2>1 DEF VolumeInfo
  <2>3. Cleared(table, n) = [table EXCEPT ![n] = e]
    BY <1>2 DEF Cleared
  <2>4. [table EXCEPT ![n] = e] \in Seq(VolumeInfo)
    BY <2>1, <2>2, ExceptSeq
  <2>5. DOMAIN [table EXCEPT ![n] = e] = DOMAIN table
    OBVIOUS
  <2>6. \A m \in DOMAIN table :
            [table EXCEPT ![n] = e][m] = IF m = n THEN e ELSE table[m]
    OBVIOUS
  <2> HIDE DEF e
  <2> QED BY <1>2, <2>2, <2>3, <2>4, <2>5, <2>6
<1> QED BY <1>1, <1>2

(* The entry of a home just mounted is the last one.                       *)
LEMMA AddedEntry ==
    ASSUME NEW table \in Seq(VolumeInfo), NEW c \in Containers
    PROVE  /\ AddEntry(table, c) \in Seq(VolumeInfo)
           /\ DOMAIN AddEntry(table, c) = DOMAIN table \cup {Len(table) + 1}
           /\ Len(table) + 1 \notin DOMAIN table
           /\ \A m \in DOMAIN table : AddEntry(table, c)[m] = table[m]
           /\ AddEntry(table, c)[Len(table) + 1]
                  = [container |-> c, is_mounted |-> TRUE]
  BY DEF AddEntry, VolumeInfo

(* What the two loops over the table find.                                 *)
LEMMA NextIndex ==
    ASSUME NEW table \in Seq(VolumeInfo), NEW k, NEW n \in NextMounted(table, k)
    PROVE  n \in Nat /\ n \in DOMAIN table
  BY DEF NextMounted

LEMMA EntryIndex ==
    ASSUME NEW table \in Seq(VolumeInfo), NEW c, NEW n \in EntryOf(table, c)
    PROVE  n \in Nat /\ n \in DOMAIN table /\ IsEntryOf(table, n, c)
  BY DEF EntryOf

(***************************************************************************)
(* Types.                                                                  *)
(***************************************************************************)
CallsTypeOK == /\ at \in [Threads -> CallStates]
               /\ cur \in [Threads -> Nat]
               /\ ent \in [Threads -> Nat]

LEMMA SweepFromTypes ==
    ASSUME CallsTypeOK, NEW t \in Threads, NEW table \in Seq(VolumeInfo), NEW k,
           SweepFrom(t, table, k)
    PROVE  CallsTypeOK'
<1>1. ASSUME NEW n \in NextMounted(table, k),
             at' = [at EXCEPT ![t] = "probe"],
             cur' = [cur EXCEPT ![t] = n],
             ent' = [ent EXCEPT ![t] = 0]
      PROVE  CallsTypeOK'
  BY <1>1, NextIndex DEF CallsTypeOK, CallStates
<1>2. CASE /\ at' = [at EXCEPT ![t] = "out"]
           /\ cur' = [cur EXCEPT ![t] = 0]
           /\ ent' = [ent EXCEPT ![t] = 0]
  BY <1>2 DEF CallsTypeOK, CallStates
<1> QED BY <1>1, <1>2 DEF SweepFrom

LEMMA CloseTypes ==
    ASSUME CallsTypeOK, mounted_volumes \in Seq(VolumeInfo), NEW t \in Threads, NEW c,
           volume_close_encrypted_home(t, c)
    PROVE  CallsTypeOK'
<1>1. ASSUME NEW n \in EntryOf(mounted_volumes, c), BeginClose(t, n), UNCHANGED cur
      PROVE  CallsTypeOK'
  BY <1>1, EntryIndex DEF CallsTypeOK, BeginClose, CallStates
<1>2. CASE UNCHANGED <<at, ent, cur>>
  BY <1>2 DEF CallsTypeOK
<1> QED BY <1>1, <1>2 DEF volume_close_encrypted_home

LEMMA BeginSweepTypes ==
    ASSUME CallsTypeOK, mounted_volumes \in Seq(VolumeInfo), NEW t \in Threads,
           BeginSweep(t)
    PROVE  CallsTypeOK'
<1>1. CASE SweepFrom(t, mounted_volumes, 1)
  BY <1>1, SweepFromTypes
<1>2. CASE UNCHANGED callVars
  BY <1>2 DEF CallsTypeOK, callVars
<1> QED BY <1>1, <1>2 DEF BeginSweep

LEMMA NamedByType ==
    ASSUME HomeTypeOK, NEW n, NEW c \in NamedBy(n)
    PROVE  c \in Containers
<1>1. CASE n \in DOMAIN mounted_volumes
  <2>1. mounted_volumes[n] \in VolumeInfo
    BY <1>1 DEF HomeTypeOK
  <2> QED BY <1>1, <2>1 DEF NamedBy, VolumeInfo
<1>2. CASE n \notin DOMAIN mounted_volumes
  BY <1>2 DEF NamedBy
<1> QED BY <1>1, <1>2

LEMMA ProbeTypes ==
    ASSUME HomeTypeOK, NEW t \in Threads, Probe(t)
    PROVE  HomeTypeOK'
<1>1. CallsTypeOK
  BY DEF HomeTypeOK, CallsTypeOK
<1>2. mounted_volumes \in Seq(VolumeInfo)
  BY DEF HomeTypeOK
<1>3. CASE SweepFrom(t, mounted_volumes, cur[t] + 1)
  <2>1. CallsTypeOK'
    BY <1>1, <1>2, <1>3, SweepFromTypes
  <2> QED BY <2>1 DEF Probe, HomeTypeOK, CallsTypeOK, tableVars, fileVars, deviceVars, lxdVars
<1>4. CASE UNCHANGED cur /\ \E c : \E n \in EntryOf(mounted_volumes, c) : BeginClose(t, n)
  <2>1. CallsTypeOK'
    BY <1>1, <1>2, <1>4, EntryIndex DEF CallsTypeOK, BeginClose, CallStates
  <2> QED BY <2>1 DEF Probe, HomeTypeOK, CallsTypeOK, tableVars, fileVars, deviceVars, lxdVars
<1> QED BY <1>3, <1>4 DEF Probe

LEMMA CloseStepTypes ==
    ASSUME HomeTypeOK, NEW t \in Threads, CloseStep(t)
    PROVE  HomeTypeOK'
<1>1. CASE CloseUmount(t)
  BY <1>1 DEF CloseUmount, UmountResults, HomeTypeOK, CallStates, tableVars, fileVars, lxdVars
<1>2. CASE CloseCrypt(t)
  BY <1>2 DEF CloseCrypt, MapperAfterClose, HomeTypeOK, CallStates, tableVars, fileVars, lxdVars
<1> QED BY <1>1, <1>2 DEF CloseStep

LEMMA CloseRmdirTypes ==
    ASSUME HomeTypeOK, NEW t \in Threads, CloseRmdir(t)
    PROVE  HomeTypeOK'
<1> DEFINE table == Cleared(mounted_volumes, ent[t])
<1>1. CallsTypeOK /\ ent[t] \in Nat
  BY DEF HomeTypeOK, CallsTypeOK
<1>2. table \in Seq(VolumeInfo)
  BY <1>1, ClearedTable DEF HomeTypeOK
<1>3. dirs' \subseteq Containers
  BY DEF CloseRmdir, RemoveMountPoint, HomeTypeOK
<1>4. CallsTypeOK'
  <2>1. CASE SweepFrom(t, table, cur[t] + 1)
    <3> HIDE DEF table
    <3> QED BY <2>1, <1>1, <1>2, SweepFromTypes
  <2>2. CASE at' = [at EXCEPT ![t] = "out"] /\ ent' = [ent EXCEPT ![t] = 0] /\ UNCHANGED cur
    BY <2>2, <1>1 DEF CallsTypeOK, CallStates
  <2> QED BY <2>1, <2>2 DEF CloseRmdir
<1>5. mounted_volumes' = table
  BY DEF CloseRmdir
<1> HIDE DEF table
<1> QED BY <1>2, <1>3, <1>4, <1>5 DEF CloseRmdir, HomeTypeOK, CallsTypeOK, fileVars, lxdVars

LEMMA CleanupAllTypes ==
    ASSUME CallsTypeOK, NEW table \in Seq(VolumeInfo), NEW k, volume_cleanup_all(table, k)
    PROVE  CallsTypeOK' /\ mounted_volumes' \in Seq(VolumeInfo)
<1>1. "signal" \in Threads
  BY DEF Threads
<1>2. << >> \in Seq(VolumeInfo)
  OBVIOUS
<1>3. ASSUME NEW n \in NextMounted(table, k), BeginClose("signal", n), UNCHANGED cur,
             mounted_volumes' = table
      PROVE  CallsTypeOK' /\ mounted_volumes' \in Seq(VolumeInfo)
  BY <1>1, <1>3, NextIndex DEF CallsTypeOK, BeginClose, CallStates
<1>4. CASE /\ at' = [at EXCEPT !["signal"] = "out"]
           /\ ent' = [ent EXCEPT !["signal"] = 0]
           /\ mounted_volumes' = << >>
           /\ UNCHANGED cur
  BY <1>1, <1>2, <1>4 DEF CallsTypeOK, CallStates
<1> QED BY <1>3, <1>4 DEF volume_cleanup_all

LEMMA ThreadNames == Threads = {"main", "cleaner", "signal"}
  BY DEF Threads

(* What handle_client keeps about the session.                             *)
ClientTypeOK == /\ pc \in PCs
                /\ containerid \in Containers \cup {None}
                /\ pc \in SessionPCs => containerid \in Containers
                /\ polls \in Nat
                /\ empty_count \in Nat

LEMMA GotoTypes ==
    ASSUME ClientTypeOK, NEW label \in PCs, Goto(label),
           label \in SessionPCs => containerid \in Containers
    PROVE  ClientTypeOK'
  BY DEF ClientTypeOK, Goto

LEMMA FinishTypes ==
    ASSUME Finish
    PROVE  ClientTypeOK'
  BY DEF ClientTypeOK, Finish, PCs, SessionPCs, CreatePCs, OpenPCs, SetupPCs, PollPCs, EndPCs

(* Every step of the creation and opening of a home and of the set-up      *)
(* keeps the types.                                                        *)
LEMMA CreateTypes ==
    ASSUME TypeOK, Create
    PROVE  TypeOK'
<1> USE DEF TypeOK, HomeTypeOK, PCs, SessionPCs, CreatePCs, OpenPCs, SetupPCs, PollPCs, EndPCs,
            tableVars, fileVars, deviceVars, lxdVars, callVars, serverVars,
            MainAt, Goto, Return, ImageStates
<1>1. CASE CreateBegin
  BY <1>1 DEF CreateBegin, CleanupStaleMapper, UmountResults, MapperAfterClose, WriteKey
<1>2. CASE CreateImage
  BY <1>2 DEF CreateImage, CreateCommand, CreateCleanup
<1>3. CASE FormatImage
  BY <1>3 DEF FormatImage, CreateCommand, CreateCleanup
<1>4. CASE OpenNewImage
  BY <1>4 DEF OpenNewImage, CreateCleanup
<1>5. CASE MakeFilesystem
  BY <1>5 DEF MakeFilesystem
<1>6. CASE UndoFilesystem
  BY <1>6 DEF UndoFilesystem, MapperAfterClose, CreateCleanup
<1>7. CASE CloseNewHome
  BY <1>7 DEF CloseNewHome, MapperAfterClose
<1> QED BY <1>1, <1>2, <1>3, <1>4, <1>5, <1>6, <1>7 DEF Create

LEMMA OpenTypes ==
    ASSUME TypeOK, Open
    PROVE  TypeOK'
<1> USE DEF TypeOK, HomeTypeOK, PCs, SessionPCs, CreatePCs, OpenPCs, SetupPCs, PollPCs, EndPCs,
            tableVars, fileVars, deviceVars, lxdVars, callVars, homeVars, serverVars,
            MainAt, Goto, Return
<1>1. CASE OpenRefused
  BY <1>1 DEF OpenRefused
<1>2. CASE OpenBegin
  BY <1>2 DEF OpenBegin, CleanupStaleMapper, UmountResults, MapperAfterClose, WriteKey
<1>3. CASE CryptOpen
  BY <1>3 DEF CryptOpen
<1>4. CASE MountHome
  <2>1. containerid \in Containers
    BY <1>4 DEF MountHome
  <2>2. AddEntry(mounted_volumes, containerid) \in Seq(VolumeInfo)
    BY <2>1, AddedEntry
  <2>3. mounted_volumes' \in Seq(VolumeInfo)
    BY <1>4, <2>2 DEF MountHome
  <2> QED BY <1>4, <2>1, <2>3 DEF MountHome, MapperAfterClose
<1>5. CASE BeginProvisioning
  BY <1>5 DEF BeginProvisioning
<1> QED BY <1>1, <1>2, <1>3, <1>4, <1>5 DEF Open

LEMMA SetupTypes ==
    ASSUME TypeOK, Setup
    PROVE  TypeOK'
<1> USE DEF TypeOK, HomeTypeOK, PCs, SessionPCs, CreatePCs, OpenPCs, SetupPCs, PollPCs, EndPCs,
            tableVars, fileVars, deviceVars, lxdVars, callVars, homeVars, serverVars,
            MainAt, Goto, Return, LxdStates
<1>1. CASE SetupSsh
  BY <1>1 DEF SetupSsh
<1>2. CASE StartContainer
  BY <1>2 DEF StartContainer, Started, NotStarted
<1>3. CASE CreateContainer
  <2>1. CASE UNCHANGED callVars
    BY <1>3, <2>1 DEF CreateContainer, Deleted
  <2>2. CASE volume_close_encrypted_home("main", containerid)
    <3>1. CallsTypeOK'
      BY <2>2, CloseTypes, ThreadNames DEF CallsTypeOK
    <3> QED BY <1>3, <3>1 DEF CreateContainer, Deleted, CallsTypeOK
  <2> QED BY <1>3, <2>1, <2>2 DEF CreateContainer
<1>4. CASE StartCreated
  BY <1>4 DEF StartCreated, Started, NotStarted
<1>5. CASE SetupUser
  BY <1>5 DEF SetupUser
<1>6. CASE EnsureSshd
  BY <1>6 DEF EnsureSshd
<1>7. CASE GetSshPort
  BY <1>7 DEF GetSshPort
<1> QED BY <1>1, <1>2, <1>3, <1>4, <1>5, <1>6, <1>7 DEF Setup

LEMMA PollTypes ==
    ASSUME TypeOK, WaitPoll \/ WatchPoll \/ PollTimeout
    PROVE  TypeOK'
<1> USE DEF TypeOK, HomeTypeOK, PCs, SessionPCs, CreatePCs, OpenPCs, SetupPCs, PollPCs, EndPCs,
            tableVars, fileVars, deviceVars, lxdVars, callVars, homeVars, serverVars,
            MainAt, Goto
<1>1. ASSUME NEW event \in {"ssh_connected", "ssh_disconnected", "timeout"},
             containerid \in Containers, Log(event, containerid)
      PROVE  log' \in Seq(LogRow)
  <2>1. [event |-> event, container |-> containerid] \in LogRow
    BY <1>1 DEF LogRow
  <2> QED BY <1>1, <2>1 DEF Log
<1>2. CASE WaitPoll
  BY <1>1, <1>2 DEF WaitPoll
<1>3. CASE WatchPoll
  <2>0. pc = "watch" /\ UNCHANGED <<homeVars, containerid, serverVars>>
    BY <1>3 DEF WatchPoll
  <2>1. empty_count' \in Nat
    BY <1>3 DEF WatchPoll, Polled, Connections
  <2>2. CASE Log("ssh_disconnected", containerid) /\ pc' = "stop" /\ UNCHANGED polls
    <3>1. log' \in Seq(LogRow)
      BY <1>1, <1>3, <2>2 DEF WatchPoll
    <3> QED BY <2>0, <2>1, <2>2, <3>1
  <2>3. CASE polls' = polls + 1 /\ UNCHANGED <<pc, log>>
    BY <2>0, <2>1, <2>3
  <2> QED BY <1>3, <2>2, <2>3 DEF WatchPoll
<1>4. CASE PollTimeout
  BY <1>1, <1>4 DEF PollTimeout
<1> QED BY <1>2, <1>3, <1>4

LEMMA EndTypes ==
    ASSUME TypeOK, StopContainer \/ CloseAfterFailure \/ EndSession
    PROVE  TypeOK'
<1> USE DEF TypeOK, HomeTypeOK, PCs, SessionPCs, CreatePCs, OpenPCs, SetupPCs, PollPCs, EndPCs,
            tableVars, fileVars, deviceVars, lxdVars, callVars, homeVars, serverVars,
            MainAt, Goto, Return, LxdStates
<1>1. ASSUME volume_close_encrypted_home("main", containerid)
      PROVE  CallsTypeOK'
  BY <1>1, CloseTypes, ThreadNames DEF CallsTypeOK
<1>2. CASE StopContainer
  BY <1>1, <1>2 DEF StopContainer, Stopped, CallsTypeOK
<1>3. CASE CloseAfterFailure
  BY <1>1, <1>3 DEF CloseAfterFailure, CallsTypeOK
<1>4. CASE EndSession
  BY <1>4, FinishTypes DEF EndSession, ClientTypeOK
<1> QED BY <1>2, <1>3, <1>4

(* The state every step of the specification leaves is of the declared     *)
(* types, whatever commands fail and whatever happens around the manager.  *)
LEMMA NextTypes == TypeOK /\ [Next]_vars => TypeOK'
<1> SUFFICES ASSUME TypeOK, [Next]_vars PROVE TypeOK'
  OBVIOUS
<1> USE ThreadNames
<1>0. /\ HomeTypeOK /\ ClientTypeOK /\ CallsTypeOK
      /\ mounted_volumes \in Seq(VolumeInfo)
  BY DEF TypeOK, HomeTypeOK, ClientTypeOK, CallsTypeOK
<1>a. ASSUME ClientTypeOK', HomeTypeOK', log' \in Seq(LogRow), sessions' \in Nat,
             server_running' \in BOOLEAN
      PROVE  TypeOK'
  BY <1>a DEF TypeOK, ClientTypeOK
<1>b. ASSUME UNCHANGED homeVars PROVE HomeTypeOK'
  BY <1>0, <1>b DEF HomeTypeOK, homeVars, tableVars, fileVars, deviceVars, lxdVars, callVars
<1>c. ASSUME UNCHANGED clientVars PROVE ClientTypeOK'
  BY <1>0, <1>c DEF ClientTypeOK, clientVars
<1>d. ASSUME UNCHANGED <<log, serverVars>>
      PROVE  log' \in Seq(LogRow) /\ sessions' \in Nat /\ server_running' \in BOOLEAN
  BY <1>d DEF TypeOK, serverVars
<1>1. CASE Accept
  <2>1. CallsTypeOK'
    BY <1>0, <1>1, BeginSweepTypes DEF Accept
  <2>2. HomeTypeOK'
    BY <1>0, <1>1, <2>1
    DEF Accept, HomeTypeOK, CallsTypeOK, tableVars, fileVars, deviceVars, lxdVars
  <2>3. ClientTypeOK'
    BY <1>0, <1>1, GotoTypes
    DEF Accept, PCs, SessionPCs, CreatePCs, OpenPCs, SetupPCs, PollPCs, EndPCs
  <2> QED BY <1>1, <1>a, <2>2, <2>3 DEF Accept, TypeOK
<1>2. CASE Exit
  BY <1>0, <1>2, <1>a, <1>b, <1>d
  DEF Exit, ClientTypeOK, PCs, SessionPCs, CreatePCs, OpenPCs, SetupPCs, PollPCs, EndPCs
<1>3. CASE ClientGone
  BY <1>3, <1>a, <1>b, <1>d, FinishTypes DEF ClientGone
<1>4. CASE VerifyFails
  <2>1. [event |-> "auth_fail", container |-> None] \in LogRow
    BY DEF LogRow
  <2>2. log' \in Seq(LogRow)
    BY <1>4, <2>1 DEF VerifyFails, Log, TypeOK
  <2> QED BY <1>4, <1>a, <1>b, <2>2, FinishTypes DEF VerifyFails, TypeOK, serverVars
<1>5. ASSUME NEW c \in Containers, VerifySucceeds(c) PROVE TypeOK'
  <2>1. [event |-> "auth_ok", container |-> None] \in LogRow
    BY DEF LogRow
  <2>2. log' \in Seq(LogRow)
    BY <1>5, <2>1 DEF VerifySucceeds, Log, TypeOK
  <2>3. ClientTypeOK'
    BY <1>0, <1>5, FinishTypes
    DEF VerifySucceeds, ClientTypeOK, PCs, SessionPCs, CreatePCs, OpenPCs
  <2> QED BY <1>5, <1>a, <1>b, <2>2, <2>3 DEF VerifySucceeds, TypeOK, serverVars
<1>6. CASE Serve
  BY <1>6, CreateTypes, OpenTypes, SetupTypes, PollTypes, EndTypes DEF Serve
<1>7. CASE MainCall
  BY <1>0, <1>7, <1>a, <1>c, <1>d, ProbeTypes, CloseStepTypes, CloseRmdirTypes DEF MainCall
<1>8. CASE Cleaner
  <2>1. CASE CleanerWakes
    <3>1. CallsTypeOK'
      BY <1>0, <2>1, BeginSweepTypes DEF CleanerWakes
    <3>2. HomeTypeOK'
      BY <1>0, <2>1, <3>1
      DEF CleanerWakes, HomeTypeOK, CallsTypeOK, tableVars, fileVars, deviceVars, lxdVars
    <3> QED BY <1>8, <3>2, <1>a, <1>c, <1>d DEF Cleaner
  <2>2. CASE ~CleanerWakes
    BY <1>0, <1>8, <2>2, <1>a, <1>c, <1>d, ProbeTypes, CloseStepTypes, CloseRmdirTypes
    DEF Cleaner
  <2> QED BY <2>1, <2>2
<1>9. CASE SignalArrives
  <2>1. CallsTypeOK' /\ mounted_volumes' \in Seq(VolumeInfo)
    BY <1>0, <1>9, CleanupAllTypes DEF SignalArrives
  <2>2. HomeTypeOK'
    BY <1>0, <1>9, <2>1
    DEF SignalArrives, HomeTypeOK, CallsTypeOK, fileVars, deviceVars, lxdVars
  <2> QED BY <1>9, <1>a, <1>c, <2>2 DEF SignalArrives, TypeOK
<1>10. CASE SignalHandler
  <2>1. CASE CloseStep("signal")
    BY <1>0, <1>10, <2>1, <1>a, <1>c, <1>d, CloseStepTypes DEF SignalHandler
  <2>2. CASE SignalClosed
    <3>1. Cleared(mounted_volumes, ent["signal"]) \in Seq(VolumeInfo)
      BY <1>0, ClearedTable DEF CallsTypeOK
    <3>2. CallsTypeOK' /\ mounted_volumes' \in Seq(VolumeInfo)
      BY <1>0, <2>2, <3>1, CleanupAllTypes DEF SignalClosed
    <3>3. dirs' \subseteq Containers
      BY <1>0, <2>2 DEF SignalClosed, RemoveMountPoint, HomeTypeOK
    <3>4. HomeTypeOK'
      BY <1>0, <2>2, <3>2, <3>3 DEF SignalClosed, HomeTypeOK, CallsTypeOK, fileVars, lxdVars
    <3> QED BY <1>10, <1>a, <1>c, <1>d, <3>4 DEF SignalHandler
  <2> QED BY <1>10, <2>1, <2>2 DEF SignalHandler
<1>11. ASSUME NEW c \in Containers, ContainerExits(c) \/ CleanContainer(c) PROVE TypeOK'
  <2>1. HomeTypeOK'
    BY <1>0, <1>11 DEF ContainerExits, CleanContainer, Stopped, HomeTypeOK, LxdStates,
                       tableVars, fileVars, deviceVars, callVars
  <2> QED BY <1>11, <2>1, <1>a, <1>c, <1>d DEF ContainerExits, CleanContainer
<1>12. CASE CleanupLuks
  <2>1. HomeTypeOK'
    BY <1>0, <1>12 DEF CleanupLuks, HomeTypeOK, tableVars, fileVars, lxdVars, callVars
  <2> QED BY <1>12, <2>1, <1>a, <1>c, <1>d DEF CleanupLuks
<1>13. CASE Crash
  <2>1. << >> \in Seq(VolumeInfo)
    OBVIOUS
  <2>2. HomeTypeOK'
    BY <1>0, <1>13, <2>1 DEF Crash, HomeTypeOK, CallStates, fileVars, deviceVars, lxdVars
  <2> QED BY <1>13, <2>2, <1>a, FinishTypes DEF Crash, TypeOK
<1>14. CASE UNCHANGED vars
  BY <1>14, <1>a, <1>b, <1>c, <1>d DEF vars
<1> QED BY <1>1, <1>2, <1>3, <1>4, <1>5, <1>6, <1>7, <1>8, <1>9, <1>10, <1>11, <1>12,
           <1>13, <1>14 DEF Next

LEMMA InitTypes == Init => TypeOK
<1>1. << >> \in Seq(VolumeInfo) /\ << >> \in Seq(LogRow)
  OBVIOUS
<1>2. Init => HomeTypeOK
  <2> SUFFICES ASSUME Init PROVE HomeTypeOK
    OBVIOUS
  <2> USE DEF Init, HomeInit
  <2>1. image \in [Containers -> ImageStates] /\ lxc \in [Containers -> LxdStates]
    BY DEF ImageStates, LxdStates
  <2>2. CallsTypeOK
    BY DEF CallsTypeOK, CallStates
  <2> QED BY <1>1, <2>1, <2>2 DEF HomeTypeOK, CallsTypeOK
<1> QED BY <1>1, <1>2 DEF Init, TypeOK, PCs, SessionPCs, CreatePCs, OpenPCs, SetupPCs,
                          PollPCs, EndPCs

(* Type correctness: handle_client, the cleaner and the signal handler     *)
(* leave the table, the files, the devices and the containers in states    *)
(* the other code expects.                                                 *)
THEOREM TypeCorrect == Spec => []TypeOK
  BY InitTypes, NextTypes, PTL DEF Spec

--------------------------------------------------------------------------------
(***************************************************************************)
(* One mounted entry per container.                                        *)
(***************************************************************************)
(* All that ever happens to the table.                                     *)
TableStep ==
    \/ mounted_volumes' = mounted_volumes
    \/ \E n \in Nat : mounted_volumes' = Cleared(mounted_volumes, n)
    \/ mounted_volumes' = << >>
    \/ MountHome /\ mounted_volumes' = AddEntry(mounted_volumes, containerid)

LEMMA TableSteps ==
    ASSUME TypeOK, [Next]_vars
    PROVE  TableStep
<1> USE DEF TableStep
<1>0. ASSUME UNCHANGED tableVars \/ UNCHANGED homeVars PROVE TableStep
  BY <1>0 DEF homeVars, tableVars
<1>c. ASSUME NEW t \in Threads PROVE ent[t] \in Nat
  BY <1>c DEF TypeOK, HomeTypeOK
<1>r. ASSUME NEW t \in Threads, CloseRmdir(t) PROVE TableStep
  BY <1>c, <1>r DEF CloseRmdir
<1>s. ASSUME NEW t \in Threads, CloseStep(t) PROVE TableStep
  BY <1>0, <1>s DEF CloseStep, CloseUmount, CloseCrypt, tableVars
<1>p. ASSUME NEW t \in Threads, Probe(t) PROVE TableStep
  BY <1>0, <1>p DEF Probe, tableVars
<1>1. CASE Accept \/ Exit \/ ClientGone \/ VerifyFails \/ (\E c \in Containers : VerifySucceeds(c))
  BY <1>1, <1>0 DEF Accept, Exit, ClientGone, VerifyFails, VerifySucceeds, tableVars
<1>2. CASE Create
  BY <1>2 DEF Create, CreateBegin, CreateImage, FormatImage, CreateCommand, OpenNewImage,
              MakeFilesystem, UndoFilesystem, CloseNewHome, tableVars
<1>3. CASE Open
  BY <1>3 DEF Open, OpenRefused, OpenBegin, CryptOpen, MountHome, BeginProvisioning,
              homeVars, tableVars
<1>4. CASE Setup
  BY <1>4 DEF Setup, SetupSsh, StartContainer, CreateContainer, StartCreated, SetupUser,
              EnsureSshd, GetSshPort, homeVars, tableVars
<1>5. CASE WaitPoll \/ WatchPoll \/ PollTimeout \/ StopContainer \/ CloseAfterFailure \/ EndSession
  BY <1>5 DEF WaitPoll, WatchPoll, PollTimeout, StopContainer, CloseAfterFailure, EndSession,
              homeVars, tableVars
<1>6. CASE MainCall
  BY <1>6, <1>p, <1>r, <1>s, ThreadNames DEF MainCall
<1>7. CASE Cleaner
  BY <1>7, <1>p, <1>r, <1>s, ThreadNames DEF Cleaner, CleanerWakes, tableVars
<1>8. CASE SignalArrives
  BY <1>8 DEF SignalArrives, volume_cleanup_all
<1>9. CASE SignalHandler
  BY <1>9, <1>c, <1>s, ThreadNames DEF SignalHandler, SignalClosed, volume_cleanup_all
<1>10. CASE (\E c \in Containers : ContainerExits(c) \/ CleanContainer(c)) \/ CleanupLuks
  BY <1>10 DEF ContainerExits, CleanContainer, CleanupLuks, tableVars
<1>11. CASE Crash
  BY <1>11 DEF Crash
<1>12. CASE UNCHANGED vars
  BY <1>12 DEF vars, homeVars, tableVars
<1> QED BY <1>1, <1>2, <1>3, <1>4, <1>5, <1>6, <1>7, <1>8, <1>9, <1>10, <1>11, <1>12
        DEF Next, Serve

(* Between the look at the table and the new entry no entry of the         *)
(* container can appear.                                                   *)
Opening == pc \in {"cryptopen", "mount"}
Pending == Opening => ~HasEntry(mounted_volumes, containerid)

(* A session begins to open a home only past the look at the table.        *)
LEMMA OpeningSteps ==
    ASSUME TypeOK, [Next]_vars, Opening'
    PROVE  /\ containerid' = containerid
           /\ Opening \/ (/\ ~HasEntry(mounted_volumes, containerid)
                          /\ mounted_volumes' = mounted_volumes)
           /\ ~MountHome
<1> USE DEF Opening, Goto, Return, Finish, MainAt
<1>0. ASSUME UNCHANGED clientVars
      PROVE  containerid' = containerid /\ Opening
  BY <1>0 DEF clientVars
<1>1. CASE Accept \/ Exit \/ ClientGone \/ VerifyFails \/ (\E c \in Containers : VerifySucceeds(c))
  BY <1>1 DEF Accept, Exit, ClientGone, VerifyFails, VerifySucceeds
<1>2. CASE Create
  BY <1>2 DEF Create, CreateBegin, CreateImage, FormatImage, CreateCommand, OpenNewImage,
              MakeFilesystem, UndoFilesystem, CloseNewHome, WriteKey, CreateCleanup
<1>3. CASE Open
  BY <1>3 DEF Open, OpenRefused, OpenBegin, CryptOpen, MountHome, BeginProvisioning,
              AlreadyOpen, WriteKey, tableVars
<1>4. CASE Setup
  BY <1>4 DEF Setup, SetupSsh, StartContainer, CreateContainer, StartCreated, SetupUser,
              EnsureSshd, GetSshPort
<1>5. CASE WaitPoll \/ WatchPoll \/ PollTimeout \/ StopContainer \/ CloseAfterFailure \/ EndSession
  BY <1>5 DEF WaitPoll, WatchPoll, PollTimeout, StopContainer, CloseAfterFailure, EndSession
<1>m. ASSUME ~(Create \/ Open \/ Setup), MountHome PROVE FALSE
  BY <1>m DEF Open
<1>6. CASE MainCall \/ Cleaner \/ SignalArrives \/ SignalHandler
           \/ (\E c \in Containers : ContainerExits(c) \/ CleanContainer(c)) \/ CleanupLuks
  <2>1. UNCHANGED clientVars
    BY <1>6 DEF MainCall, Cleaner, SignalArrives, SignalHandler, ContainerExits,
                CleanContainer, CleanupLuks
  <2>2. ~MountHome
    BY <2>1 DEF MountHome, clientVars
  <2> QED BY <1>0, <2>1, <2>2
<1>11. CASE Crash
  BY <1>11 DEF Crash
<1>12. CASE UNCHANGED vars
  BY <1>12, <1>0 DEF vars, clientVars, MountHome
<1> QED BY <1>1, <1>2, <1>3, <1>4, <1>5, <1>6, <1>11, <1>12 DEF Next, Serve

UniqueInv == TypeOK /\ UniqueMounted /\ Pending

(* No step but the one that mounts a home gives any container an entry.    *)
LEMMA NoNewEntry ==
    ASSUME TypeOK, TableStep, ~MountHome, NEW c, NEW n, IsEntryOf(mounted_volumes', n, c)
    PROVE  IsEntryOf(mounted_volumes, n, c)
<1>1. mounted_volumes \in Seq(VolumeInfo)
  BY DEF TypeOK, HomeTypeOK
<1>2. ASSUME NEW m \in Nat, mounted_volumes' = Cleared(mounted_volumes, m)
      PROVE  IsEntryOf(mounted_volumes, n, c)
  <2> DEFINE table == Cleared(mounted_volumes, m)
  <2>0. /\ DOMAIN table = DOMAIN mounted_volumes
        /\ \A k \in DOMAIN mounted_volumes :
              /\ table[k].container = mounted_volumes[k].container
              /\ k # m => table[k] = mounted_volumes[k]
        /\ m \in DOMAIN mounted_volumes => ~table[m].is_mounted
    BY <1>1, ClearedTable
  <2> HIDE DEF table
  <2>1. /\ DOMAIN table = DOMAIN mounted_volumes
        /\ \A k \in DOMAIN mounted_volumes :
              /\ table[k].container = mounted_volumes[k].container
              /\ table[k].is_mounted => mounted_volumes[k].is_mounted
    BY <2>0
  <2>2. IsEntryOf(table, n, c)
    BY <1>2 DEF table
  <2> QED BY <2>1, <2>2 DEF IsEntryOf, Mounted
<1>3. CASE mounted_volumes' = << >>
  BY <1>3 DEF IsEntryOf, Mounted
<1> QED BY <1>2, <1>3 DEF TableStep

LEMMA UniqueStep == UniqueInv /\ [Next]_vars => UniqueInv'
<1> SUFFICES ASSUME UniqueInv, [Next]_vars PROVE UniqueInv'
  OBVIOUS
<1>1. TypeOK /\ TypeOK' /\ TableStep
  BY NextTypes, TableSteps DEF UniqueInv
<1>2. CASE ~MountHome
  <2>1. UniqueMounted'
    BY <1>1, <1>2, NoNewEntry DEF UniqueInv, UniqueMounted, IsEntryOf, Mounted
  <2>2. Pending'
    <3> SUFFICES ASSUME Opening', HasEntry(mounted_volumes', containerid') PROVE FALSE
      BY DEF Pending
    <3>1. PICK n \in DOMAIN mounted_volumes' : IsEntryOf(mounted_volumes', n, containerid')
      BY DEF HasEntry
    <3>2. IsEntryOf(mounted_volumes, n, containerid)
      BY <1>1, <1>2, <3>1, NoNewEntry, OpeningSteps
    <3> QED BY <1>1, <3>2, OpeningSteps DEF UniqueInv, Pending, HasEntry, IsEntryOf, Mounted
  <2> QED BY <1>1, <2>1, <2>2 DEF UniqueInv
<1>3. CASE MountHome
  <2>1. ~Opening'
    BY <1>1, <1>3, OpeningSteps
  <2>2. CASE mounted_volumes' = mounted_volumes
    BY <1>1, <2>1, <2>2 DEF UniqueInv, Pending, UniqueMounted
  <2>3. CASE mounted_volumes' = AddEntry(mounted_volumes, containerid)
    <3>1. containerid \in Containers /\ mounted_volumes \in Seq(VolumeInfo)
      BY <1>1, <1>3 DEF MountHome, MainAt, TypeOK, HomeTypeOK, SessionPCs, OpenPCs
    <3>2. ~HasEntry(mounted_volumes, containerid)
      BY <1>3 DEF MountHome, MainAt, UniqueInv, Pending, Opening
    <3>3. UniqueMounted'
      <4> DEFINE table == mounted_volumes
                 last  == Len(mounted_volumes) + 1
      <4>0. /\ DOMAIN AddEntry(table, containerid) = DOMAIN table \cup {last}
            /\ \A m \in DOMAIN table : AddEntry(table, containerid)[m] = table[m]
            /\ AddEntry(table, containerid)[last]
                  = [container |-> containerid, is_mounted |-> TRUE]
        BY <3>1, AddedEntry
      <4>1. /\ DOMAIN table' = DOMAIN table \cup {last}
            /\ \A m \in DOMAIN table : table'[m] = table[m]
            /\ table'[last].container = containerid
        BY <2>3, <4>0
      <4>2. \A m \in DOMAIN table : ~IsEntryOf(table, m, containerid)
        BY <3>2 DEF HasEntry
      <4> SUFFICES ASSUME NEW c \in Containers, NEW m \in DOMAIN table', NEW n \in DOMAIN table',
                          IsEntryOf(table', m, c), IsEntryOf(table', n, c)
                   PROVE  m = n
        BY DEF UniqueMounted
      <4>3. CASE m # last /\ n # last
        BY <4>1, <4>3 DEF UniqueInv, UniqueMounted, IsEntryOf, Mounted
      <4>4. CASE m = last \/ n = last
        <5>1. c = containerid
          BY <4>1, <4>4 DEF IsEntryOf
        <5>2. \A k \in DOMAIN table : ~IsEntryOf(table', k, c)
          BY <4>1, <4>2, <5>1 DEF IsEntryOf, Mounted
        <5> QED BY <4>1, <5>2
      <4> QED BY <4>3, <4>4
    <3> QED BY <1>1, <2>1, <3>3 DEF UniqueInv, Pending
  <2> QED BY <1>3, <2>2, <2>3 DEF MountHome
<1> QED BY <1>2, <1>3

(* A container never has two mounted entries, whatever fails, crashes or   *)
(* interrupts the manager: volume_close_encrypted_home, which stops at the *)
(* first, never leaves one behind.                                         *)
THEOREM UniqueCorrect == Spec => []UniqueMounted
<1>1. Init => TypeOK
  BY InitTypes
<1>2. Init => UniqueInv
  BY <1>1 DEF Init, HomeInit, UniqueInv, UniqueMounted, Pending, Opening, IsEntryOf, Mounted
<1>3. UniqueInv => UniqueMounted
  BY DEF UniqueInv
<1> QED BY <1>2, <1>3, UniqueStep, PTL DEF Spec

(***************************************************************************)
(* Indices into the table.                                                 *)
(***************************************************************************)
(* A thread that was outside the closing of an entry: after its step it is *)
(* out, probes an entry of the table or is about to close one.             *)
Looks(t) ==
    /\ at[t] \in {"out", "probe"}
    /\ \A u \in Threads \ {t} : at'[u] = at[u] /\ cur'[u] = cur[u] /\ ent'[u] = ent[u]
    /\ at'[t] \in {"out", "probe", "umount"}
    /\ at'[t] = "out" => cur'[t] = 0
    /\ at'[t] = "probe" => cur'[t] \in DOMAIN mounted_volumes
    /\ at'[t] = "umount" => ent'[t] \in DOMAIN mounted_volumes
    /\ UNCHANGED <<mounted_volumes, mounts>>

OutAtZero == \A t \in Threads : at[t] = "out" => cur[t] = 0

LEMMA SweepLooks ==
    ASSUME TypeOK, NEW t \in Threads, NEW k, at[t] \in {"out", "probe"},
           SweepFrom(t, mounted_volumes, k), UNCHANGED <<mounted_volumes, mounts>>
    PROVE  Looks(t)
<1>1. CallsTypeOK /\ mounted_volumes \in Seq(VolumeInfo)
  BY DEF TypeOK, HomeTypeOK, CallsTypeOK
<1>2. ASSUME NEW n \in NextMounted(mounted_volumes, k),
             at' = [at EXCEPT ![t] = "probe"],
             cur' = [cur EXCEPT ![t] = n],
             ent' = [ent EXCEPT ![t] = 0]
      PROVE  Looks(t)
  BY <1>1, <1>2, NextIndex DEF Looks, CallsTypeOK
<1>3. CASE /\ at' = [at EXCEPT ![t] = "out"]
           /\ cur' = [cur EXCEPT ![t] = 0]
           /\ ent' = [ent EXCEPT ![t] = 0]
  BY <1>1, <1>3 DEF Looks, CallsTypeOK
<1> QED BY <1>2, <1>3 DEF SweepFrom

LEMMA CloseLooks ==
    ASSUME TypeOK, NEW t \in Threads, NEW c, NEW n \in EntryOf(mounted_volumes, c),
           at[t] \in {"out", "probe"}, BeginClose(t, n), UNCHANGED cur,
           UNCHANGED <<mounted_volumes, mounts>>
    PROVE  Looks(t)
<1>1. CallsTypeOK /\ mounted_volumes \in Seq(VolumeInfo)
  BY DEF TypeOK, HomeTypeOK, CallsTypeOK
<1> QED BY <1>1, EntryIndex DEF BeginClose, Looks, CallsTypeOK

LEMMA ProbeLooks ==
    ASSUME TypeOK, NEW t \in Threads, Probe(t)
    PROVE  Looks(t)
<1>1. at[t] = "probe" /\ UNCHANGED <<mounted_volumes, mounts>>
  BY DEF Probe, tableVars, deviceVars
<1>2. CASE SweepFrom(t, mounted_volumes, cur[t] + 1)
  BY <1>1, <1>2, SweepLooks
<1>3. ASSUME NEW c, NEW n \in EntryOf(mounted_volumes, c), BeginClose(t, n), UNCHANGED cur
      PROVE  Looks(t)
  BY <1>1, <1>3, CloseLooks
<1> QED BY <1>2, <1>3 DEF Probe

(* A handler that closes a home: either the table has no entry for it and  *)
(* nothing happens, or the main thread looks.                              *)
LEMMA HandlerLooks ==
    ASSUME TypeOK, NEW c, at["main"] = "out", UNCHANGED <<mounted_volumes, mounts>>,
           volume_close_encrypted_home("main", c)
    PROVE  UNCHANGED callVars \/ Looks("main")
<1>1. ASSUME NEW n \in EntryOf(mounted_volumes, c), BeginClose("main", n), UNCHANGED cur
      PROVE  Looks("main")
  BY <1>1, CloseLooks, ThreadNames
<1>2. CASE UNCHANGED <<at, ent, cur>>
  BY <1>2 DEF callVars
<1> QED BY <1>1, <1>2 DEF volume_close_encrypted_home

LEMMA BeginSweepLooks ==
    ASSUME TypeOK, NEW t \in Threads, UNCHANGED <<mounted_volumes, mounts>>, BeginSweep(t)
    PROVE  UNCHANGED callVars \/ Looks(t)
  BY SweepLooks DEF BeginSweep

(* All that ever happens to the threads' places, without signals.          *)
CallStep ==
    \/ UNCHANGED callVars /\ (UNCHANGED mounted_volumes \/ MountHome)
    \/ \E t \in {"main", "cleaner"} :
          Looks(t) \/ CloseUmount(t) \/ CloseCrypt(t) \/ CloseRmdir(t)
    \/ Crash

LEMMA CallSteps ==
    ASSUME TypeOK, "signal" \notin Events, at["signal"] = "out", [Next]_vars
    PROVE  CallStep
<1> USE ThreadNames DEF CallStep
<1>0. ASSUME UNCHANGED callVars /\ UNCHANGED tableVars PROVE CallStep
  BY <1>0 DEF tableVars
<1>e. ASSUME UNCHANGED callVars /\ UNCHANGED mounted_volumes PROVE CallStep
  BY <1>e
<1>g. ASSUME UNCHANGED homeVars PROVE CallStep
  BY <1>g DEF homeVars, tableVars
<1>1. CASE Accept
  <2>1. UNCHANGED <<mounted_volumes, mounts>> /\ BeginSweep("main")
    BY <1>1 DEF Accept, tableVars, deviceVars
  <2> QED BY <2>1, BeginSweepLooks
<1>2. CASE Exit \/ ClientGone \/ VerifyFails \/ (\E c \in Containers : VerifySucceeds(c))
  BY <1>2, <1>g DEF Exit, ClientGone, VerifyFails, VerifySucceeds
<1>3. CASE Create
  BY <1>3, <1>0 DEF Create, CreateBegin, CreateImage, FormatImage, CreateCommand, OpenNewImage,
              MakeFilesystem, UndoFilesystem, CloseNewHome
<1>4. CASE Open
  <2>1. CASE OpenRefused
    BY <2>1, <1>g DEF OpenRefused
  <2>2. CASE MountHome
    BY <2>2 DEF MountHome
  <2> QED BY <1>4, <1>0, <1>e, <2>1, <2>2 DEF Open, OpenBegin, CryptOpen, BeginProvisioning
<1>h. ASSUME at["main"] = "out", UNCHANGED <<tableVars, deviceVars>>,
             volume_close_encrypted_home("main", containerid)
      PROVE  CallStep
  <2>1. UNCHANGED <<mounted_volumes, mounts>>
    BY <1>h DEF tableVars, deviceVars
  <2> QED BY <1>h, <2>1, HandlerLooks
<1>5. CASE Setup
  <2>1. CASE CreateContainer
    <3>1. at["main"] = "out" /\ UNCHANGED <<tableVars, deviceVars>>
      BY <2>1 DEF CreateContainer, MainAt
    <3>2. UNCHANGED callVars \/ volume_close_encrypted_home("main", containerid)
      BY <2>1 DEF CreateContainer
    <3> QED BY <1>0, <1>h, <3>1, <3>2
  <2>2. CASE ~CreateContainer
    BY <1>5, <2>2, <1>0, <1>e, <1>g DEF Setup, SetupSsh, StartContainer, StartCreated, SetupUser,
                            EnsureSshd, GetSshPort
  <2> QED BY <2>1, <2>2
<1>6. CASE WaitPoll \/ WatchPoll \/ PollTimeout \/ EndSession
  BY <1>6, <1>g DEF WaitPoll, WatchPoll, PollTimeout, EndSession
<1>7. CASE StopContainer \/ CloseAfterFailure
  BY <1>7, <1>h DEF StopContainer, CloseAfterFailure, MainAt
<1>8. CASE MainCall
  BY <1>8, ProbeLooks DEF MainCall, CloseStep
<1>9. CASE Cleaner
  <2>1. CASE CleanerWakes
    <3>1. UNCHANGED <<mounted_volumes, mounts>> /\ BeginSweep("cleaner")
      BY <2>1 DEF CleanerWakes, tableVars, deviceVars
    <3> QED BY <3>1, BeginSweepLooks
  <2>2. CASE ~CleanerWakes
    BY <1>9, <2>2, ProbeLooks DEF Cleaner, CloseStep
  <2> QED BY <2>1, <2>2
<1>10. CASE SignalArrives \/ SignalHandler
  BY <1>10 DEF SignalArrives, SignalHandler, SignalClosed, CloseStep, CloseUmount, CloseCrypt
<1>11. CASE (\E c \in Containers : ContainerExits(c) \/ CleanContainer(c)) \/ CleanupLuks
  BY <1>11, <1>0 DEF ContainerExits, CleanContainer, CleanupLuks
<1>12. CASE Crash
  BY <1>12
<1>13. CASE UNCHANGED vars
  BY <1>13, <1>g DEF vars
<1> QED BY <1>1, <1>2, <1>3, <1>4, <1>5, <1>6, <1>7, <1>8, <1>9, <1>10, <1>11, <1>12, <1>13
        DEF Next, Serve

Indexed ==
    \A t \in Threads : /\ at[t] = "probe" => cur[t] \in DOMAIN mounted_volumes
                       /\ at[t] \in Callers => ent[t] \in DOMAIN mounted_volumes

IndexInv == TypeOK /\ at["signal"] = "out" /\ Indexed

(* Without a signal handler the table keeps its entries.                   *)
LEMMA TableKeeps ==
    ASSUME TypeOK, [Next]_vars, "signal" \notin Events, at["signal"] = "out", ~Crash
    PROVE  DOMAIN mounted_volumes \subseteq DOMAIN mounted_volumes'
<1>0. mounted_volumes \in Seq(VolumeInfo)
  BY DEF TypeOK, HomeTypeOK
<1>1. ASSUME NEW n \in Nat, mounted_volumes' = Cleared(mounted_volumes, n)
      PROVE  DOMAIN mounted_volumes \subseteq DOMAIN mounted_volumes'
  BY <1>0, <1>1, ClearedTable
<1>2. CASE MountHome
  <2>1. containerid \in Containers
    BY <1>2 DEF MountHome, MainAt, TypeOK, SessionPCs, OpenPCs
  <2>2. DOMAIN mounted_volumes \subseteq DOMAIN AddEntry(mounted_volumes, containerid)
    BY <1>0, <2>1, AddedEntry
  <2> QED BY <1>2, <2>2 DEF MountHome
<1>3. CASE mounted_volumes' = << >> /\ ~MountHome
  <2>1. CallStep
    BY CallSteps
  <2>2. CASE UNCHANGED mounted_volumes
    BY <2>2
  <2>3. CASE \E t \in {"main", "cleaner"} : CloseRmdir(t)
    <3>1. PICK t \in {"main", "cleaner"} : CloseRmdir(t)
      BY <2>3
    <3>2. mounted_volumes' = Cleared(mounted_volumes, ent[t]) /\ ent[t] \in Nat
      BY <3>1, ThreadNames DEF CloseRmdir, TypeOK, HomeTypeOK
    <3> QED BY <3>2, <1>1
  <2> QED BY <1>3, <2>1, <2>2, <2>3
          DEF CallStep, Looks, CloseUmount, CloseCrypt, tableVars
<1> QED BY <1>1, <1>2, <1>3, TableSteps DEF TableStep

LEMMA IndexStep ==
    ASSUME "signal" \notin Events
    PROVE  IndexInv /\ [Next]_vars => IndexInv'
<1> SUFFICES ASSUME IndexInv, [Next]_vars PROVE IndexInv'
  OBVIOUS
<1>1. TypeOK /\ TypeOK' /\ at["signal"] = "out" /\ CallStep
  BY NextTypes, CallSteps DEF IndexInv
<1>2. CASE Crash
  BY <1>1, <1>2, ThreadNames DEF Crash, IndexInv, Indexed, Callers
<1>3. CASE ~Crash
  <2>1. DOMAIN mounted_volumes \subseteq DOMAIN mounted_volumes'
    BY <1>1, <1>3, TableKeeps
  <2>2. CASE UNCHANGED callVars
    BY <1>1, <2>1, <2>2 DEF callVars, IndexInv, Indexed
  <2>3. ASSUME NEW t \in {"main", "cleaner"}, Looks(t) PROVE IndexInv'
    BY <1>1, <2>1, <2>3, ThreadNames DEF Looks, IndexInv, Indexed, Callers
  <2>4. ASSUME NEW t \in {"main", "cleaner"}, CloseUmount(t) \/ CloseCrypt(t)
        PROVE  IndexInv'
    BY <1>1, <2>1, <2>4, ThreadNames
    DEF CloseUmount, CloseCrypt, IndexInv, Indexed, Callers, TypeOK, HomeTypeOK
  <2>5. ASSUME NEW t \in {"main", "cleaner"}, CloseRmdir(t) PROVE IndexInv'
    <3>1. CASE at' = [at EXCEPT ![t] = "out"] /\ ent' = [ent EXCEPT ![t] = 0] /\ UNCHANGED cur
      BY <1>1, <2>1, <3>1, ThreadNames DEF IndexInv, Indexed, Callers, TypeOK, HomeTypeOK
    <3>2. CASE SweepFrom(t, mounted_volumes', cur[t] + 1)
      <4>1. ASSUME NEW n \in NextMounted(mounted_volumes', cur[t] + 1),
                   at' = [at EXCEPT ![t] = "probe"],
                   cur' = [cur EXCEPT ![t] = n],
                   ent' = [ent EXCEPT ![t] = 0]
            PROVE  IndexInv'
        <5>1. n \in DOMAIN mounted_volumes'
          BY <4>1 DEF NextMounted
        <5> QED BY <1>1, <2>1, <4>1, <5>1, ThreadNames
                DEF IndexInv, Indexed, Callers, TypeOK, HomeTypeOK
      <4>2. CASE /\ at' = [at EXCEPT ![t] = "out"]
                 /\ cur' = [cur EXCEPT ![t] = 0]
                 /\ ent' = [ent EXCEPT ![t] = 0]
        BY <1>1, <2>1, <4>2, ThreadNames DEF IndexInv, Indexed, Callers, TypeOK, HomeTypeOK
      <4> QED BY <3>2, <4>1, <4>2 DEF SweepFrom
    <3> QED BY <2>5, <3>1, <3>2 DEF CloseRmdir
  <2> QED BY <1>1, <1>3, <2>2, <2>3, <2>4, <2>5 DEF CallStep
<1> QED BY <1>2, <1>3

(* Without a signal no thread uses an index that lies outside the table,   *)
(* though the table grows and is cleared under it while it waits for a     *)
(* command.                                                                *)
THEOREM IndexCorrect ==
    ASSUME "signal" \notin Events
    PROVE  Spec => []IndexValid
<1>1. Init => IndexInv
  BY InitTypes, ThreadNames DEF Init, HomeInit, IndexInv, Indexed, Callers
<1>2. IndexInv => IndexValid
  BY DEF IndexInv, Indexed, Callers, IndexValid, Dangling
<1> QED BY <1>1, <1>2, IndexStep, PTL DEF Spec
================================================================================
