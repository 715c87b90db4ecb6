----------------------------- MODULE ManagerHomes ------------------------------
(***************************************************************************)
(* The homes of the manager: the host's mounts against the table of        *)
(* volume.c, the files while a home is created and opened, the flag that   *)
(* keeps the cleaner off a session's set-up, and the event log.            *)
(*                                                                         *)
(* No home stays mounted without an entry that will get it closed. A       *)
(* signal handler throws the table away under the other threads, and a     *)
(* umount that fails leaves a mount behind, so the theorems exclude them;  *)
(* the first one excludes a crash as well, which leaves mounts that no     *)
(* entry of the new process knows of.                                      *)
(***************************************************************************)
EXTENDS ManagerProofs

(* Whoever has unmounted an entry's home and not yet cleared the entry:    *)
(* the home is not mounted, as long as the entry is.                       *)
Emptied ==
    \A t \in Threads : at[t] \in {"crypt", "rmdir"} =>
        \A c \in mounts : ~IsEntryOf(mounted_volumes, ent[t], c)

(* At the end of a session the main thread closes the only entry its       *)
(* container can have, and then goes on with nothing else.                 *)
Closing ==
    pc = "done" =>
        /\ at["main"] # "probe"
        /\ cur["main"] = 0
        /\ \A n \in DOMAIN mounted_volumes :
              IsEntryOf(mounted_volumes, n, containerid)
                  => at["main"] \in Callers /\ ent["main"] = n

CloseInv == UniqueInv /\ IndexInv /\ OutAtZero /\ Emptied /\ Closing

(* A mounted filesystem lies on an open device.                            *)
Backed == mounts \subseteq mapper

(* From the look at the table to the end of a session, its own home is     *)
(* known if it is mounted, also after a crash.                             *)
Past == {"cryptopen", "mount", "provision", "stop", "done"} \cup SetupPCs \cup PollPCs
Known == pc \in Past /\ containerid \in mounts => HasEntry(mounted_volumes, containerid)

(* Only opening a home mounts one, and it enters it in the table.          *)
LEMMA MountSteps ==
    ASSUME TypeOK, [Next]_vars
    PROVE  \/ mounts' \subseteq mounts
           \/ /\ MountHome
              /\ mounts' = mounts \cup {containerid}
              /\ mounted_volumes' = AddEntry(mounted_volumes, containerid)
<1> DEFINE Fewer == mounts' \subseteq mounts
<1>0. ASSUME UNCHANGED deviceVars \/ UNCHANGED homeVars PROVE Fewer
  BY <1>0 DEF homeVars, deviceVars
<1>u. ASSUME NEW c, mounts' \in UmountResults(c) PROVE Fewer
  BY <1>u DEF UmountResults
<1>s. ASSUME NEW c, CleanupStaleMapper(c) PROVE Fewer
  BY <1>s, <1>u DEF CleanupStaleMapper
<1>c. ASSUME NEW t, CloseStep(t) PROVE Fewer
  BY <1>c, <1>u DEF CloseStep, CloseUmount, CloseCrypt
<1>p. ASSUME NEW t, Probe(t) PROVE Fewer
  BY <1>p, <1>0 DEF Probe
<1>1. CASE Accept \/ Exit \/ ClientGone \/ VerifyFails \/ (\E c \in Containers : VerifySucceeds(c))
  BY <1>1, <1>0 DEF Accept, Exit, ClientGone, VerifyFails, VerifySucceeds
<1>2. CASE Create
  <2>1. CASE CreateBegin
    BY <2>1, <1>s DEF CreateBegin
  <2> QED BY <1>2, <2>1, <1>0 DEF Create, CreateImage, FormatImage, CreateCommand, OpenNewImage,
                          MakeFilesystem, UndoFilesystem, CloseNewHome
<1>3. CASE Open
  <2>1. CASE OpenBegin
    BY <2>1, <1>s DEF OpenBegin
  <2>2. CASE MountHome
    BY <2>2 DEF MountHome
  <2> QED BY <1>3, <2>1, <2>2, <1>0 DEF Open, OpenRefused, CryptOpen, BeginProvisioning
<1>4. CASE Setup
  BY <1>4, <1>0 DEF Setup, SetupSsh, StartContainer, CreateContainer, StartCreated, SetupUser,
                    EnsureSshd, GetSshPort
<1>5. CASE WaitPoll \/ WatchPoll \/ PollTimeout \/ StopContainer \/ CloseAfterFailure \/ EndSession
  BY <1>5, <1>0 DEF WaitPoll, WatchPoll, PollTimeout, StopContainer, CloseAfterFailure, EndSession
<1>6. CASE MainCall
  BY <1>6, <1>c, <1>p DEF MainCall, CloseRmdir
<1>7. CASE Cleaner
  BY <1>7, <1>0, <1>c, <1>p DEF Cleaner, CleanerWakes, CloseRmdir
<1>8. CASE SignalArrives \/ SignalHandler
  BY <1>8, <1>0, <1>c DEF SignalArrives, SignalHandler, SignalClosed
<1>9. CASE (\E c \in Containers : ContainerExits(c) \/ CleanContainer(c)) \/ Crash
  BY <1>9, <1>0 DEF ContainerExits, CleanContainer, Crash
<1>10. CASE CleanupLuks
  BY <1>10 DEF CleanupLuks
<1>11. CASE UNCHANGED vars
  BY <1>11, <1>0 DEF vars
<1> QED BY <1>1, <1>2, <1>3, <1>4, <1>5, <1>6, <1>7, <1>8, <1>9, <1>10, <1>11
        DEF Next, Serve

(* The place of thread t inside volume.c.                                  *)
SamePlace(t) == at'[t] = at[t] /\ cur'[t] = cur[t] /\ ent'[t] = ent[t]

(* The cleaner never moves the main thread.                                *)
LEMMA CleanerFrame ==
    ASSUME TypeOK, Cleaner
    PROVE  SamePlace("main")
<1> USE ThreadNames DEF SamePlace
<1>1. ASSUME Looks("cleaner") PROVE SamePlace("main")
  BY <1>1 DEF Looks
<1>2. ASSUME UNCHANGED callVars PROVE SamePlace("main")
  BY <1>2 DEF callVars
<1>3. CASE CleanerWakes
  <2>1. UNCHANGED <<mounted_volumes, mounts>> /\ BeginSweep("cleaner")
    BY <1>3 DEF CleanerWakes, tableVars, deviceVars
  <2> QED BY <1>1, <1>2, <2>1, BeginSweepLooks
<1>4. CASE Probe("cleaner")
  BY <1>1, <1>4, ProbeLooks
<1>5. CASE CloseStep("cleaner")
  BY <1>5 DEF CloseStep, CloseUmount, CloseCrypt, TypeOK, HomeTypeOK
<1>6. CASE CloseRmdir("cleaner")
  BY <1>6 DEF CloseRmdir, SweepFrom, TypeOK, HomeTypeOK
<1> QED BY <1>3, <1>4, <1>5, <1>6 DEF Cleaner

(* How a session gets to its end, and what moves the main thread there.    *)
LEMMA DoneSteps ==
    ASSUME TypeOK, "signal" \notin Events, at["signal"] = "out", [Next]_vars, pc' = "done"
    PROVE  /\ containerid' = containerid
           /\ ~MountHome
           /\ \/ StopContainer
              \/ pc = "done" /\ (MainCall \/ SamePlace("main"))
<1> USE DEF Goto, Return, Finish, MainAt
<1>0. ASSUME UNCHANGED clientVars, MainCall \/ SamePlace("main")
      PROVE  /\ containerid' = containerid
             /\ ~MountHome
             /\ pc = "done" /\ (MainCall \/ SamePlace("main"))
  BY <1>0 DEF clientVars, MountHome
<1>1. CASE Accept \/ Exit \/ ClientGone \/ VerifyFails \/ (\E c \in Containers : VerifySucceeds(c))
  BY <1>1 DEF Accept, Exit, ClientGone, VerifyFails, VerifySucceeds
<1>2. CASE Create
  BY <1>2 DEF Create, CreateBegin, CreateImage, FormatImage, CreateCommand, OpenNewImage,
              MakeFilesystem, UndoFilesystem, CloseNewHome, WriteKey, CreateCleanup
<1>3. CASE Open
  BY <1>3 DEF Open, OpenRefused, OpenBegin, CryptOpen, MountHome, BeginProvisioning, WriteKey
<1>4. CASE Setup
  BY <1>4 DEF Setup, SetupSsh, StartContainer, CreateContainer, StartCreated, SetupUser,
              EnsureSshd, GetSshPort
<1>5. CASE WaitPoll \/ WatchPoll \/ PollTimeout \/ CloseAfterFailure \/ EndSession
  BY <1>5 DEF WaitPoll, WatchPoll, PollTimeout, CloseAfterFailure, EndSession
<1>6. CASE StopContainer
  BY <1>6 DEF StopContainer, MountHome
<1>7. CASE MainCall
  BY <1>0, <1>7 DEF MainCall
<1>8. CASE Cleaner
  BY <1>0, <1>8, CleanerFrame DEF Cleaner
<1>9. CASE SignalArrives \/ SignalHandler
  BY <1>9 DEF SignalArrives, SignalHandler, SignalClosed, CloseStep, CloseUmount, CloseCrypt
<1>10. CASE (\E c \in Containers : ContainerExits(c) \/ CleanContainer(c)) \/ CleanupLuks
  BY <1>0, <1>10 DEF ContainerExits, CleanContainer, CleanupLuks, SamePlace, callVars
<1>11. CASE Crash
  BY <1>11 DEF Crash
<1>12. CASE UNCHANGED vars
  BY <1>0, <1>12 DEF vars, homeVars, callVars, clientVars, SamePlace
<1> QED BY <1>1, <1>2, <1>3, <1>4, <1>5, <1>6, <1>7, <1>8, <1>9, <1>10, <1>11, <1>12
        DEF Next, Serve

(***************************************************************************)
(* The steps that matter, one at a time.                                   *)
(***************************************************************************)
(* Mounting a home: it had no entry, so nobody is closing one.             *)
LEMMA MountHomeStep ==
    ASSUME CloseInv, MountHome,
           mounts' = mounts \cup {containerid},
           mounted_volumes' = AddEntry(mounted_volumes, containerid)
    PROVE  /\ Emptied'
           /\ HasEntry(mounted_volumes', containerid)
           /\ \A c : HasEntry(mounted_volumes, c) => HasEntry(mounted_volumes', c)
<1> DEFINE table == mounted_volumes
           last  == Len(mounted_volumes) + 1
<1>1. containerid \in Containers /\ table \in Seq(VolumeInfo)
  BY DEF MountHome, MainAt, CloseInv, UniqueInv, TypeOK, HomeTypeOK, SessionPCs, OpenPCs
<1>2. /\ DOMAIN AddEntry(table, containerid) = DOMAIN table \cup {last}
      /\ \A m \in DOMAIN table : AddEntry(table, containerid)[m] = table[m]
      /\ AddEntry(table, containerid)[last] = [container |-> containerid, is_mounted |-> TRUE]
  BY <1>1, AddedEntry
<1>3. /\ \A m \in DOMAIN table : m \in DOMAIN table' /\ table'[m] = table[m]
      /\ last \in DOMAIN table' /\ IsEntryOf(table', last, containerid)
  BY <1>2 DEF IsEntryOf, Mounted
<1>4. \A c : HasEntry(table, c) => HasEntry(table', c)
  BY <1>3 DEF HasEntry, IsEntryOf, Mounted
<1>5. UNCHANGED callVars /\ ~HasEntry(table, containerid)
  BY DEF MountHome, MainAt, CloseInv, UniqueInv, Pending, Opening
<1>6. Emptied'
  <2> SUFFICES ASSUME NEW t \in Threads, at[t] \in {"crypt", "rmdir"}, NEW c \in mounts',
                      IsEntryOf(table', ent[t], c)
               PROVE  FALSE
    BY <1>5 DEF Emptied, callVars
  <2>1. ent[t] \in DOMAIN table
    BY DEF CloseInv, IndexInv, Indexed, Callers
  <2>2. IsEntryOf(table, ent[t], c)
    BY <1>3, <2>1 DEF IsEntryOf, Mounted
  <2>3. CASE c \in mounts
    BY <2>2, <2>3 DEF CloseInv, Emptied
  <2>4. CASE c = containerid
    BY <1>5, <2>1, <2>2, <2>4 DEF HasEntry
  <2> QED BY <2>3, <2>4
<1> QED BY <1>3, <1>4, <1>6 DEF HasEntry

(* Clearing an entry: its home had been unmounted before.                  *)
LEMMA CloseRmdirStep ==
    ASSUME CloseInv, NEW t \in Threads, CloseRmdir(t)
    PROVE  /\ Emptied' /\ OutAtZero'
           /\ \A c \in mounts : HasEntry(mounted_volumes, c) => HasEntry(mounted_volumes', c)
<1> DEFINE table == mounted_volumes
<1>1. table \in Seq(VolumeInfo) /\ ent[t] \in Nat /\ CallsTypeOK
  BY DEF CloseInv, UniqueInv, TypeOK, HomeTypeOK, CallsTypeOK
<1>2. /\ DOMAIN Cleared(table, ent[t]) = DOMAIN table
      /\ \A m \in DOMAIN table :
            /\ Cleared(table, ent[t])[m].container = table[m].container
            /\ m # ent[t] => Cleared(table, ent[t])[m] = table[m]
      /\ ent[t] \in DOMAIN table => ~Cleared(table, ent[t])[ent[t]].is_mounted
  BY <1>1, ClearedTable
<1>3. table' = Cleared(table, ent[t]) /\ UNCHANGED mounts /\ at[t] = "rmdir"
  BY DEF CloseRmdir
<1>4. ASSUME NEW c \in mounts, HasEntry(table, c) PROVE HasEntry(table', c)
  <2>1. PICK n \in DOMAIN table : IsEntryOf(table, n, c)
    BY <1>4 DEF HasEntry
  <2>2. n # ent[t]
    BY <1>3, <2>1 DEF CloseInv, Emptied
  <2> QED BY <1>2, <1>3, <2>1, <2>2 DEF HasEntry, IsEntryOf, Mounted
<1>5. \A u \in Threads \ {t} : at'[u] = at[u] /\ cur'[u] = cur[u] /\ ent'[u] = ent[u]
  BY <1>1 DEF CloseRmdir, SweepFrom, CallsTypeOK
<1>6. at'[t] \in {"out", "probe"} /\ (at'[t] = "out" => cur'[t] = 0)
  BY <1>1 DEF CloseRmdir, SweepFrom, CallsTypeOK
<1>7. \A n, c : IsEntryOf(table', n, c) => IsEntryOf(table, n, c)
  BY <1>2, <1>3 DEF IsEntryOf, Mounted
<1>8. Emptied'
  BY <1>3, <1>5, <1>6, <1>7 DEF CloseInv, Emptied
<1>9. OutAtZero'
  BY <1>5, <1>6 DEF CloseInv, OutAtZero
<1> QED BY <1>4, <1>8, <1>9

(* umount takes the home of the entry being closed away.                   *)
LEMMA CloseUmountStep ==
    ASSUME "umount" \notin Faults, CloseInv, NEW t \in Threads, CloseUmount(t)
    PROVE  Emptied'
<1>1. CallsTypeOK /\ ent[t] \in DOMAIN mounted_volumes
  BY DEF CloseInv, UniqueInv, TypeOK, HomeTypeOK, CallsTypeOK, IndexInv, Indexed, Callers,
         CloseUmount
<1>2. mounts' = mounts \ {mounted_volumes[ent[t]].container}
  BY <1>1 DEF CloseUmount, NamedBy, UmountResults, Fails
<1>3. UNCHANGED <<mounted_volumes, ent>> /\ at' = [at EXCEPT ![t] = "crypt"]
  BY DEF CloseUmount, tableVars
<1>4. \A c \in mounts' : ~IsEntryOf(mounted_volumes, ent[t], c)
  BY <1>2 DEF IsEntryOf
<1> QED BY <1>1, <1>2, <1>3, <1>4 DEF CloseInv, Emptied, CallsTypeOK

(* The end of a session.                                                   *)
LEMMA ClosingStep ==
    ASSUME "signal" \notin Events, CloseInv, [Next]_vars
    PROVE  Closing'
<1> DEFINE table == mounted_volumes
<1> SUFFICES ASSUME pc' = "done"
             PROVE  /\ at'["main"] # "probe"
                    /\ cur'["main"] = 0
                    /\ \A n \in DOMAIN table' :
                          IsEntryOf(table', n, containerid')
                              => at'["main"] \in Callers /\ ent'["main"] = n
  BY DEF Closing
<1>1. TypeOK /\ CallsTypeOK /\ table \in Seq(VolumeInfo) /\ at["signal"] = "out"
  BY DEF CloseInv, UniqueInv, IndexInv, TypeOK, HomeTypeOK, CallsTypeOK
<1>2. containerid' = containerid /\ ~MountHome
  BY <1>1, DoneSteps
<1>3. \A n : IsEntryOf(table', n, containerid) => IsEntryOf(table, n, containerid)
  BY <1>1, <1>2, TableSteps, NoNewEntry
<1>4. \A n \in DOMAIN table' : IsEntryOf(table', n, containerid') => n \in DOMAIN table
  BY <1>2, <1>3 DEF IsEntryOf, Mounted
<1>5. CASE StopContainer
  <2>1. cur["main"] = 0 /\ at["main"] = "out" /\ "main" \in Threads
    BY <1>5, ThreadNames DEF StopContainer, MainAt, CloseInv, OutAtZero
  <2>2. UNCHANGED <<table, cur>>
    BY <1>5 DEF StopContainer, volume_close_encrypted_home, tableVars
  <2>3. CASE ~HasEntry(table, containerid) /\ UNCHANGED at
    BY <1>2, <2>1, <2>2, <2>3 DEF HasEntry
  <2>4. ASSUME NEW n \in EntryOf(table, containerid), BeginClose("main", n)
        PROVE  /\ at'["main"] = "umount"
               /\ \A m \in DOMAIN table : IsEntryOf(table, m, containerid) => ent'["main"] = m
    <3>1. at'["main"] = "umount" /\ ent'["main"] = n
      BY <1>1, <2>1, <2>4 DEF BeginClose, CallsTypeOK
    <3>2. n \in DOMAIN table /\ IsEntryOf(table, n, containerid)
      BY <1>1, EntryIndex
    <3>3. containerid \in Containers
      BY <1>5 DEF StopContainer, MainAt, CloseInv, UniqueInv, TypeOK, SessionPCs, EndPCs
    <3> QED BY <3>1, <3>2, <3>3 DEF CloseInv, UniqueInv, UniqueMounted
  <2> QED BY <1>2, <1>5, <2>1, <2>2, <2>3, <2>4
          DEF StopContainer, volume_close_encrypted_home, Callers
<1>6. CASE pc = "done" /\ SamePlace("main")
  BY <1>2, <1>3, <1>4, <1>6 DEF CloseInv, Closing, SamePlace
<1>7. CASE pc = "done" /\ MainCall
  <2>1. /\ at["main"] # "probe" /\ cur["main"] = 0 /\ "main" \in Threads
        /\ \A n \in DOMAIN table :
              IsEntryOf(table, n, containerid) => at["main"] \in Callers /\ ent["main"] = n
    BY <1>7, ThreadNames DEF CloseInv, Closing
  <2>2. CASE CloseStep("main")
    <3>1. at'["main"] \in {"crypt", "rmdir"} /\ UNCHANGED <<cur, ent>>
      BY <1>1, <2>1, <2>2 DEF CloseStep, CloseUmount, CloseCrypt, CallsTypeOK
    <3>2. \A n \in DOMAIN table' :
              IsEntryOf(table', n, containerid') => ent["main"] = n
      BY <1>2, <1>3, <1>4, <2>1
    <3> QED BY <2>1, <3>1, <3>2 DEF Callers
  <2>3. CASE CloseRmdir("main")
    <3>1. at'["main"] = "out" /\ UNCHANGED cur /\ table' = Cleared(table, ent["main"])
      BY <1>1, <2>1, <2>3 DEF CloseRmdir, CallsTypeOK
    <3>2. ent["main"] \in Nat
      BY <1>1, <2>1 DEF CallsTypeOK
    <3>3. ent["main"] \in DOMAIN table => ~Cleared(table, ent["main"])[ent["main"]].is_mounted
      BY <1>1, <3>2, ClearedTable
    <3>4. \A n \in DOMAIN table' : ~IsEntryOf(table', n, containerid')
      BY <1>2, <1>3, <1>4, <2>1, <3>1, <3>3 DEF IsEntryOf, Mounted
    <3> QED BY <2>1, <3>1, <3>4
  <2> QED BY <1>7, <2>1, <2>2, <2>3 DEF MainCall, Probe
<1> QED BY <1>1, <1>5, <1>6, <1>7, DoneSteps

(* A crash leaves nobody inside volume.c.                                  *)
LEMMA CrashOut ==
    ASSUME Crash
    PROVE  Emptied' /\ OutAtZero' /\ Closing'
  BY DEF Crash, Emptied, OutAtZero, Closing, Finish

LEMMA CloseStepInv ==
    ASSUME "signal" \notin Events, "umount" \notin Faults
    PROVE  CloseInv /\ [Next]_vars =>
               /\ CloseInv'
               /\ Crash \/ \A c \in mounts :
                     HasEntry(mounted_volumes, c) => HasEntry(mounted_volumes', c)
<1> SUFFICES ASSUME CloseInv, [Next]_vars
             PROVE  /\ CloseInv'
                    /\ Crash \/ \A c \in mounts :
                          HasEntry(mounted_volumes, c) => HasEntry(mounted_volumes', c)
  OBVIOUS
<1> DEFINE Stay == \A c \in mounts :
                       HasEntry(mounted_volumes, c) => HasEntry(mounted_volumes', c)
<1>1. UniqueInv' /\ IndexInv' /\ Closing'
  BY UniqueStep, IndexStep, ClosingStep DEF CloseInv
<1>2. /\ TypeOK /\ CallsTypeOK /\ at["signal"] = "out"
  BY DEF CloseInv, UniqueInv, IndexInv, TypeOK, HomeTypeOK, CallsTypeOK
<1>3. CASE Crash
  BY <1>1, <1>3, CrashOut DEF CloseInv
<1>4. CallStep
  BY <1>2, CallSteps
<1>s. ASSUME UNCHANGED mounted_volumes PROVE Stay
  BY <1>s
<1> SUFFICES ASSUME ~Crash PROVE Emptied' /\ OutAtZero' /\ Stay
  BY <1>1, <1>3 DEF CloseInv
<1>5. CASE /\ MountHome
           /\ mounts' = mounts \cup {containerid}
           /\ mounted_volumes' = AddEntry(mounted_volumes, containerid)
  <2>1. UNCHANGED callVars
    BY <1>5 DEF MountHome
  <2> QED BY <1>5, <2>1, MountHomeStep DEF CloseInv, OutAtZero, callVars
<1>6. CASE mounts' \subseteq mounts
  <2>1. CASE UNCHANGED callVars /\ UNCHANGED mounted_volumes
    BY <1>6, <1>s, <2>1 DEF CloseInv, Emptied, OutAtZero, callVars
  <2>2. CASE MountHome
    <3>1. UNCHANGED callVars
      BY <2>2 DEF MountHome
    <3>2. CASE UNCHANGED mounted_volumes
      BY <2>1, <3>1, <3>2
    <3>3. CASE mounts' = mounts \cup {containerid} /\
               mounted_volumes' = AddEntry(mounted_volumes, containerid)
      BY <1>5, <2>2, <3>3
    <3> QED BY <2>2, <3>2, <3>3 DEF MountHome
  <2>3. ASSUME NEW t \in Threads, Looks(t) PROVE Emptied' /\ OutAtZero' /\ Stay
    <3>1. UNCHANGED <<mounted_volumes, mounts>>
      BY <2>3 DEF Looks
    <3>2. Emptied'
      BY <2>3, <3>1 DEF Looks, CloseInv, Emptied
    <3>3. OutAtZero'
      BY <2>3 DEF Looks, CloseInv, OutAtZero
    <3> QED BY <1>s, <3>1, <3>2, <3>3
  <2>4. ASSUME NEW t \in Threads, CloseUmount(t) \/ CloseCrypt(t)
        PROVE  Emptied' /\ OutAtZero' /\ Stay
    <3>1. UNCHANGED <<mounted_volumes, cur, ent>>
      BY <2>4 DEF CloseUmount, CloseCrypt, tableVars
    <3>2. at[t] \in {"umount", "crypt"} /\ at'[t] \in {"crypt", "rmdir"}
          /\ \A u \in Threads \ {t} : at'[u] = at[u]
      BY <1>2, <2>4 DEF CloseUmount, CloseCrypt, CallsTypeOK
    <3>3. OutAtZero'
      BY <3>1, <3>2 DEF CloseInv, OutAtZero
    <3>4. CASE CloseUmount(t)
      BY <1>s, <3>1, <3>3, <3>4, CloseUmountStep
    <3>5. CASE CloseCrypt(t)
      <4>1. at[t] = "crypt"
        BY <3>5 DEF CloseCrypt
      <4>2. Emptied'
        BY <1>6, <3>1, <3>2, <4>1 DEF CloseInv, Emptied
      <4> QED BY <1>s, <3>1, <3>3, <4>2
    <3> QED BY <2>4, <3>4, <3>5
  <2>5. ASSUME NEW t \in Threads, CloseRmdir(t) PROVE Emptied' /\ OutAtZero' /\ Stay
    BY <2>5, CloseRmdirStep
  <2> QED BY <1>4, <2>1, <2>2, <2>3, <2>4, <2>5, ThreadNames DEF CallStep
<1> QED BY <1>2, <1>5, <1>6, MountSteps

LEMMA CloseInit == Init => CloseInv
<1>1. Init => TypeOK
  BY InitTypes
<1> QED BY <1>1, ThreadNames
        DEF Init, HomeInit, CloseInv, UniqueInv, UniqueMounted, Pending, Opening, IndexInv,
            Indexed, Callers, OutAtZero, Emptied, Closing, IsEntryOf, Mounted

(***************************************************************************)
(* The theorems.                                                           *)
(***************************************************************************)
(* Whatever else fails, and however the cleaner's closing of a home        *)
(* overlaps the session's own opening and closing of it, a home that is    *)
(* mounted has an entry in the table, so that it will be closed.           *)
THEOREM MountsKnownCorrect ==
    ASSUME "signal" \notin Events, "crash" \notin Events, "umount" \notin Faults
    PROVE  Spec => []MountsKnown
<1>1. Init => MountsKnown
  BY DEF Init, HomeInit, MountsKnown
<1>2. CloseInv /\ MountsKnown /\ [Next]_vars => MountsKnown'
  <2> SUFFICES ASSUME CloseInv, MountsKnown, [Next]_vars, NEW c \in mounts'
               PROVE  HasEntry(mounted_volumes', c)
    BY DEF MountsKnown, HasEntry
  <2>1. ~Crash /\ TypeOK
    BY DEF CloseInv, UniqueInv, IndexInv, Indexed, Callers, Crash, Dangling
  <2>2. CASE c \in mounts
    BY <2>1, <2>2, CloseStepInv DEF MountsKnown, HasEntry
  <2>3. CASE c \notin mounts
    BY <2>1, <2>3, MountSteps, MountHomeStep
  <2> QED BY <2>2, <2>3
<1>3. CloseInv /\ [Next]_vars => CloseInv'
  BY CloseStepInv
<1> QED BY <1>1, <1>2, <1>3, CloseInit, PTL DEF Spec

LEMMA BackedStep ==
    ASSUME "umount" \notin Faults
    PROVE  Backed /\ [Next]_vars => Backed'
<1> SUFFICES ASSUME Backed, [Next]_vars PROVE Backed'
  OBVIOUS
<1>0. ASSUME UNCHANGED <<mapper, mounts>> \/ UNCHANGED deviceVars \/ UNCHANGED homeVars
      PROVE  Backed'
  BY <1>0 DEF homeVars, deviceVars, Backed
<1>m. ASSUME NEW c, mapper' = MapperAfterClose(c, mounts), UNCHANGED mounts PROVE Backed'
  BY <1>m DEF MapperAfterClose, Backed
<1>a. ASSUME NEW c, mapper' = mapper \cup {c}, UNCHANGED mounts PROVE Backed'
  BY <1>a DEF Backed
<1>s. ASSUME NEW c, CleanupStaleMapper(c) PROVE Backed'
  BY <1>s DEF CleanupStaleMapper, UmountResults, MapperAfterClose, Fails, Backed
<1>c. ASSUME NEW t, CloseStep(t) \/ CloseRmdir(t) \/ Probe(t) PROVE Backed'
  <2>1. CASE CloseUmount(t)
    BY <2>1 DEF CloseUmount, UmountResults, Fails, Backed
  <2>2. CASE CloseCrypt(t)
    BY <2>2, <1>m DEF CloseCrypt
  <2>3. CASE CloseRmdir(t) \/ Probe(t)
    BY <2>3, <1>0 DEF CloseRmdir, Probe
  <2> QED BY <1>c, <2>1, <2>2, <2>3 DEF CloseStep
<1>1. CASE Accept \/ Exit \/ ClientGone \/ VerifyFails \/ (\E c \in Containers : VerifySucceeds(c))
  BY <1>1, <1>0 DEF Accept, Exit, ClientGone, VerifyFails, VerifySucceeds
<1>2. CASE Create
  <2>1. CASE CreateBegin
    BY <2>1, <1>s DEF CreateBegin
  <2>2. CASE CreateImage \/ FormatImage \/ MakeFilesystem
    BY <2>2, <1>0 DEF CreateImage, FormatImage, CreateCommand, MakeFilesystem
  <2>3. CASE OpenNewImage
    BY <2>3, <1>0, <1>a DEF OpenNewImage
  <2>4. CASE UndoFilesystem \/ CloseNewHome
    BY <2>4, <1>m DEF UndoFilesystem, CloseNewHome
  <2> QED BY <1>2, <2>1, <2>2, <2>3, <2>4 DEF Create
<1>3. CASE Open
  <2>1. CASE OpenBegin
    BY <2>1, <1>0, <1>s DEF OpenBegin
  <2>2. CASE CryptOpen
    BY <2>2, <1>0, <1>a DEF CryptOpen
  <2>3. CASE MountHome
    BY <2>3, <1>m DEF MountHome, Backed
  <2> QED BY <1>3, <1>0, <2>1, <2>2, <2>3 DEF Open, OpenRefused, BeginProvisioning
<1>4. CASE Setup
  BY <1>4, <1>0 DEF Setup, SetupSsh, StartContainer, CreateContainer, StartCreated, SetupUser,
                    EnsureSshd, GetSshPort
<1>5. CASE WaitPoll \/ WatchPoll \/ PollTimeout \/ StopContainer \/ CloseAfterFailure \/ EndSession
  BY <1>5, <1>0 DEF WaitPoll, WatchPoll, PollTimeout, StopContainer, CloseAfterFailure, EndSession
<1>6. CASE MainCall
  BY <1>6, <1>c DEF MainCall
<1>7. CASE Cleaner
  BY <1>7, <1>0, <1>c DEF Cleaner, CleanerWakes
<1>8. CASE SignalArrives \/ SignalHandler
  BY <1>8, <1>0, <1>c DEF SignalArrives, SignalHandler, SignalClosed
<1>9. CASE (\E c \in Containers : ContainerExits(c) \/ CleanContainer(c)) \/ Crash
  BY <1>9, <1>0 DEF ContainerExits, CleanContainer, Crash
<1>10. CASE CleanupLuks
  BY <1>10 DEF CleanupLuks, Fails, Backed
<1>11. CASE UNCHANGED vars
  BY <1>11, <1>0 DEF vars
<1> QED BY <1>1, <1>2, <1>3, <1>4, <1>5, <1>6, <1>7, <1>8, <1>9, <1>10, <1>11
        DEF Next, Serve

(* A session gets past the look at the table only by taking it.            *)
LEMMA PastSteps ==
    ASSUME [Next]_vars, pc' \in Past
    PROVE  /\ containerid' = containerid
           /\ ~Crash
           /\ pc \in Past \/ (OpenBegin /\ CleanupStaleMapper(containerid))
<1> USE DEF Goto, Return, Finish, MainAt, Past, SetupPCs, PollPCs
<1>1. CASE Accept \/ Exit \/ ClientGone \/ VerifyFails \/ (\E c \in Containers : VerifySucceeds(c))
  BY <1>1 DEF Accept, Exit, ClientGone, VerifyFails, VerifySucceeds, Crash
<1>2. CASE Create
  BY <1>2 DEF Create, CreateBegin, CreateImage, FormatImage, CreateCommand, OpenNewImage,
              MakeFilesystem, UndoFilesystem, CloseNewHome, WriteKey, CreateCleanup
<1>3. CASE Open
  BY <1>3 DEF Open, OpenRefused, OpenBegin, CryptOpen, MountHome, BeginProvisioning, WriteKey,
              Crash
<1>4. CASE Setup
  BY <1>4 DEF Setup, SetupSsh, StartContainer, CreateContainer, StartCreated, SetupUser,
              EnsureSshd, GetSshPort, Crash
<1>5. CASE WaitPoll \/ WatchPoll \/ PollTimeout \/ StopContainer \/ CloseAfterFailure \/ EndSession
  BY <1>5 DEF WaitPoll, WatchPoll, PollTimeout, StopContainer, CloseAfterFailure, EndSession, Crash
<1>6. CASE \/ MainCall \/ Cleaner \/ SignalArrives \/ SignalHandler
           \/ (\E c \in Containers : ContainerExits(c) \/ CleanContainer(c)) \/ CleanupLuks
           \/ UNCHANGED vars
  <2>1. UNCHANGED clientVars
    BY <1>6 DEF MainCall, Cleaner, SignalArrives, SignalHandler, ContainerExits, CleanContainer,
                CleanupLuks, vars
  <2> QED BY <2>1 DEF clientVars, Crash
<1>7. CASE Crash
  BY <1>7 DEF Crash
<1> QED BY <1>1, <1>2, <1>3, <1>4, <1>5, <1>6, <1>7 DEF Next, Serve

(* When the end of a session is announced the home is unmounted, also when *)
(* lxc stop failed, when the cleaner is closing the same entry, and when a *)
(* manager that died before had left the home mounted.                     *)
THEOREM DoneUnmountedCorrect ==
    ASSUME "signal" \notin Events, "umount" \notin Faults
    PROVE  Spec => []DoneUnmounted
<1>1. Init => Backed /\ Known
  BY DEF Init, HomeInit, Backed, Known
<1>2. CloseInv /\ Backed /\ Known /\ [Next]_vars => Known'
  <2> SUFFICES ASSUME CloseInv, Backed, Known, [Next]_vars, pc' \in Past,
                      containerid \in mounts'
               PROVE  HasEntry(mounted_volumes', containerid)
    BY PastSteps DEF Known
  <2>1. ~Crash /\ TypeOK
    BY PastSteps DEF CloseInv, UniqueInv
  <2>2. CASE pc \in Past
    <3>1. CASE containerid \in mounts
      BY <2>1, <2>2, <3>1, CloseStepInv DEF Known
    <3>2. CASE containerid \notin mounts
      BY <2>1, <3>2, MountSteps, MountHomeStep
    <3> QED BY <3>1, <3>2
  <2>3. CASE CleanupStaleMapper(containerid)
    BY <2>3 DEF CleanupStaleMapper, UmountResults, Fails, Backed
  <2> QED BY <2>2, <2>3, PastSteps
<1>3. CloseInv /\ Known => DoneUnmounted
  BY DEF CloseInv, Closing, Known, Past, HasEntry, DoneUnmounted, MainAt, Callers
<1>4. CloseInv /\ [Next]_vars => CloseInv'
  BY CloseStepInv
<1> QED BY <1>1, <1>2, <1>3, <1>4, CloseInit, BackedStep, PTL DEF Spec

--------------------------------------------------------------------------------
(* An image that is neither absent nor complete belongs to the session,    *)
(* which is past its first look and has not finished with it.              *)
ImagesInv ==
    \A c \in Containers :
        \/ image[c] \in {"none", "ready"} /\ (pc = "luksclose" => image[containerid] = "ready")
        \/ c = containerid /\ pc \in CreatePCs \ {"create", "luksclose"}

(* A key lies on the disk only from its writing to its unlinking.          *)
KeysInv ==
    \A c \in keyfiles :
        c = containerid /\ pc \in (CreatePCs \ {"create"}) \cup {"cryptopen"}

FilesInv == IndexInv /\ ImagesInv /\ KeysInv

(* Only creating a home and opening it touch its files.                    *)
LEMMA FileSteps ==
    ASSUME [Next]_vars
    PROVE  Create \/ OpenBegin \/ CryptOpen \/ UNCHANGED fileVars
<1>1. CASE Accept \/ Exit \/ ClientGone \/ VerifyFails \/ (\E c \in Containers : VerifySucceeds(c))
  BY <1>1 DEF Accept, Exit, ClientGone, VerifyFails, VerifySucceeds, homeVars
<1>2. CASE Open
  BY <1>2 DEF Open, OpenRefused, MountHome, BeginProvisioning, homeVars
<1>3. CASE Setup
  BY <1>3 DEF Setup, SetupSsh, StartContainer, CreateContainer, StartCreated, SetupUser,
              EnsureSshd, GetSshPort, homeVars
<1>4. CASE WaitPoll \/ WatchPoll \/ PollTimeout \/ StopContainer \/ CloseAfterFailure \/ EndSession
  BY <1>4 DEF WaitPoll, WatchPoll, PollTimeout, StopContainer, CloseAfterFailure, EndSession,
              homeVars
<1>5. CASE MainCall \/ Cleaner \/ SignalArrives \/ SignalHandler
  BY <1>5 DEF MainCall, Cleaner, CleanerWakes, SignalArrives, SignalHandler, SignalClosed, Probe,
              CloseStep, CloseUmount, CloseCrypt, CloseRmdir
<1>6. CASE (\E c \in Containers : ContainerExits(c) \/ CleanContainer(c)) \/ CleanupLuks \/ Crash
  BY <1>6 DEF ContainerExits, CleanContainer, CleanupLuks, Crash
<1>7. CASE UNCHANGED vars
  BY <1>7 DEF vars, homeVars
<1> QED BY <1>1, <1>2, <1>3, <1>4, <1>5, <1>6, <1>7 DEF Next, Serve

(* The session's creation of a home is left only by its own steps; the     *)
(* same holds of the moment its key waits for cryptsetup open.             *)
BusyPCs == CreatePCs \cup {"cryptopen"}

LEMMA BusySteps ==
    ASSUME [Next]_vars, ~Crash, pc \in BusyPCs
    PROVE  Create \/ CryptOpen \/ UNCHANGED clientVars
<1> USE DEF BusyPCs, CreatePCs, MainAt
<1>1. CASE Accept \/ Exit \/ ClientGone \/ VerifyFails \/ (\E c \in Containers : VerifySucceeds(c))
  BY <1>1 DEF Accept, Exit, ClientGone, VerifyFails, VerifySucceeds
<1>2. CASE Open
  BY <1>2 DEF Open, OpenRefused, OpenBegin, MountHome, BeginProvisioning
<1>3. CASE Setup
  BY <1>3 DEF Setup, SetupSsh, StartContainer, CreateContainer, StartCreated, SetupUser,
              EnsureSshd, GetSshPort
<1>4. CASE WaitPoll \/ WatchPoll \/ PollTimeout \/ StopContainer \/ CloseAfterFailure \/ EndSession
  BY <1>4 DEF WaitPoll, WatchPoll, PollTimeout, StopContainer, CloseAfterFailure, EndSession
<1>5. CASE MainCall \/ Cleaner \/ SignalArrives \/ SignalHandler
           \/ (\E c \in Containers : ContainerExits(c) \/ CleanContainer(c)) \/ CleanupLuks
  BY <1>5 DEF MainCall, Cleaner, SignalArrives, SignalHandler, ContainerExits, CleanContainer,
              CleanupLuks
<1>6. CASE UNCHANGED vars
  BY <1>6 DEF vars
<1> QED BY <1>1, <1>2, <1>3, <1>4, <1>5, <1>6 DEF Next, Serve

(* Nobody enters the creation beyond its first look from outside.          *)
LEMMA CreatingSteps ==
    ASSUME [Next]_vars, pc' = "luksclose"
    PROVE  MakeFilesystem \/ UNCHANGED clientVars
<1> USE DEF Goto, Return, Finish, MainAt
<1>1. CASE Accept \/ Exit \/ ClientGone \/ VerifyFails \/ (\E c \in Containers : VerifySucceeds(c))
  BY <1>1 DEF Accept, Exit, ClientGone, VerifyFails, VerifySucceeds
<1>2. CASE Create
  BY <1>2 DEF Create, CreateBegin, CreateImage, FormatImage, CreateCommand, OpenNewImage,
              UndoFilesystem, CloseNewHome, WriteKey, CreateCleanup
<1>3. CASE Open
  BY <1>3 DEF Open, OpenRefused, OpenBegin, CryptOpen, MountHome, BeginProvisioning, WriteKey
<1>4. CASE Setup
  BY <1>4 DEF Setup, SetupSsh, StartContainer, CreateContainer, StartCreated, SetupUser,
              EnsureSshd, GetSshPort
<1>5. CASE WaitPoll \/ PollTimeout \/ StopContainer \/ CloseAfterFailure \/ EndSession
  BY <1>5 DEF WaitPoll, PollTimeout, StopContainer, CloseAfterFailure, EndSession
<1>6. CASE WatchPoll
  BY <1>6 DEF WatchPoll
<1>7. CASE MainCall \/ Cleaner \/ SignalArrives \/ SignalHandler
           \/ (\E c \in Containers : ContainerExits(c) \/ CleanContainer(c)) \/ CleanupLuks
  BY <1>7 DEF MainCall, Cleaner, SignalArrives, SignalHandler, ContainerExits, CleanContainer,
              CleanupLuks
<1>8. CASE Crash
  BY <1>8 DEF Crash
<1>9. CASE UNCHANGED vars
  BY <1>9 DEF vars
<1> QED BY <1>1, <1>2, <1>3, <1>4, <1>5, <1>6, <1>7, <1>8, <1>9 DEF Next, Serve

(* The steps of creating and opening keep the files in order.              *)
LEMMA CreateFiles ==
    ASSUME TypeOK, ImagesInv, KeysInv, Create
    PROVE  ImagesInv' /\ KeysInv'
<1> USE DEF Goto, Return, MainAt, CreatePCs
<1>0. image \in [Containers -> ImageStates] /\ (pc \in CreatePCs => containerid \in Containers)
  BY DEF TypeOK, HomeTypeOK, SessionPCs
<1>1. CASE CreateBegin
  BY <1>0, <1>1 DEF CreateBegin, WriteKey, ImagesInv, KeysInv
<1>2. ASSUME pc \in CreatePCs, CreateCleanup PROVE ImagesInv' /\ KeysInv'
  BY <1>0, <1>2 DEF CreateCleanup, ImagesInv, KeysInv
<1>3. CASE CreateImage
  BY <1>0, <1>2, <1>3 DEF CreateImage, CreateCommand, ImagesInv, KeysInv
<1>4. CASE FormatImage
  BY <1>0, <1>2, <1>4 DEF FormatImage, CreateCommand, ImagesInv, KeysInv
<1>5. CASE OpenNewImage
  BY <1>0, <1>2, <1>5 DEF OpenNewImage, fileVars, ImagesInv, KeysInv
<1>6. CASE MakeFilesystem
  BY <1>0, <1>6 DEF MakeFilesystem, ImagesInv, KeysInv
<1>7. CASE UndoFilesystem
  BY <1>2, <1>7 DEF UndoFilesystem
<1>8. CASE CloseNewHome
  BY <1>0, <1>8 DEF CloseNewHome, ImagesInv, KeysInv
<1> QED BY <1>1, <1>3, <1>4, <1>5, <1>6, <1>7, <1>8 DEF Create

LEMMA OpenFiles ==
    ASSUME TypeOK, ImagesInv, KeysInv, OpenBegin \/ CryptOpen
    PROVE  ImagesInv' /\ KeysInv'
  BY DEF OpenBegin, CryptOpen, Goto, Return, MainAt, WriteKey, ImagesInv, KeysInv, CreatePCs

LEMMA FilesStep ==
    ASSUME "signal" \notin Events, "crash" \notin Events
    PROVE  FilesInv /\ [Next]_vars => FilesInv'
<1> SUFFICES ASSUME FilesInv, [Next]_vars PROVE ImagesInv' /\ KeysInv'
  BY IndexStep DEF FilesInv
<1>1. TypeOK /\ ImagesInv /\ KeysInv
  BY DEF FilesInv, IndexInv
<1>2. ~Crash
  BY DEF FilesInv, IndexInv, Indexed, Callers, Crash, Dangling
<1>3. CASE Create \/ OpenBegin \/ CryptOpen
  BY <1>1, <1>3, CreateFiles, OpenFiles
<1>4. CASE UNCHANGED fileVars /\ UNCHANGED clientVars
  BY <1>1, <1>4 DEF fileVars, clientVars, ImagesInv, KeysInv
<1>5. CASE UNCHANGED fileVars /\ pc \notin BusyPCs
  <2>1. pc' # "luksclose" \/ UNCHANGED clientVars \/ MakeFilesystem
    BY CreatingSteps
  <2>2. ~MakeFilesystem
    BY <1>5 DEF MakeFilesystem, MainAt, BusyPCs, CreatePCs
  <2> QED BY <1>1, <1>4, <1>5, <2>1, <2>2
          DEF fileVars, ImagesInv, KeysInv, BusyPCs, CreatePCs
<1> QED BY <1>2, <1>3, <1>4, <1>5, FileSteps, BusySteps

LEMMA FilesCorrect ==
    ASSUME "signal" \notin Events, "crash" \notin Events
    PROVE  Spec => []FilesInv
<1>1. Init => IndexInv
  BY InitTypes, ThreadNames DEF Init, HomeInit, IndexInv, Indexed, Callers
<1>2. Init => FilesInv
  BY <1>1 DEF Init, HomeInit, FilesInv, ImagesInv, KeysInv
<1> QED BY <1>2, FilesStep, PTL DEF Spec

(* Whichever command of the creation fails, the image file that stays is a *)
(* complete home: volume_is_home_encrypted may go by the file's existence. *)
THEOREM ImagesReadyCorrect ==
    ASSUME "signal" \notin Events, "crash" \notin Events
    PROVE  Spec => []ImagesReady
<1>1. FilesInv => ImagesReady
  BY DEF FilesInv, ImagesInv, ImagesReady
<1> QED BY <1>1, FilesCorrect, PTL

(* A container's key never stays on the disk, whichever command fails.     *)
THEOREM KeyFileTransientCorrect ==
    ASSUME "signal" \notin Events, "crash" \notin Events
    PROVE  Spec => []KeyFileTransient
<1>1. FilesInv => KeyFileTransient
  BY DEF FilesInv, KeysInv, KeyFileTransient
<1> QED BY <1>1, FilesCorrect, PTL

(***************************************************************************)
(* Provisioning.                                                           *)
(***************************************************************************)
Provisioned == pc \in SetupPCs \ {"port"} => provisioning_active

LEMMA ProvisionedStep == Provisioned /\ [Next]_vars => Provisioned'
<1> SUFFICES ASSUME Provisioned, [Next]_vars, pc' \in SetupPCs \ {"port"}
             PROVE  provisioning_active'
  BY DEF Provisioned
<1> USE DEF Goto, Return, Finish, MainAt, SetupPCs
<1>0. ASSUME UNCHANGED pc, UNCHANGED provisioning_active PROVE provisioning_active'
  BY <1>0 DEF Provisioned
<1>1. CASE Accept \/ Exit \/ ClientGone \/ VerifyFails \/ (\E c \in Containers : VerifySucceeds(c))
  BY <1>1 DEF Accept, Exit, ClientGone, VerifyFails, VerifySucceeds
<1>2. CASE Create
  BY <1>2 DEF Create, CreateBegin, CreateImage, FormatImage, CreateCommand, OpenNewImage,
              MakeFilesystem, UndoFilesystem, CloseNewHome, WriteKey, CreateCleanup
<1>3. CASE Open
  BY <1>3 DEF Open, OpenRefused, OpenBegin, CryptOpen, MountHome, BeginProvisioning, WriteKey
<1>4. CASE Setup
  BY <1>4 DEF Setup, SetupSsh, StartContainer, CreateContainer, StartCreated, SetupUser,
              EnsureSshd, GetSshPort, homeVars, tableVars, Provisioned
<1>5. CASE WaitPoll \/ WatchPoll \/ PollTimeout \/ StopContainer \/ CloseAfterFailure \/ EndSession
  BY <1>5 DEF WaitPoll, WatchPoll, PollTimeout, StopContainer, CloseAfterFailure, EndSession
<1>6. CASE \/ MainCall \/ Cleaner \/ SignalArrives \/ SignalHandler
           \/ (\E c \in Containers : ContainerExits(c) \/ CleanContainer(c)) \/ CleanupLuks
  <2>1. UNCHANGED clientVars /\ UNCHANGED provisioning_active
    BY <1>6 DEF MainCall, Cleaner, CleanerWakes, SignalArrives, SignalHandler, SignalClosed, Probe,
                CloseStep, CloseUmount, CloseCrypt, CloseRmdir, ContainerExits, CleanContainer,
                CleanupLuks, tableVars
  <2> QED BY <1>0, <2>1 DEF clientVars
<1>7. CASE Crash
  BY <1>7 DEF Crash
<1>8. CASE UNCHANGED vars
  BY <1>0, <1>8 DEF vars, homeVars, tableVars, clientVars
<1> QED BY <1>1, <1>2, <1>3, <1>4, <1>5, <1>6, <1>7, <1>8 DEF Next, Serve

(* Only the cleaner takes itself into volume.c.                            *)
LEMMA OthersFrame ==
    ASSUME TypeOK, [Next]_vars, ~Cleaner, at["cleaner"] = "out"
    PROVE  at'["cleaner"] = "out"
<1> USE ThreadNames
<1>0. at \in [Threads -> CallStates]
  BY DEF TypeOK, HomeTypeOK
<1>n. ASSUME UNCHANGED callVars \/ UNCHANGED homeVars PROVE at'["cleaner"] = "out"
  BY <1>n DEF homeVars, callVars
<1>m. ASSUME NEW t \in {"main", "signal"}, NEW l, at' = [at EXCEPT ![t] = l]
      PROVE  at'["cleaner"] = "out"
  BY <1>0, <1>m
<1>v. ASSUME NEW c, volume_close_encrypted_home("main", c) PROVE at'["cleaner"] = "out"
  BY <1>m, <1>v DEF volume_close_encrypted_home, BeginClose
<1>1. CASE Accept
  BY <1>1, <1>m, <1>n DEF Accept, BeginSweep, SweepFrom
<1>2. CASE Exit \/ ClientGone \/ VerifyFails \/ (\E c \in Containers : VerifySucceeds(c))
  BY <1>2, <1>n DEF Exit, ClientGone, VerifyFails, VerifySucceeds
<1>3. CASE Create
  BY <1>3, <1>n DEF Create, CreateBegin, CreateImage, FormatImage, CreateCommand, OpenNewImage,
              MakeFilesystem, UndoFilesystem, CloseNewHome
<1>4. CASE Open
  BY <1>4, <1>n DEF Open, OpenRefused, OpenBegin, CryptOpen, MountHome, BeginProvisioning
<1>5. CASE Setup
  <2>1. CASE CreateContainer
    BY <2>1, <1>n, <1>v DEF CreateContainer
  <2> QED BY <1>5, <2>1, <1>n DEF Setup, SetupSsh, StartContainer, StartCreated, SetupUser,
                          EnsureSshd, GetSshPort
<1>6. CASE WaitPoll \/ WatchPoll \/ PollTimeout \/ EndSession
  BY <1>6, <1>n DEF WaitPoll, WatchPoll, PollTimeout, EndSession
<1>7. CASE StopContainer \/ CloseAfterFailure
  BY <1>7, <1>v DEF StopContainer, CloseAfterFailure
<1>8. CASE MainCall
  BY <1>8, <1>m DEF MainCall, Probe, SweepFrom, BeginClose, CloseStep, CloseUmount, CloseCrypt,
                    CloseRmdir
<1>9. CASE SignalArrives \/ SignalHandler
  BY <1>9, <1>m DEF SignalArrives, SignalHandler, SignalClosed, volume_cleanup_all, BeginClose,
                    CloseStep, CloseUmount, CloseCrypt
<1>10. CASE (\E c \in Containers : ContainerExits(c) \/ CleanContainer(c)) \/ CleanupLuks
  BY <1>10, <1>n DEF ContainerExits, CleanContainer, CleanupLuks
<1>11. CASE Crash
  BY <1>11 DEF Crash
<1>12. CASE UNCHANGED vars
  BY <1>12, <1>n DEF vars
<1> QED BY <1>1, <1>2, <1>3, <1>4, <1>5, <1>6, <1>7, <1>8, <1>9, <1>10, <1>11, <1>12
        DEF Next, Serve

(* Nothing that happens while a session is being set up, a signal and a    *)
(* crash included, lets the cleaner begin a sweep.                         *)
THEOREM NoSweepCorrect == Spec => NoSweepStartsInSetup
<1>1. Init => TypeOK /\ Provisioned
  BY InitTypes DEF Init, Provisioned, SetupPCs
<1>2. /\ TypeOK /\ [Next]_vars => TypeOK'
      /\ Provisioned /\ [Next]_vars => Provisioned'
  BY NextTypes, ProvisionedStep
<1>3. TypeOK /\ Provisioned /\ [Next]_vars
          => [(pc \in SetupPCs \ {"port"} /\ at["cleaner"] = "out")
                  => (at["cleaner"] = "out")']_vars
  <2> SUFFICES ASSUME TypeOK, Provisioned, [Next]_vars,
                      pc \in SetupPCs \ {"port"}, at["cleaner"] = "out"
               PROVE  at'["cleaner"] = "out"
    OBVIOUS
  <2>1. CASE Cleaner
    <3>1. CleanerWakes
      BY <2>1 DEF Cleaner, Probe, CloseStep, CloseUmount, CloseCrypt, CloseRmdir
    <3> QED BY <3>1 DEF CleanerWakes, BeginSweep, Provisioned, callVars
  <2> QED BY <2>1, OthersFrame
<1> QED BY <1>1, <1>2, <1>3, PTL DEF Spec, NoSweepStartsInSetup

(***************************************************************************)
(* Devices left behind.                                                    *)
(***************************************************************************)
DeviceFree == pc = "cryptopen" /\ containerid \in mapper => containerid \in bound

(* The clean-up before the table is looked at leaves the device open only  *)
(* for a running container.                                                *)
LEMMA StaleMapperGoes ==
    ASSUME "umount" \notin Faults, NEW c, CleanupStaleMapper(c), c \in mapper'
    PROVE  c \in bound
  BY DEF CleanupStaleMapper, UmountResults, MapperAfterClose, Fails

LEMMA DeviceStep ==
    ASSUME "umount" \notin Faults, "exit" \notin Events, "delete" \notin Events
    PROVE  DeviceFree /\ [Next]_vars => DeviceFree'
<1> SUFFICES ASSUME DeviceFree, [Next]_vars, pc' = "cryptopen", containerid' \in mapper'
             PROVE  containerid' \in bound'
  BY DEF DeviceFree
<1> USE DEF Goto, Return, Finish, MainAt
<1>0. ASSUME UNCHANGED clientVars, mapper' \subseteq mapper, bound' = bound
      PROVE  containerid' \in bound'
  BY <1>0 DEF DeviceFree, clientVars
<1>c. ASSUME NEW t, CloseStep(t) \/ CloseRmdir(t) \/ Probe(t)
      PROVE  mapper' \subseteq mapper /\ bound' = bound
  BY <1>c DEF CloseStep, CloseUmount, CloseCrypt, CloseRmdir, Probe, MapperAfterClose,
              deviceVars, lxdVars
<1>1. CASE Accept \/ Exit \/ ClientGone \/ VerifyFails \/ (\E c \in Containers : VerifySucceeds(c))
  BY <1>1 DEF Accept, Exit, ClientGone, VerifyFails, VerifySucceeds
<1>2. CASE Create
  BY <1>2 DEF Create, CreateBegin, CreateImage, FormatImage, CreateCommand, OpenNewImage,
              MakeFilesystem, UndoFilesystem, CloseNewHome, WriteKey, CreateCleanup
<1>3. CASE Open
  <2>1. OpenBegin
    BY <1>3 DEF Open, OpenRefused, CryptOpen, MountHome, BeginProvisioning
  <2>2. CleanupStaleMapper(containerid) /\ UNCHANGED <<containerid, bound>>
    BY <2>1 DEF OpenBegin, WriteKey, lxdVars
  <2> QED BY <2>2, StaleMapperGoes
<1>4. CASE Setup
  BY <1>4 DEF Setup, SetupSsh, StartContainer, CreateContainer, StartCreated, SetupUser,
              EnsureSshd, GetSshPort
<1>5. CASE WaitPoll \/ WatchPoll \/ PollTimeout \/ StopContainer \/ CloseAfterFailure \/ EndSession
  BY <1>5 DEF WaitPoll, WatchPoll, PollTimeout, StopContainer, CloseAfterFailure, EndSession
<1>6. CASE MainCall
  BY <1>6, <1>0, <1>c DEF MainCall
<1>7. CASE Cleaner
  BY <1>7, <1>0, <1>c DEF Cleaner, CleanerWakes, deviceVars, lxdVars
<1>8. CASE SignalArrives \/ SignalHandler
  BY <1>8, <1>0, <1>c DEF SignalArrives, SignalHandler, SignalClosed, deviceVars, lxdVars
<1>9. CASE (\E c \in Containers : ContainerExits(c) \/ CleanContainer(c)) \/ CleanupLuks
  BY <1>9, <1>0 DEF ContainerExits, CleanContainer, CleanupLuks, lxdVars
<1>10. CASE Crash
  BY <1>10 DEF Crash
<1>11. CASE UNCHANGED vars
  BY <1>11, <1>0 DEF vars, homeVars, deviceVars, lxdVars
<1> QED BY <1>1, <1>2, <1>3, <1>4, <1>5, <1>6, <1>7, <1>8, <1>9, <1>10, <1>11 DEF Next, Serve

(* Whatever a crash or a signal left behind, cryptsetup open finds the     *)
(* device name free, unless a running container holds the old device and   *)
(* provided that a container does not stop just after the clean-up.        *)
THEOREM StaleDeviceCorrect ==
    ASSUME "umount" \notin Faults, "exit" \notin Events, "delete" \notin Events
    PROVE  Spec => []StaleDeviceYields
<1>1. Init => DeviceFree
  BY DEF Init, HomeInit, DeviceFree
<1>2. DeviceFree => StaleDeviceYields
  BY DEF DeviceFree, StaleDeviceYields, MainAt
<1> QED BY <1>1, <1>2, DeviceStep, PTL DEF Spec

--------------------------------------------------------------------------------
(* The manager keeps what SessionLog promises of the session events, as    *)
(* long as it is not killed in the middle of a session.                    *)

Prepared == CreatePCs \cup OpenPCs \cup SetupPCs \cup {"wait"}

LEMMA PhaseNow ==
    /\ pc = "watch" => LogPhase = "connected" /\ LogContainer = containerid
    /\ pc \in Prepared => LogPhase = "authenticated" /\ LogContainer = containerid
    /\ pc \notin Prepared \cup {"watch"} => LogPhase = "idle" /\ LogContainer = None
  BY DEF LogPhase, LogContainer, Prepared, CreatePCs, OpenPCs, SetupPCs

LEMMA PhaseNext ==
    /\ pc' = "watch" => LogPhase' = "connected" /\ LogContainer' = containerid'
    /\ pc' \in Prepared => LogPhase' = "authenticated" /\ LogContainer' = containerid'
    /\ pc' \notin Prepared \cup {"watch"} => LogPhase' = "idle" /\ LogContainer' = None
  BY DEF LogPhase, LogContainer, Prepared, CreatePCs, OpenPCs, SetupPCs

(* What a step of the promise looks like from the manager.                 *)
LEMMA Stutter ==
    ASSUME UNCHANGED <<pc, containerid, log>>
    PROVE  UNCHANGED Promise!vars
  BY DEF Promise!vars, LogPhase, LogContainer

LEMMA IdleStep ==
    ASSUME pc \notin Prepared \cup {"watch"}, pc' \notin Prepared \cup {"watch"}, UNCHANGED log
    PROVE  UNCHANGED Promise!vars
  BY PhaseNow, PhaseNext DEF Promise!vars

LEMMA PrepareStep ==
    ASSUME pc \in Prepared, UNCHANGED log,
           \/ pc' \in Prepared /\ UNCHANGED containerid
           \/ pc' \notin Prepared \cup {"watch"}
    PROVE  [Promise!Next]_(Promise!vars)
<1>1. CASE pc' \in Prepared /\ UNCHANGED containerid
  BY <1>1, PhaseNow, PhaseNext DEF Promise!vars
<1>2. CASE pc' \notin Prepared \cup {"watch"}
  <2>1. Promise!Abandon
    BY <1>2, PhaseNow, PhaseNext DEF Promise!Abandon, Promise!None, None
  <2> QED BY <2>1 DEF Promise!Next
<1> QED BY <1>1, <1>2

(* The creation, opening and set-up of a home only prepare or abandon.     *)
LEMMA PreparingSteps ==
    ASSUME Create \/ Open \/ Setup
    PROVE  /\ pc \in Prepared /\ UNCHANGED log
           /\ \/ pc' \in Prepared /\ UNCHANGED containerid
              \/ pc' \notin Prepared \cup {"watch"}
<1> USE DEF Goto, Return, MainAt, Prepared, CreatePCs, OpenPCs, SetupPCs
<1>1. CASE Create
  BY <1>1 DEF Create, CreateBegin, CreateImage, FormatImage, CreateCommand, OpenNewImage,
              MakeFilesystem, UndoFilesystem, CloseNewHome, WriteKey, CreateCleanup
<1>2. CASE Open
  BY <1>2 DEF Open, OpenRefused, OpenBegin, CryptOpen, MountHome, BeginProvisioning, WriteKey
<1>3. CASE Setup
  BY <1>3 DEF Setup, SetupSsh, StartContainer, CreateContainer, StartCreated, SetupUser,
              EnsureSshd, GetSshPort
<1> QED BY <1>1, <1>2, <1>3

LEMMA LogStep ==
    ASSUME TypeOK, ~Crash, [Next]_vars
    PROVE  [Promise!Next]_(Promise!vars)
<1> USE DEF MainAt
<1>i. \A label \in {"accept", "auth", "exited", "stop", "done", "failclose", "return"} :
          label \notin Prepared \cup {"watch"}
  BY DEF Prepared, CreatePCs, OpenPCs, SetupPCs
<1>1. CASE Accept \/ Exit \/ ClientGone
  BY <1>1, <1>i, IdleStep DEF Accept, Exit, ClientGone, Goto, Finish
<1>2. CASE VerifyFails
  <2>1. pc = "auth" /\ pc' = "accept" /\ log' = Append(log, [event |-> "auth_fail", container |-> None])
    BY <1>2 DEF VerifyFails, Finish, Log
  <2>2. Promise!Reject
    BY <2>1, <1>i, PhaseNow, PhaseNext DEF Promise!Reject, Promise!Row, Promise!None, None
  <2> QED BY <2>2 DEF Promise!Next
<1>3. ASSUME NEW c \in Containers, VerifySucceeds(c) PROVE [Promise!Next]_(Promise!vars)
  <2>1. pc = "auth" /\ log' = Append(log, [event |-> "auth_ok", container |-> None])
    BY <1>3 DEF VerifySucceeds, Log
  <2>2. (pc' = "accept") \/ (pc' \in Prepared /\ containerid' = c)
    BY <1>3 DEF VerifySucceeds, Finish, Prepared, CreatePCs, OpenPCs
  <2>3. Promise!Authenticate(c)
    BY <2>1, <2>2, <1>i, PhaseNow, PhaseNext
    DEF Promise!Authenticate, Promise!Row, Promise!None, None
  <2> QED BY <2>3 DEF Promise!Next
<1>4. CASE Create \/ Open \/ Setup
  BY <1>4, PreparingSteps, PrepareStep
<1>5. CASE WaitPoll
  <2>1. pc \in Prepared /\ UNCHANGED containerid
    BY <1>5 DEF WaitPoll, Prepared
  <2>2. CASE UNCHANGED <<pc, log>>
    BY <2>1, <2>2, Stutter
  <2>3. CASE Log("ssh_connected", containerid) /\ pc' = "watch"
    <3>1. Promise!Connect
      BY <2>1, <2>3, PhaseNow, PhaseNext DEF Log, Promise!Connect, Promise!Row
    <3> QED BY <3>1 DEF Promise!Next
  <2> QED BY <1>5, <2>2, <2>3 DEF WaitPoll
<1>6. CASE WatchPoll
  <2>1. pc = "watch" /\ UNCHANGED containerid
    BY <1>6 DEF WatchPoll
  <2>2. CASE UNCHANGED <<pc, log>>
    BY <2>1, <2>2, Stutter
  <2>3. CASE Log("ssh_disconnected", containerid) /\ pc' = "stop"
    <3>1. Promise!End
      BY <2>1, <2>3, <1>i, PhaseNow, PhaseNext DEF Log, Promise!End, Promise!Row, Promise!None, None
    <3> QED BY <3>1 DEF Promise!Next
  <2> QED BY <1>6, <2>2, <2>3 DEF WatchPoll
<1>7. CASE PollTimeout
  <2>1. /\ pc \in Prepared \/ pc = "watch"
        /\ pc' = "stop" /\ log' = Append(log, [event |-> "timeout", container |-> containerid])
    BY <1>7 DEF PollTimeout, Goto, Log, Prepared
  <2>2. Promise!End
    BY <2>1, <1>i, PhaseNow, PhaseNext DEF Promise!End, Promise!Row, Promise!None, None
  <2> QED BY <2>2 DEF Promise!Next
<1>8. CASE StopContainer \/ CloseAfterFailure \/ EndSession
  BY <1>8, <1>i, IdleStep DEF StopContainer, CloseAfterFailure, EndSession, Goto, Return, Finish
<1>9. CASE \/ MainCall \/ Cleaner \/ SignalArrives \/ SignalHandler
           \/ (\E c \in Containers : ContainerExits(c) \/ CleanContainer(c)) \/ CleanupLuks
  <2>1. UNCHANGED clientVars /\ UNCHANGED log
    BY <1>9 DEF MainCall, Cleaner, SignalArrives, SignalHandler, ContainerExits, CleanContainer,
                CleanupLuks
  <2> QED BY <2>1, Stutter DEF clientVars
<1>10. CASE UNCHANGED vars
  BY <1>10, Stutter DEF vars, clientVars
<1> QED BY <1>1, <1>2, <1>3, <1>4, <1>5, <1>6, <1>7, <1>8, <1>9, <1>10 DEF Next, Serve

(* The manager implements the promise the anomaly detector relies on:      *)
(* every connection is logged once, for a container whose user has         *)
(* authenticated, and is followed by exactly one end of the same           *)
(* container, for every number of containers, sessions and polls.          *)
THEOREM LogCorrect ==
    ASSUME "signal" \notin Events, "crash" \notin Events
    PROVE  Spec => LogImplementsPromise
<1>1. Init => IndexInv /\ Promise!Init
  <2>1. Init => IndexInv
    BY InitTypes, ThreadNames DEF Init, HomeInit, IndexInv, Indexed, Callers
  <2>2. Init => Promise!Init
    BY PhaseNow DEF Init, Promise!Init, Prepared, CreatePCs, OpenPCs, SetupPCs, None,
                    Promise!None
  <2> QED BY <2>1, <2>2
<1>2. IndexInv /\ [Next]_vars => [Promise!Next]_(Promise!vars)
  <2>1. IndexInv => TypeOK /\ ~Crash
    BY DEF IndexInv, Indexed, Callers, Crash, Dangling
  <2> QED BY <2>1, LogStep
<1>3. IndexInv /\ [Next]_vars => IndexInv'
  BY IndexStep
<1> QED BY <1>1, <1>2, <1>3, PTL DEF Spec, LogImplementsPromise, Promise!Spec
================================================================================
