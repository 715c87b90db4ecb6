------------------------------ MODULE BridgeProofs ------------------------------
(***************************************************************************)
(* The bridge and the device on one serial line, for every set of clients, *)
(* every number of requests and every number of restarts of the device.    *)
(***************************************************************************)
EXTENDS AgentBridge, KeyDeviceProofs

(***************************************************************************)
(* The invariant                                                           *)
(***************************************************************************)

(* serial_lock is held by the one thread that reads the port; a request has *)
(* no number before it is sent, and no answer is kept beyond its reply.     *)
ThreadsInv ==
    /\ main \in {"unlinking", "exited"} => ~port
    /\ main = "exited" => lock = NoClient /\ \A c \in Clients : pc[c] = "closed"
    /\ \A c \in Clients :
         /\ pc[c] = "answer" <=> lock = c
         /\ pc[c] \in {"lock", "answer"} => asked[c].kind \in DeviceKinds
         /\ pc[c] # "reply" => got[c] = Text
         /\ pc[c] = "lock" => asked[c].id = 0

(* The requests are numbered as they are sent, and the line keeps their      *)
(* order from the answer taken last on.  The answers taken lag behind the    *)
(* requests by at most one for each exchange that took none of its own, and  *)
(* one for the exchange that is going on.                                   *)
LineInv ==
    /\ last <= sent
    /\ sent <= last + missed + (IF lock \in Clients \/ main = "exited" THEN 1 ELSE 0)
    /\ Ordered(last, sent)
    /\ \A i \in DOMAIN fromDev : fromDev[i].part = "rest" => missed > 0

(* The lock with number id is the last request on the line; a success for it *)
(* is there only when the key is locked and nothing is left to unlock it.   *)
LockPending(id) ==
    /\ LastOnLine(id)
    /\ \A i \in DOMAIN toDev : toDev[i].id = id => toDev[i].kind = "lock"
    /\ step # 0 => serving.id # id
    /\ \A i \in DOMAIN fromDev :
          fromDev[i].part = "frame" /\ fromDev[i].id = id /\ fromDev[i].type = "success" =>
            IsLocked

(* The thread that holds serial_lock has sent the last request.             *)
HolderInv ==
    lock \in Clients =>
        /\ asked[lock].id = sent
        /\ asked[lock].kind = "lock" => LockPending(sent)

(* Only a request that is later than request id can have unlocked the key.  *)
LockedSince(id) ==
    /\ ram.enc /\ (IsLocked \/ unlockedBy > id)
    /\ \A i \in DOMAIN toDev : toDev[i].id > id

LocksInv == acked <= sent /\ (acked # 0 => LockedSince(acked))

BridgeInv ==
    /\ BridgeTypeOK /\ KeyInv /\ ThreadsInv /\ LineInv /\ HolderInv /\ LocksInv
    /\ AnswersMatch

--------------------------------------------------------------------------------
(***************************************************************************)
(* The device's steps                                                      *)
(***************************************************************************)

(* After a loss of power an encrypted key is locked again.                  *)
LEMMA RestartLocks ==
    ASSUME KeyInv, Reset, ram.enc
    PROVE  ram'.enc /\ IsLocked'
<1>1. nvs \in Parts /\ nvs.enc /\ HasParts(nvs) /\ ram' = Loaded(nvs)
  BY DEF KeyInv, KeyTypeOK, MemoryWhole, RecordWhole, Reset
<1>2. ram'.enc /\ ~ram'.unlocked
  BY <1>1, LoadedWhole
<1> QED BY <1>2 DEF IsLocked

(* A lock stays, but for later requests.                                    *)
LEMMA LockStays ==
    ASSUME KeyInv, KeyInv', DeviceNext, NEW id \in Nat, LockedSince(id)
    PROVE  LockedSince(id)'
<1>1. ram \in Memory /\ unlockedBy \in Nat /\ KeyTypeOK /\ ram.loaded
  BY DEF KeyInv, KeyTypeOK, MemoryWhole, LockedSince
<1>2. \A i \in DOMAIN toDev' : toDev'[i].id > id
  <2>1. ASSUME NEW r, NEW n \in Nat, NEW k \in Nat, Handles(r, n, k)
        PROVE  \A i \in DOMAIN toDev' : toDev'[i].id > id
    <3>1. toDev # << >> /\ r = toDev[1] /\ toDev \in Seq(Request)
      BY <1>1, <2>1 DEF Handles, KeyTypeOK
    <3>2. r.id > id
      BY <3>1, EmptySeq DEF LockedSince
    <3> QED BY <2>1, <3>2 DEF Handles, LockedSince
  <2>2. CASE toDev' = << >>
    BY <2>2
  <2>3. CASE UNCHANGED toDev
    BY <2>3 DEF LockedSince
  <2> QED BY <1>1, <2>1, <2>2, <2>3, DeviceLine
<1>3. ASSUME NEW r, NEW kinds, Accept(r, kinds)
      PROVE  r.id > id
  <2>1. toDev # << >> /\ r = toDev[1] /\ toDev \in Seq(Request)
    BY <1>1, <1>3, AcceptHandles DEF Handles, KeyTypeOK
  <2> QED BY <2>1, EmptySeq DEF LockedSince
<1>4. ram'.enc /\ (IsLocked' \/ unlockedBy' > id)
  <2>1. CASE Reset
    BY <2>1, RestartLocks DEF LockedSince
  <2>2. CASE UNCHANGED <<ram, unlockedBy>>
    BY <2>2 DEF LockedSince, IsLocked
  <2>3. ASSUME NEW r, HandleUnlock(r)
        PROVE  ram'.enc /\ (IsLocked' \/ unlockedBy' > id)
    <3>1. r.id > id
      BY <1>3, <2>3 DEF HandleUnlock
    <3>2. CASE ram' = [ram EXCEPT !.priv = 0] /\ UNCHANGED unlockedBy
      <4>1. ram'.enc = ram.enc /\ ram'.unlocked = ram.unlocked
        BY <1>1, <3>2 DEF Memory
      <4> QED BY <3>2, <4>1 DEF LockedSince, IsLocked
    <3>3. CASE \E seed : /\ ram' = [ram EXCEPT !.priv = seed, !.unlocked = (seed # 0)]
                         /\ unlockedBy' = IF seed # 0 THEN r.id ELSE unlockedBy
      <4>1. PICK seed : /\ ram' = [ram EXCEPT !.priv = seed, !.unlocked = (seed # 0)]
                        /\ unlockedBy' = IF seed # 0 THEN r.id ELSE unlockedBy
        BY <3>3
      <4>2. ram'.enc = ram.enc /\ ram'.unlocked = (seed # 0)
        BY <1>1, <4>1 DEF Memory
      <4> QED BY <3>1, <4>1, <4>2 DEF LockedSince, IsLocked
    <3> QED BY <2>2, <2>3, <3>2, <3>3 DEF HandleUnlock
  <2>4. ASSUME NEW r, HandleLock(r)
        PROVE  ram'.enc /\ (IsLocked' \/ unlockedBy' > id)
    <3>1. ram' = [ram EXCEPT !.priv = 0, !.unlocked = FALSE]
      BY <1>1, <2>4 DEF HandleLock, LockedSince
    <3>2. ram'.enc = ram.enc /\ ~ram'.unlocked
      BY <1>1, <3>1 DEF Memory
    <3> QED BY <3>2 DEF LockedSince, IsLocked
  <2>5. ASSUME NEW r, HandleGenerate(r)
        PROVE  ram'.enc /\ (IsLocked' \/ unlockedBy' > id)
    <3>1. unlockedBy' = unlockedBy
      BY <2>5 DEF HandleGenerate
    <3>2. NewPair.enc = ram.enc /\ NewPair.unlocked = ram.unlocked
          /\ [NewPair EXCEPT !.seed = keys + 1].enc = ram.enc
          /\ [NewPair EXCEPT !.seed = keys + 1].unlocked = ram.unlocked
      BY <1>1 DEF NewPair, Memory
    <3>3. ram'.enc = ram.enc /\ ram'.unlocked = ram.unlocked
      BY <2>5, <3>2 DEF HandleGenerate
    <3> QED BY <3>1, <3>3 DEF LockedSince, IsLocked
  <2>6. CASE FinishGenerate
    <3>1. ram'.enc /\ ~ram'.unlocked
      BY <1>1, <2>6 DEF FinishGenerate, Memory
    <3> QED BY <3>1 DEF IsLocked
  <2>7. ASSUME NEW r, HandleSign(r) \/ HandleShow(r) \/ HandleUnknown(r) \/ HandleHuge(r)
                      \/ HandleFragment(r)
        PROVE  UNCHANGED <<ram, unlockedBy>>
    BY <2>7 DEF HandleSign, HandleShow, HandleUnknown, HandleHuge, HandleFragment, devVars
  <2>8. CASE WriteNvs
    BY <2>2, <2>8 DEF WriteNvs
  <2> QED BY <2>1, <2>2, <2>3, <2>4, <2>5, <2>6, <2>7, <2>8 DEF DeviceNext, DeviceStep
<1> QED BY <1>2, <1>4 DEF LockedSince

(* The answer to the lock comes from its handler.                           *)
LEMMA PendingStays ==
    ASSUME KeyInv, KeyInv', DeviceNext, NEW id \in Nat, LockPending(id)
    PROVE  LockPending(id)'
<1>1. /\ KeyTypeOK /\ KeyTypeOK' /\ toDev \in Seq(Request) /\ LastOnLine(id)
      /\ \A i \in DOMAIN toDev : toDev[i].id = id => toDev[i].kind = "lock"
      /\ step # 0 => serving.id # id
  BY DEF KeyInv, KeyTypeOK, LockPending
<1>2. LastOnLine(id)'
  BY <1>1, LastStays
<1>3. /\ \A i \in DOMAIN toDev' : toDev'[i].id = id => toDev'[i].kind = "lock"
      /\ step' # 0 => serving'.id # id
  <2>1. ASSUME NEW r, NEW n \in Nat, NEW k \in Nat, Handles(r, n, k)
        PROVE  /\ r.id = id => r.kind = "lock"
               /\ \A i \in DOMAIN toDev' : toDev'[i].id = id => toDev'[i].kind = "lock"
    <3>1. r.id = id => r.kind = "lock"
      BY <1>1, <2>1, EmptySeq DEF Handles
    <3>2. ASSUME NEW i \in DOMAIN toDev', i <= n, toDev'[i].id = id, toDev'[i].id = r.id
          PROVE  FALSE
      <4>1. n = 0
        BY <2>1, <3>1, <3>2 DEF Handles
      <4>2. i \in Nat /\ i > 0
        BY <1>1 DEF KeyTypeOK
      <4> QED BY <3>2, <4>1, <4>2
    <3> QED BY <1>1, <2>1, <3>1, <3>2 DEF Handles
  <2>2. toDev' = << >> => DOMAIN toDev' = {}
    OBVIOUS
  <2> QED BY <1>1, <2>1, <2>2, DeviceLine
<1>4. ASSUME NEW i \in DOMAIN fromDev', fromDev'[i].part = "frame", fromDev'[i].id = id,
             fromDev'[i].type = "success"
      PROVE  IsLocked'
  <2>1. CASE Reset /\ i \in DOMAIN fromDev /\ fromDev'[i] = fromDev[i]
    <3>1. IsLocked
      BY <1>4, <2>1 DEF LockPending
    <3> QED BY <2>1, <3>1, RestartLocks DEF IsLocked
  <2>2. CASE FinishGenerate /\ serving.id = id
    BY <1>1, <2>2 DEF FinishGenerate
  <2>3. ASSUME NEW r, Handlers(r), r.id = id, i \notin DOMAIN fromDev
        PROVE  IsLocked'
    <3>1. r \in Request /\ HandleLock(r)
      BY <1>1, <2>3, HandlersTake
    <3> QED BY <1>1, <1>4, <2>3, <3>1, LockPrints
  <2> QED BY <1>1, <1>4, <2>1, <2>2, <2>3, OwnFrame
<1> QED BY <1>2, <1>3, <1>4 DEF LockPending

LEMMA DeviceSteps ==
    ASSUME BridgeInv, DeviceNext, UNCHANGED bridgeVars
    PROVE  BridgeInv'
<1>1. KeyInv' /\ KeyTypeOK /\ KeyTypeOK' /\ sent \in Nat /\ last \in Nat /\ acked \in Nat
  BY KeyInvSteps DEF BridgeInv, BridgeTypeOK, KeyInv
<1>2. BridgeTypeOK' /\ ThreadsInv' /\ AnswersMatch'
  BY <1>1 DEF BridgeInv, BridgeTypeOK, ThreadsInv, AnswersMatch, bridgeVars, history
<1>3. LineInv'
  <2>1. PICK low \in Nat, high \in Nat : low = last /\ high = sent
    BY <1>1
  <2>2. Ordered(low, high)'
    BY <1>1, <2>1, OrderedStays DEF BridgeInv, LineInv
  <2>3. Ordered(last, sent)'
    BY <2>1, <2>2 DEF Ordered, bridgeVars, history
  <2>4. \A i \in DOMAIN fromDev' : fromDev'[i].part = "rest" =>
            i \in DOMAIN fromDev /\ fromDev'[i] = fromDev[i]
    <3>1. Text.part = "text"
      BY DEF Text
    <3>2. \A f : f.part # "rest" /\ Prints(f) =>
            \A i \in DOMAIN fromDev' : fromDev'[i].part = "rest" =>
               i \in DOMAIN fromDev /\ fromDev'[i] = fromDev[i]
      BY <3>1 DEF Prints
    <3> QED BY <1>1, <3>1, <3>2, DeviceLine
  <2> QED BY <2>3, <2>4 DEF BridgeInv, LineInv, bridgeVars, history
<1>4. HolderInv'
  <2>1. PICK id \in Nat : id = sent
    BY <1>1
  <2>2. LockPending(id) => LockPending(id)'
    BY <1>1, PendingStays DEF BridgeInv
  <2>3. LockPending(sent) => LockPending(sent)'
    BY <2>1, <2>2 DEF LockPending, LastOnLine, bridgeVars
  <2> QED BY <2>3 DEF BridgeInv, HolderInv, bridgeVars
<1>5. LocksInv'
  <2>1. PICK id \in Nat : id = acked
    BY <1>1
  <2>2. LockedSince(id) => LockedSince(id)'
    BY <1>1, LockStays DEF BridgeInv
  <2>3. LockedSince(acked) => LockedSince(acked)'
    BY <2>1, <2>2 DEF LockedSince, bridgeVars, history
  <2> QED BY <2>3 DEF BridgeInv, LocksInv, bridgeVars, history
<1> QED BY <1>1, <1>2, <1>3, <1>4, <1>5 DEF BridgeInv

--------------------------------------------------------------------------------
(***************************************************************************)
(* The steps of the threads and clients that leave the line alone          *)
(***************************************************************************)

(* Nothing but the clients and one connection without the lock moves.       *)
LEMMA LineAlone ==
    ASSUME BridgeInv, UNCHANGED <<lineVars, devVars, lock, sent, history>>, BridgeTypeOK',
           main' = "exited" <=> main = "exited",
           \A d \in Clients : d = lock => asked'[d] = asked[d]
    PROVE  KeyInv' /\ LineInv' /\ HolderInv' /\ LocksInv'
<1>1. KeyInv'
  BY KeyInvHost DEF BridgeInv, KeyInv, KeyTypeOK, lineVars
<1>2. LineInv'
  BY DEF BridgeInv, LineInv, Ordered, lineVars, devVars, history
<1>3. HolderInv'
  BY DEF BridgeInv, HolderInv, LockPending, LastOnLine, IsLocked, lineVars, devVars
<1>4. LocksInv'
  BY DEF BridgeInv, LocksInv, LockedSince, IsLocked, lineVars, devVars, history
<1> QED BY <1>1, <1>2, <1>3, <1>4

(* What a step of one connection that holds no lock may change.             *)
Local(c) ==
    /\ UNCHANGED <<lineVars, devVars, lock, port, main, sent, history>>
    /\ main # "exited"
    /\ \A d \in Clients \ {c} :
          /\ pc'[d] = pc[d] /\ asked'[d] = asked[d]
          /\ got'[d] = got[d] /\ told'[d] = told[d]
    /\ pc[c] # "answer" /\ pc'[c] # "answer"
    /\ got'[c] = Text
    /\ pc'[c] = "lock" => asked'[c].kind \in DeviceKinds /\ asked'[c].id = 0

LEMMA LocalStep ==
    ASSUME BridgeInv, NEW c \in Clients, Local(c), BridgeTypeOK'
    PROVE  BridgeInv'
<1>1. KeyInv' /\ LineInv' /\ HolderInv' /\ LocksInv'
  <2>1. \A d \in Clients : d = lock => asked'[d] = asked[d]
    BY DEF BridgeInv, ThreadsInv, Local
  <2> QED BY <2>1, LineAlone DEF Local
<1>2. ThreadsInv'
  <2>1. /\ main' \in {"unlinking", "exited"} => ~port'
        /\ main' # "exited"
    BY DEF BridgeInv, ThreadsInv, Local
  <2>2. ASSUME NEW d \in Clients
        PROVE  /\ pc'[d] = "answer" <=> lock' = d
               /\ pc'[d] \in {"lock", "answer"} => asked'[d].kind \in DeviceKinds
               /\ pc'[d] # "reply" => got'[d] = Text
               /\ pc'[d] = "lock" => asked'[d].id = 0
    BY DEF BridgeInv, ThreadsInv, Local
  <2> QED BY <2>1, <2>2 DEF ThreadsInv
<1>3. AnswersMatch'
  <2>1. Text.part = "text"
    BY DEF Text
  <2> QED BY <2>1 DEF BridgeInv, AnswersMatch, Local, history
<1> QED BY <1>1, <1>2, <1>3 DEF BridgeInv

(* The types of the bridge's own variables after a step.                    *)
LEMMA SameTypes ==
    ASSUME BridgeTypeOK, UNCHANGED <<lineVars, devVars, lock, port, main, sent, history>>,
           pc' \in [Clients -> Places],
           stream' \in [Clients -> Seq(Piece)],
           owes' \in [Clients -> AgentKinds \cup {"nothing", "gone"}],
           asked' \in [Clients -> [id : Nat, kind : AgentKinds]],
           got' \in [Clients -> Item],
           told' \in [Clients -> Replies],
           running' \in BOOLEAN, left' \in 0 .. MaxRequests
    PROVE  BridgeTypeOK'
  BY DEF BridgeTypeOK, KeyTypeOK, lineVars, devVars, history

LEMMA ClientSteps ==
    ASSUME BridgeInv, NEW c \in Clients, ClientStep(c)
    PROVE  BridgeInv'
<1>1. /\ UNCHANGED <<lineVars, devVars, threadVars, lock, running, port, main, sent, history>>
      /\ Len(stream[c]) < MaxAhead
  BY DEF ClientStep
<1>2. stream[c] \in Seq(Piece) /\ Commands \subseteq AgentKinds
      /\ stream \in [Clients -> Seq(Piece)]
      /\ owes \in [Clients -> AgentKinds \cup {"nothing", "gone"}]
  BY CommandAssumption DEF BridgeInv, BridgeTypeOK
<1>3. ASSUME NEW piece \in {"length", "data", "end"}, NEW kind \in AgentKinds,
             Writes(c, piece, kind)
      PROVE  stream' \in [Clients -> Seq(Piece)]
  <2>1. [piece |-> piece, kind |-> kind] \in Piece
    BY DEF Piece
  <2>2. Append(stream[c], [piece |-> piece, kind |-> kind]) \in Seq(Piece)
    BY <1>2, <2>1, AppendProperties
  <2> QED BY <1>2, <1>3, <2>2 DEF Writes
<1>4. /\ stream' \in [Clients -> Seq(Piece)]
      /\ owes' \in [Clients -> AgentKinds \cup {"nothing", "gone"}]
      /\ left' \in 0 .. MaxRequests
  <2>1. CASE /\ owes[c] = "nothing" /\ left > 0
             /\ \E kind \in Commands :
                   Writes(c, "length", kind) /\ owes' = [owes EXCEPT ![c] = kind]
             /\ left' = left - 1
    <3>1. left' \in 0 .. MaxRequests
      BY <2>1, ClientAssumption DEF BridgeInv, BridgeTypeOK
    <3> QED BY <1>2, <1>3, <2>1, <3>1
  <2>2. CASE owes[c] \in AgentKinds /\ Writes(c, "data", owes[c])
             /\ owes' = [owes EXCEPT ![c] = "nothing"] /\ UNCHANGED left
    BY <1>2, <1>3, <2>2 DEF BridgeInv, BridgeTypeOK
  <2>3. CASE Writes(c, "end", "identity") /\ owes' = [owes EXCEPT ![c] = "gone"]
             /\ UNCHANGED left
    <3>1. "identity" \in AgentKinds
      BY DEF AgentKinds
    <3> QED BY <1>2, <1>3, <2>3, <3>1 DEF BridgeInv, BridgeTypeOK
  <2> QED BY <2>1, <2>2, <2>3 DEF ClientStep
<1>5. BridgeTypeOK'
  BY <1>1, <1>4, SameTypes DEF BridgeInv, BridgeTypeOK, threadVars
<1>6. ThreadsInv' /\ AnswersMatch'
  BY <1>1 DEF BridgeInv, ThreadsInv, AnswersMatch, threadVars, history
<1>7. KeyInv' /\ LineInv' /\ HolderInv' /\ LocksInv'
  BY <1>1, <1>5, LineAlone DEF threadVars
<1> QED BY <1>5, <1>6, <1>7 DEF BridgeInv

(* A thread that reads its client's socket or answers by itself.            *)
LEMMA SocketSteps ==
    ASSUME BridgeInv, NEW c \in Clients,
           AcceptClient(c) \/ ReadLength(c) \/ ReadData(c) \/ StreamTimeout(c) \/ SendReply(c)
    PROVE  BridgeInv'
<1>1. /\ pc \in [Clients -> Places] /\ asked \in [Clients -> [id : Nat, kind : AgentKinds]]
      /\ got \in [Clients -> Item] /\ told \in [Clients -> Replies]
      /\ stream \in [Clients -> Seq(Piece)] /\ sent \in Nat
  BY DEF BridgeInv, BridgeTypeOK
<1>2. {"length", "data", "lock", "reply", "closed"} \subseteq Places
      /\ {"success", "failure"} \subseteq Replies /\ Text \in Item
      /\ Nothing \in [id : Nat, kind : AgentKinds] /\ Nothing.id = 0
      /\ Nothing.kind # "lock"
  BY DEF Places, Replies, AnswerTypes, Text, Item, Nothing, AgentKinds
<1>3. Elsewhere /\ pc[c] # "answer" /\ main # "exited"
  BY DEF AcceptClient, ReadLength, ReadData, StreamTimeout, SendReply, BridgeInv, ThreadsInv
<1>4. stream' \in [Clients -> Seq(Piece)]
  <2>1. CASE UNCHANGED stream
    BY <1>1, <2>1
  <2>2. CASE stream[c] # << >> /\ stream' = [stream EXCEPT ![c] = Tail(@)]
    <3>1. Tail(stream[c]) \in Seq(Piece)
      BY <1>1, <2>2, HeadTailProperties
    <3> QED BY <1>1, <2>2, <3>1
  <2> QED BY <2>1, <2>2 DEF AcceptClient, ReadLength, ReadData, StreamTimeout, SendReply
<1>5. CASE /\ \E place \in {"length", "data", "closed"} : Go(c, place)
           /\ UNCHANGED <<asked, got, told>> /\ pc[c] # "reply"
  <2>1. Local(c)
    BY <1>1, <1>3, <1>5 DEF Local, Go, Elsewhere, BridgeInv, ThreadsInv
  <2>2. BridgeTypeOK'
    BY <1>1, <1>2, <1>3, <1>4, <1>5, SameTypes DEF Go, Elsewhere, BridgeInv, BridgeTypeOK
  <2> QED BY <2>1, <2>2, LocalStep
<1>6. ASSUME NEW kind \in AgentKinds, Dispatch(c, kind), pc[c] = "data", UNCHANGED got
      PROVE  BridgeInv'
  <2>1. /\ asked' = [asked EXCEPT ![c] = [id |-> 0, kind |-> kind]]
        /\ [id |-> 0, kind |-> kind] \in [id : Nat, kind : AgentKinds]
    BY <1>6 DEF Dispatch
  <2>2. asked' \in [Clients -> [id : Nat, kind : AgentKinds]]
        /\ asked'[c].id = 0 /\ asked'[c].kind = kind
        /\ \A d \in Clients \ {c} : asked'[d] = asked[d]
    BY <1>1, <2>1
  <2>3. \E place \in Places \ {"answer"}, t \in Replies :
            /\ Go(c, place)
            /\ told' = told \/ told' = [told EXCEPT ![c] = t]
            /\ place = "lock" => kind \in DeviceKinds
            /\ place = "reply" => kind # "lock"
    <3>1. CASE kind \in DeviceKinds
      BY <1>2, <1>6, <3>1 DEF Dispatch
    <3>2. CASE kind \in {"identity", "unparsable", "wideflags"}
      BY <1>2, <1>6, <3>2 DEF Dispatch, DeviceKinds
    <3> QED BY <3>1, <3>2 DEF AgentKinds, DeviceKinds
  <2>4. PICK place \in Places \ {"answer"}, t \in Replies :
            /\ Go(c, place)
            /\ told' = told \/ told' = [told EXCEPT ![c] = t]
            /\ place = "lock" => kind \in DeviceKinds
            /\ place = "reply" => kind # "lock"
    BY <2>3
  <2>5. got[c] = Text
    BY <1>6 DEF BridgeInv, ThreadsInv
  <2>6. Local(c)
    BY <1>1, <1>3, <1>6, <2>2, <2>4, <2>5 DEF Local, Go, Elsewhere
  <2>7. told' \in [Clients -> Replies] /\ pc' \in [Clients -> Places]
    BY <1>1, <2>4 DEF Go
  <2>8. BridgeTypeOK'
    BY <1>1, <1>3, <1>4, <1>6, <2>2, <2>7, SameTypes DEF Elsewhere, BridgeInv, BridgeTypeOK
  <2> QED BY <2>6, <2>8, LocalStep
<1>7. CASE SendReply(c)
  <2>1. \E place \in {"length", "closed"} : Go(c, place)
    BY <1>7 DEF SendReply
  <2>2. /\ asked' = [asked EXCEPT ![c] = Nothing]
        /\ got' = [got EXCEPT ![c] = Text]
        /\ told' = [told EXCEPT ![c] = "failure"]
    BY <1>7 DEF SendReply
  <2>3. Local(c)
    BY <1>1, <1>2, <1>3, <2>1, <2>2 DEF Local, Go, Elsewhere
  <2>4. /\ asked' \in [Clients -> [id : Nat, kind : AgentKinds]]
        /\ got' \in [Clients -> Item] /\ told' \in [Clients -> Replies]
        /\ pc' \in [Clients -> Places]
    BY <1>1, <1>2, <2>1, <2>2 DEF Go
  <2>5. BridgeTypeOK'
    BY <1>1, <1>3, <1>4, <2>4, SameTypes DEF Elsewhere, BridgeInv, BridgeTypeOK
  <2> QED BY <2>3, <2>5, LocalStep
<1>8. CASE ReadData(c)
  <2>1. Head(stream[c]) \in Piece
    BY <1>1, <1>8, HeadTailProperties DEF ReadData
  <2>2. CASE Head(stream[c]).piece = "data"
    BY <1>6, <1>8, <2>1, <2>2 DEF ReadData, Piece
  <2>3. CASE Head(stream[c]).piece # "data"
    BY <1>5, <1>8, <2>3 DEF ReadData
  <2> QED BY <2>2, <2>3
<1>9. CASE AcceptClient(c) \/ ReadLength(c) \/ StreamTimeout(c)
  BY <1>5, <1>9 DEF AcceptClient, ReadLength, StreamTimeout
<1> QED BY <1>7, <1>8, <1>9
--------------------------------------------------------------------------------
(***************************************************************************)
(* The exchange with the device                                            *)
(***************************************************************************)

LEMMA SendStep ==
    ASSUME BridgeInv, NEW c \in Clients, SendToDevice(c)
    PROVE  BridgeInv'
<1>1. /\ pc \in [Clients -> Places] /\ asked \in [Clients -> [id : Nat, kind : AgentKinds]]
      /\ got \in [Clients -> Item] /\ told \in [Clients -> Replies]
      /\ stream \in [Clients -> Seq(Piece)] /\ sent \in Nat /\ last \in Nat /\ acked \in Nat
      /\ missed \in Nat /\ KeyTypeOK
  BY DEF BridgeInv, BridgeTypeOK
<1>2. /\ pc[c] = "lock" /\ lock = NoClient /\ got[c] = Text /\ main # "exited"
      /\ asked[c].kind \in DeviceKinds /\ asked[c].id = 0
      /\ UNCHANGED <<fromDev, devVars, clientVars, got, running, port, main, history>>
  BY DEF SendToDevice, BridgeInv, ThreadsInv
<1>3. CASE ~port
  <2>1. /\ told' = [told EXCEPT ![c] = "failure"] /\ Go(c, "reply")
        /\ UNCHANGED <<lock, sent, asked, toDev>>
    BY <1>3 DEF SendToDevice
  <2>2. Local(c)
    BY <1>1, <1>2, <2>1 DEF Local, Go, lineVars
  <2>3. "reply" \in Places /\ "failure" \in Replies
    BY DEF Places, Replies, AnswerTypes
  <2>4. BridgeTypeOK'
    BY <1>1, <1>2, <2>1, <2>3, SameTypes DEF Go, lineVars, clientVars, BridgeInv, BridgeTypeOK
  <2> QED BY <2>2, <2>4, LocalStep
<1>4. CASE port
  <2>0. PICK id \in Nat : id = sent + 1
    BY <1>1
  <2> DEFINE kind == asked[c].kind
             p == Packet(kind, id)
  <2>1. /\ lock' = c /\ sent' = id /\ told' = told
        /\ asked' = [asked EXCEPT ![c].id = id]
        /\ toDev' = Append(toDev, p)
        /\ pc' = [pc EXCEPT ![c] = "answer"]
    BY <1>2, <1>4, <2>0 DEF SendToDevice, Go
  <2>2. p \in Request /\ p.id = id /\ p.kind = kind
    <3>1. kind \in Kinds /\ id \in Nat
      BY <1>1, <1>2 DEF DeviceKinds, Kinds
    <3>2. nvs.pub \in Nat
      BY <1>1, KeyNumbers DEF KeyTypeOK, Parts
    <3>3. (CHOOSE pw \in Passwords : TRUE) \in Passwords
      BY PasswordAssumption
    <3> HIDE DEF kind
    <3> QED BY <3>1, <3>2, <3>3 DEF Packet, Request
  <2>3. /\ asked'[c].id = id /\ asked'[c].kind = kind
        /\ \A d \in Clients \ {c} : asked'[d] = asked[d]
        /\ asked' \in [Clients -> [id : Nat, kind : AgentKinds]]
    <3>1. asked[c] \in [id : Nat, kind : AgentKinds] /\ id \in Nat
      BY <1>1
    <3>2. asked' = [asked EXCEPT ![c] = [asked[c] EXCEPT !.id = id]]
      BY <2>1
    <3>3. [asked[c] EXCEPT !.id = id] \in [id : Nat, kind : AgentKinds]
          /\ [asked[c] EXCEPT !.id = id].id = id
          /\ [asked[c] EXCEPT !.id = id].kind = asked[c].kind
      BY <3>1
    <3> QED BY <1>1, <3>2, <3>3
  <2>4. /\ toDev \in Seq(Request) /\ fromDev' \in Seq(Item)
        /\ last <= sent /\ acked <= sent /\ sent <= last + missed /\ Ordered(last, sent)
    BY <1>1, <1>2, NoClientAssumption DEF KeyTypeOK, BridgeInv, LineInv, LocksInv
  <2> HIDE DEF p, kind
  <2>5. /\ toDev' \in Seq(Request)
        /\ Ordered(last, id)'
        /\ p.kind \notin {"huge", "fragment"} => LastOnLine(id)'
    <3>1. UNCHANGED <<fromDev, step, serving>>
      BY <1>2 DEF devVars
    <3>2. \A low, high \in Nat :
             p.id = high + 1 /\ low <= high /\ Ordered(low, high) =>
               /\ toDev' \in Seq(Request)
               /\ \A h \in Nat : h = high + 1 => Ordered(low, h)'
               /\ \A h \in Nat : h = high + 1 /\ p.kind \notin {"huge", "fragment"} =>
                    LastOnLine(h)'
      BY <1>1, <2>1, <2>2, <3>1, SendKeeps
    <3>3. PICK low \in Nat, high \in Nat : low = last /\ high = sent
      BY <1>1
    <3>4. low = last'
      BY <1>2, <3>3 DEF history
    <3>5. /\ toDev' \in Seq(Request)
          /\ \A h \in Nat : h = high + 1 => Ordered(low, h)'
          /\ \A h \in Nat : h = high + 1 /\ p.kind \notin {"huge", "fragment"} =>
               LastOnLine(h)'
      BY <2>0, <2>2, <2>4, <3>2, <3>3
    <3>6. /\ Ordered(low, id)'
          /\ p.kind \notin {"huge", "fragment"} => LastOnLine(id)'
      BY <2>0, <3>3, <3>5
    <3> QED BY <3>4, <3>5, <3>6 DEF Ordered
  <2>6. \A i \in DOMAIN toDev' :
            (i \in DOMAIN toDev /\ toDev'[i] = toDev[i]) \/ toDev'[i] = p
    BY <2>1, <2>2, <2>4
  <2>7. KeyInv'
    BY <1>2, <2>4, <2>5, KeyInvHost DEF BridgeInv
  <2>8. BridgeTypeOK'
    <3>1. pc' \in [Clients -> Places] /\ sent' \in Nat
      BY <1>1, <2>1 DEF Places
    <3> QED BY <1>2, <2>1, <2>3, <2>7, <3>1 DEF BridgeInv, BridgeTypeOK, KeyInv, clientVars,
                                            history
  <2>9. ThreadsInv'
    <3>1. ASSUME NEW d \in Clients
          PROVE  /\ pc'[d] = "answer" <=> lock' = d
                 /\ pc'[d] \in {"lock", "answer"} => asked'[d].kind \in DeviceKinds
                 /\ pc'[d] # "reply" => got'[d] = Text
                 /\ pc'[d] = "lock" => asked'[d].id = 0
      <4>1. CASE d = c
        BY <1>1, <1>2, <2>1, <2>3, <4>1 DEF kind
      <4>2. CASE d # c
        BY <1>1, <1>2, <2>1, <2>3, <4>2, NoClientAssumption DEF BridgeInv, ThreadsInv
      <4> QED BY <4>1, <4>2
    <3>2. /\ main' \in {"unlinking", "exited"} => ~port'
          /\ main' # "exited"
      BY <1>2 DEF BridgeInv, ThreadsInv
    <3> QED BY <3>1, <3>2 DEF ThreadsInv
  <2>10. LineInv'
    <3>1. last <= id /\ id <= (last + missed) + 1
      BY <1>1, <2>0, <2>4
    <3>2. Ordered(last, id)'
      BY <2>5
    <3>3. Ordered(last, sent)'
      BY <1>2, <2>1, <3>2 DEF Ordered, history
    <3>4. lock' \in Clients
      BY <2>1
    <3>5. \A i \in DOMAIN fromDev' : fromDev'[i].part = "rest" => missed' > 0
      BY <1>2 DEF BridgeInv, LineInv, history
    <3> QED BY <1>2, <2>1, <3>1, <3>3, <3>4, <3>5 DEF LineInv, history
  <2>11. HolderInv'
    <3> SUFFICES ASSUME kind = "lock"
                 PROVE  LockPending(sent)'
      BY <2>1, <2>3 DEF HolderInv
    <3>1. LastOnLine(id)'
      BY <2>2, <2>5
    <3>2. \A i \in DOMAIN toDev : toDev[i].id # id
      <4>1. \A i \in DOMAIN toDev : toDev[i].id \in last .. sent
        BY <2>4 DEF Ordered
      <4> QED BY <1>1, <2>0, <4>1
    <3>3. step' # 0 => serving'.id # id
      <4>1. step # 0 => serving.id \in last .. sent
        BY <2>4 DEF Ordered
      <4>2. id \notin last .. sent
        BY <1>1, <2>0
      <4> QED BY <1>2, <4>1, <4>2 DEF devVars
    <3>4. \A i \in DOMAIN fromDev' : ~(fromDev'[i].part = "frame" /\ fromDev'[i].id = id)
      <4>1. \A i \in DOMAIN fromDev : fromDev[i].part = "frame" =>
               fromDev[i].id \in last .. sent
        BY <2>4 DEF Ordered
      <4>2. id \notin last .. sent
        BY <1>1, <2>0
      <4> QED BY <1>2, <4>1, <4>2
    <3>5. \A i \in DOMAIN toDev' : toDev'[i].id = id => toDev'[i].kind = "lock"
      BY <2>2, <2>6, <3>2
    <3> QED BY <2>1, <3>1, <3>3, <3>4, <3>5 DEF LockPending, LastOnLine
  <2>12. AnswersMatch'
    BY <1>1, <1>2, <2>1, <2>3 DEF BridgeInv, AnswersMatch, history
  <2>13. LocksInv'
    <3>1. acked' = acked /\ acked <= sent' /\ p.id > acked
      BY <1>1, <1>2, <2>0, <2>1, <2>2, <2>4 DEF history
    <3>2. acked # 0 => LockedSince(acked)'
      <4> SUFFICES ASSUME acked # 0 PROVE LockedSince(acked)'
        OBVIOUS
      <4>1. LockedSince(acked)
        BY DEF BridgeInv, LocksInv
      <4> QED BY <1>2, <2>6, <3>1, <4>1 DEF LockedSince, devVars, IsLocked
    <3> QED BY <3>1, <3>2 DEF LocksInv
  <2> QED BY <2>7, <2>8, <2>9, <2>10, <2>11, <2>12, <2>13 DEF BridgeInv
<1> QED BY <1>3, <1>4

LEMMA SkipStep ==
    ASSUME BridgeInv, NEW c \in Clients, SkipText(c)
    PROVE  BridgeInv'
<1>1. /\ UNCHANGED <<toDev, devVars, bridgeVars>> /\ Skip /\ KeyTypeOK /\ sent \in Nat
      /\ last \in Nat /\ fromDev \in Seq(Item) /\ Ordered(last, sent)
      /\ UNCHANGED <<step, serving>>
  BY DEF SkipText, BridgeInv, BridgeTypeOK, KeyTypeOK, LineInv, devVars
<1>2. fromDev' \in Seq(Item) /\ \E k \in Nat : \A i \in DOMAIN fromDev' :
          i + k \in DOMAIN fromDev /\ fromDev'[i] = fromDev[i + k]
  BY <1>1, Readers
<1>3. KeyInv'
  BY <1>1, <1>2, KeyInvHost DEF BridgeInv, KeyTypeOK
<1>4. BridgeTypeOK' /\ ThreadsInv' /\ AnswersMatch'
  BY <1>1, <1>3 DEF BridgeInv, BridgeTypeOK, ThreadsInv, AnswersMatch, bridgeVars, history, KeyInv
<1>5. LineInv'
  <2>1. PICK low \in Nat, high \in Nat : low = last /\ high = sent
    BY <1>1
  <2>2. Ordered(low, high)'
    BY <1>1, <2>1, ReadersKeep
  <2>3. Ordered(last, sent)'
    BY <1>1, <2>1, <2>2 DEF Ordered, bridgeVars, history
  <2> QED BY <1>1, <1>2, <2>3 DEF BridgeInv, LineInv, bridgeVars, history
<1>6. HolderInv'
  <2>1. PICK id \in Nat : id = sent
    BY <1>1
  <2>2. LastOnLine(id) => LastOnLine(id)'
    BY <1>1, ReadersKeep
  <2>3. LockPending(sent) => LockPending(sent)'
    <3> SUFFICES ASSUME LockPending(sent) PROVE LockPending(sent)'
      OBVIOUS
    <3>1. LastOnLine(sent)'
      BY <1>1, <2>1, <2>2 DEF LockPending, LastOnLine, bridgeVars
    <3>2. IsLocked' = IsLocked /\ sent' = sent
      BY <1>1 DEF IsLocked, devVars, bridgeVars
    <3> QED BY <1>1, <1>2, <3>1, <3>2 DEF LockPending
  <2> QED BY <1>1, <2>3 DEF BridgeInv, HolderInv, bridgeVars
<1>7. LocksInv'
  BY <1>1 DEF BridgeInv, LocksInv, LockedSince, IsLocked, bridgeVars, devVars, history
<1> QED BY <1>3, <1>4, <1>5, <1>6, <1>7 DEF BridgeInv

(* What the client is told is a type of answer.                             *)
LEMMA ReplyType ==
    ASSUME NEW kind, NEW type \in AnswerTypes
    PROVE  Reply(kind, type) \in Replies
  BY DEF Reply, Replies, AnswerTypes

LEMMA ReceivedStep ==
    ASSUME BridgeInv, NEW c \in Clients, pc[c] = "answer", NEW item \in Item,
           NEW type \in AnswerTypes, Received(c, item, type), fromDev' \in Seq(Item),
           last' \in Nat, missed' \in Nat, acked' \in Nat,
           last' <= sent, sent <= last' + missed', Ordered(last, sent)',
           \A i \in DOMAIN fromDev' : fromDev'[i].part = "rest" => missed' > 0,
           acked' <= sent, acked' # 0 => LockedSince(acked)',
           missed <= missed',
           item.part = "frame" => asked[c].id - item.id \in 0 .. missed',
           item.part = "rest" => missed' > 1
    PROVE  BridgeInv'
<1>1. /\ pc \in [Clients -> Places] /\ asked \in [Clients -> [id : Nat, kind : AgentKinds]]
      /\ got \in [Clients -> Item] /\ told \in [Clients -> Replies] /\ sent \in Nat
      /\ missed \in Nat
  BY DEF BridgeInv, BridgeTypeOK
<1>2. /\ got' = [got EXCEPT ![c] = item]
      /\ told' = [told EXCEPT ![c] = Reply(asked[c].kind, type)]
      /\ lock' = NoClient /\ pc' = [pc EXCEPT ![c] = "reply"]
      /\ UNCHANGED <<toDev, devVars, clientVars, asked, running, port, main, sent>>
  BY DEF Received, Go
<1>3. /\ pc'[c] = "reply" /\ got'[c] = item
      /\ \A d \in Clients \ {c} : pc'[d] = pc[d] /\ got'[d] = got[d]
  BY <1>1, <1>2
<1>4. lock = c /\ main # "exited" /\ \A d \in Clients : pc[d] = "answer" <=> lock = d
  BY DEF BridgeInv, ThreadsInv
<1>5. KeyInv'
  BY <1>2, KeyInvHost DEF BridgeInv, KeyInv, KeyTypeOK
<1>6. BridgeTypeOK'
  <2>1. pc' \in [Clients -> Places] /\ got' \in [Clients -> Item] /\ told' \in [Clients -> Replies]
    BY <1>1, <1>2, ReplyType DEF Places
  <2> QED BY <1>2, <1>5, <2>1 DEF BridgeInv, BridgeTypeOK, clientVars, KeyInv
<1>7. ThreadsInv'
  <2>1. (main' \in {"unlinking", "exited"} => ~port') /\ main' # "exited"
    BY <1>2, <1>4 DEF BridgeInv, ThreadsInv
  <2>2. ASSUME NEW d \in Clients
        PROVE  /\ pc'[d] = "answer" <=> lock' = d
               /\ pc'[d] \in {"lock", "answer"} => asked'[d].kind \in DeviceKinds
               /\ pc'[d] # "reply" => got'[d] = Text
               /\ pc'[d] = "lock" => asked'[d].id = 0
    <3>1. CASE d = c
      BY <1>2, <1>3, <3>1, NoClientAssumption DEF BridgeInv, ThreadsInv
    <3>2. CASE d # c
      BY <1>2, <1>3, <1>4, <3>2, NoClientAssumption DEF BridgeInv, ThreadsInv
    <3> QED BY <3>1, <3>2
  <2> QED BY <2>1, <2>2 DEF ThreadsInv
<1>8. LineInv'
  BY <1>1, <1>2, <1>4, NoClientAssumption DEF LineInv
<1>9. HolderInv'
  BY <1>2, NoClientAssumption DEF HolderInv
<1>10. AnswersMatch'
  <2> SUFFICES ASSUME NEW d \in Clients, pc'[d] = "reply", asked'[d].id # 0
               PROVE  /\ got'[d].part = "frame" => asked'[d].id - got'[d].id \in 0 .. missed'
                      /\ got'[d].part = "rest" => missed' > 1
    BY DEF AnswersMatch
  <2>1. CASE d = c
    BY <1>2, <1>3, <2>1
  <2>2. CASE d # c
    <3>1. /\ got[d].part = "frame" => asked[d].id - got[d].id \in 0 .. missed
          /\ got[d].part = "rest" => missed > 1
      BY <1>2, <1>3, <2>2 DEF BridgeInv, AnswersMatch
    <3>2. got'[d] = got[d] /\ asked'[d] = asked[d]
      BY <1>2, <1>3, <2>2
    <3> QED BY <1>1, <3>1, <3>2
  <2> QED BY <2>1, <2>2
<1>11. LocksInv'
  BY <1>2 DEF LocksInv
<1> QED BY <1>5, <1>6, <1>7, <1>8, <1>9, <1>10, <1>11 DEF BridgeInv

(* The thread takes the first answer there is.                              *)
LEMMA TakeStep ==
    ASSUME BridgeInv, NEW c \in Clients, TakeAnswer(c)
    PROVE  BridgeInv'
<1>1. /\ sent \in Nat /\ last \in Nat /\ missed \in Nat /\ acked \in Nat /\ KeyTypeOK
      /\ fromDev \in Seq(Item)
  BY DEF BridgeInv, BridgeTypeOK, KeyTypeOK
<1> DEFINE item == Head(fromDev)
<1>2. /\ pc[c] = "answer" /\ Take /\ Received(c, item, item.type) /\ last' = item.id
      /\ missed' = (IF item.id = last THEN missed + 1 ELSE missed)
      /\ acked' = (IF asked[c].kind = "lock" /\ item.id = asked[c].id /\ item.type = "success"
                   THEN item.id ELSE acked)
      /\ UNCHANGED <<toDev, step, serving, ram, unlockedBy, sent>>
  BY DEF TakeAnswer, Receiving, Received, devVars
<1>3. /\ fromDev # << >> /\ fromDev[1].part = "frame" /\ fromDev' \in Seq(Item)
      /\ \A i \in DOMAIN fromDev' : i + 1 \in DOMAIN fromDev /\ fromDev'[i] = fromDev[i + 1]
  BY <1>1, <1>2, Readers
<1>4. item = fromDev[1] /\ 1 \in DOMAIN fromDev /\ item \in Item
  BY <1>1, <1>3, EmptySeq
<1> HIDE DEF item
<1>5. item.type \in AnswerTypes /\ item.id \in Nat /\ item.part = "frame"
  BY <1>3, <1>4 DEF Item
<1>6. lock = c /\ asked[c].id = sent /\ (asked[c].kind = "lock" => LockPending(sent))
  BY <1>2 DEF BridgeInv, ThreadsInv, HolderInv
<1>7. last <= sent /\ sent <= (last + missed) + 1 /\ Ordered(last, sent)
  BY <1>6 DEF BridgeInv, LineInv
<1>8. item.id \in last .. sent /\ Ordered(last, sent)'
  <2>1. PICK low \in Nat, high \in Nat, h \in Nat : low = last /\ high = sent /\ h = item.id
    BY <1>1, <1>5
  <2>2. Ordered(low, high)
    BY <1>7, <2>1
  <2>3. fromDev[1].id \in low .. high /\ Ordered(h, high)'
    BY <1>1, <1>2, <1>4, <2>1, <2>2, ReadersKeep
  <2>4. h = last' /\ high = sent'
    BY <1>2, <2>1
  <2> QED BY <1>4, <2>1, <2>3, <2>4 DEF Ordered
<1>9. /\ last' \in Nat /\ missed' \in Nat /\ acked' \in Nat
      /\ last' <= sent /\ sent <= last' + missed' /\ missed <= missed'
      /\ asked[c].id - item.id \in 0 .. missed'
  BY <1>1, <1>2, <1>5, <1>6, <1>7, <1>8
<1>10. acked' <= sent /\ (acked' # 0 => LockedSince(acked)')
  <2>1. CASE asked[c].kind = "lock" /\ item.id = asked[c].id /\ item.type = "success"
    <3>1. IsLocked /\ toDev = << >>
      BY <1>4, <1>5, <1>6, <2>1 DEF LockPending, LastOnLine
    <3>2. acked' = sent /\ IsLocked' /\ ram'.enc /\ toDev' = << >>
      BY <1>2, <1>6, <2>1, <3>1 DEF IsLocked
    <3>3. DOMAIN toDev' = {}
      BY <3>2
    <3> QED BY <1>1, <3>2, <3>3 DEF LockedSince
  <2>2. CASE ~(asked[c].kind = "lock" /\ item.id = asked[c].id /\ item.type = "success")
    <3>1. acked' = acked
      BY <1>2, <2>2
    <3> QED BY <1>2, <3>1 DEF BridgeInv, LocksInv, LockedSince, IsLocked
  <2> QED BY <2>1, <2>2
<1>11. \A i \in DOMAIN fromDev' : fromDev'[i].part = "rest" => missed' > 0
  BY <1>1, <1>3, <1>9 DEF BridgeInv, LineInv
<1> QED BY <1>2, <1>3, <1>4, <1>5, <1>8, <1>9, <1>10, <1>11, ReceivedStep

(* The thread goes away without an answer of its own.                       *)
LEMMA MissSteps ==
    ASSUME BridgeInv, NEW c \in Clients, MisreadRest(c) \/ GiveUp(c) \/ ReadFails(c)
    PROVE  BridgeInv'
<1>1. /\ sent \in Nat /\ last \in Nat /\ missed \in Nat /\ acked \in Nat /\ KeyTypeOK
      /\ fromDev \in Seq(Item) /\ Text \in Item /\ Rest \in Item /\ "failure" \in AnswerTypes
      /\ Text.part = "text" /\ Rest.part = "rest" /\ DOMAIN fromDev \subseteq Nat
  BY DEF BridgeInv, BridgeTypeOK, KeyTypeOK, Text, Rest, Item, AnswerTypes
<1>2. /\ pc[c] = "answer" /\ (Misread \/ Abandon)
      /\ \E item \in {Text, Rest}, type \in AnswerTypes :
            /\ NoAnswer(c, item, type)
            /\ item = Rest => Misread
  <2>1. UNCHANGED fromDev => Abandon
    BY DEF Abandon
  <2> QED BY <1>1, <2>1 DEF MisreadRest, GiveUp, ReadFails, Receiving
<1>3. PICK item \in {Text, Rest}, type \in AnswerTypes :
          NoAnswer(c, item, type) /\ (item = Rest => Misread)
  BY <1>2
<1>4. /\ Received(c, item, type) /\ missed' = missed + 1 /\ UNCHANGED <<last, acked>>
      /\ UNCHANGED <<toDev, step, serving, ram, unlockedBy, sent>>
  BY <1>3 DEF NoAnswer, Received, devVars
<1>5. last <= sent /\ sent <= last + missed + 1 /\ Ordered(last, sent)
  <2>1. lock = c
    BY <1>2 DEF BridgeInv, ThreadsInv
  <2> QED BY <2>1 DEF BridgeInv, LineInv
<1>6. fromDev' \in Seq(Item) /\ Ordered(last, sent)'
  <2>1. PICK low \in Nat, high \in Nat : low = last /\ high = sent
    BY <1>1
  <2>2. Ordered(low, high)' /\ low = last' /\ high = sent'
    BY <1>1, <1>2, <1>4, <1>5, <2>1, ReadersKeep
  <2>3. fromDev' \in Seq(Item)
    BY <1>1, <1>2, Readers
  <2> QED BY <2>2, <2>3 DEF Ordered
<1>7. item = Rest => missed > 0
  <2> SUFFICES ASSUME item = Rest PROVE missed > 0
    OBVIOUS
  <2>1. fromDev # << >> /\ Head(fromDev).part = "rest"
    BY <1>3 DEF Misread, NextIs
  <2>2. 1 \in DOMAIN fromDev /\ fromDev[1].part = "rest"
    BY <1>1, <2>1, EmptySeq
  <2> QED BY <2>2 DEF BridgeInv, LineInv
<1>8. /\ last' \in Nat /\ missed' \in Nat /\ acked' \in Nat /\ item \in Item
      /\ last' <= sent /\ sent <= last' + missed' /\ missed <= missed'
      /\ item.part # "frame" /\ (item.part = "rest" => missed' > 1)
      /\ missed' > 0
  BY <1>1, <1>3, <1>4, <1>5, <1>7
<1>9. acked' <= sent /\ (acked' # 0 => LockedSince(acked)')
  BY <1>4 DEF BridgeInv, LocksInv, LockedSince, IsLocked
<1> QED BY <1>2, <1>3, <1>4, <1>6, <1>8, <1>9, ReceivedStep

--------------------------------------------------------------------------------
(***************************************************************************)
(* The end of the bridge, and the theorems                                 *)
(***************************************************************************)

LEMMA ShutdownStep ==
    ASSUME BridgeInv, Shutdown
    PROVE  BridgeInv'
<1>1. /\ UNCHANGED <<lineVars, devVars, clientVars, threadVars, lock, sent, history>>
      /\ main' \in {"closing", "unlinking"} /\ port' \in BOOLEAN /\ running' \in BOOLEAN
      /\ main' = "unlinking" => ~port'
      /\ main # "exited"
  <2>1. port \in BOOLEAN /\ running \in BOOLEAN
    BY DEF BridgeInv, BridgeTypeOK
  <2>2. CASE main = "accept" /\ main' = "closing" /\ running' = FALSE /\ UNCHANGED port
    BY <2>1, <2>2 DEF Shutdown
  <2>3. CASE main = "closing" /\ main' = "unlinking" /\ port' = FALSE /\ UNCHANGED running
    BY <2>1, <2>3 DEF Shutdown
  <2> QED BY <2>2, <2>3 DEF Shutdown
<1>2. BridgeTypeOK'
  BY <1>1 DEF BridgeInv, BridgeTypeOK, KeyTypeOK, threadVars, clientVars, history, lineVars,
     devVars
<1>3. ThreadsInv' /\ AnswersMatch'
  BY <1>1 DEF BridgeInv, ThreadsInv, AnswersMatch, threadVars, history
<1>4. KeyInv' /\ LineInv' /\ HolderInv' /\ LocksInv'
  BY <1>1, <1>2, LineAlone DEF threadVars
<1> QED BY <1>2, <1>3, <1>4 DEF BridgeInv

LEMMA ExitStep ==
    ASSUME BridgeInv, Exit
    PROVE  BridgeInv'
<1>1. /\ UNCHANGED <<lineVars, devVars, left, running, port, sent, history>>
      /\ main' = "exited" /\ lock' = NoClient /\ ~port
      /\ pc' = [c \in Clients |-> "closed"] /\ stream' = [c \in Clients |-> << >>]
      /\ owes' = [c \in Clients |-> "gone"] /\ asked' = [c \in Clients |-> Nothing]
      /\ got' = [c \in Clients |-> Text] /\ told' = [c \in Clients |-> "failure"]
  BY DEF Exit, BridgeInv, ThreadsInv
<1>2. /\ "closed" \in Places /\ << >> \in Seq(Piece) /\ "failure" \in Replies /\ Text \in Item
      /\ Nothing \in [id : Nat, kind : AgentKinds] /\ Nothing.id = 0
  BY EmptySeq DEF Places, Replies, AnswerTypes, Text, Item, Nothing, AgentKinds
<1>3. BridgeTypeOK'
  BY <1>1, <1>2 DEF BridgeInv, BridgeTypeOK, KeyTypeOK, lineVars, devVars, history
<1>4. KeyInv'
  BY <1>1, KeyInvHost DEF BridgeInv, KeyInv, KeyTypeOK, lineVars
<1>5. ThreadsInv'
  BY <1>1, <1>2, NoClientAssumption DEF ThreadsInv
<1>6. LineInv'
  <2>1. /\ sent \in Nat /\ last \in Nat /\ missed \in Nat
        /\ last <= sent /\ sent <= (last + missed) + 1
    BY DEF BridgeInv, LineInv, BridgeTypeOK
  <2>2. Ordered(last, sent)'
    BY <1>1 DEF BridgeInv, LineInv, Ordered, lineVars, devVars, history
  <2> QED BY <1>1, <2>1, <2>2 DEF BridgeInv, LineInv, lineVars, history
<1>7. HolderInv' /\ AnswersMatch'
  BY <1>1, NoClientAssumption DEF HolderInv, AnswersMatch
<1>8. LocksInv'
  BY <1>1 DEF BridgeInv, LocksInv, LockedSince, IsLocked, lineVars, devVars, history
<1> QED BY <1>3, <1>4, <1>5, <1>6, <1>7, <1>8 DEF BridgeInv

LEMMA BridgeInit ==
    ASSUME Init
    PROVE  BridgeInv
<1>1. KeyInv /\ step = 0 /\ toDev = << >> /\ fromDev = << >>
  BY KeyInvInit DEF Init, DeviceInit
<1>2. /\ pc = [c \in Clients |-> "none"] /\ stream = [c \in Clients |-> << >>]
      /\ owes = [c \in Clients |-> "nothing"] /\ asked = [c \in Clients |-> Nothing]
      /\ got = [c \in Clients |-> Text] /\ told = [c \in Clients |-> "failure"]
      /\ lock = NoClient /\ running = TRUE /\ port = TRUE /\ main = "accept"
      /\ sent = 0 /\ left = MaxRequests /\ last = 0 /\ missed = 0 /\ acked = 0
  BY DEF Init
<1>3. /\ "none" \in Places /\ << >> \in Seq(Piece) /\ "failure" \in Replies /\ Text \in Item
      /\ Nothing \in [id : Nat, kind : AgentKinds] /\ Nothing.id = 0
  BY EmptySeq DEF Places, Replies, AnswerTypes, Text, Item, Nothing, AgentKinds
<1>4. MaxRequests \in 0 .. MaxRequests
  BY ClientAssumption
<1>5. BridgeTypeOK
  BY <1>1, <1>2, <1>3, <1>4 DEF BridgeTypeOK, KeyInv
<1>6. ThreadsInv
  BY <1>2, <1>3, NoClientAssumption DEF ThreadsInv
<1>7. DOMAIN toDev = {} /\ DOMAIN fromDev = {}
  BY <1>1
<1>8. LineInv
  BY <1>1, <1>2, <1>7, NoClientAssumption DEF LineInv, Ordered
<1>9. HolderInv /\ AnswersMatch /\ LocksInv
  BY <1>2, NoClientAssumption DEF HolderInv, AnswersMatch, LocksInv
<1> QED BY <1>1, <1>5, <1>6, <1>8, <1>9 DEF BridgeInv

LEMMA BridgeNext ==
    ASSUME BridgeInv, [Next]_vars
    PROVE  BridgeInv'
<1>1. CASE UNCHANGED vars
  <2>1. UNCHANGED <<lineVars, devVars, bridgeVars>>
    BY <1>1 DEF vars
  <2>2. BridgeTypeOK'
    BY <2>1 DEF BridgeInv, BridgeTypeOK, KeyTypeOK, bridgeVars, history, lineVars, devVars
  <2>3. ThreadsInv' /\ AnswersMatch'
    BY <2>1 DEF BridgeInv, ThreadsInv, AnswersMatch, bridgeVars, history
  <2>4. KeyInv' /\ LineInv' /\ HolderInv' /\ LocksInv'
    BY <2>1, <2>2, LineAlone DEF bridgeVars
  <2> QED BY <2>2, <2>3, <2>4 DEF BridgeInv
<1>2. ASSUME NEW c \in Clients, ClientStep(c) \/ AcceptClient(c) \/ ThreadStep(c)
      PROVE  BridgeInv'
  BY <1>2, ClientSteps, SocketSteps, SendStep, SkipStep, TakeStep, MissSteps DEF ThreadStep
<1> QED BY <1>1, <1>2, DeviceSteps, ShutdownStep, ExitStep DEF Next

LEMMA BridgeInvariant == Spec => []BridgeInv
<1>1. Init => BridgeInv
  BY BridgeInit
<1>2. BridgeInv /\ [Next]_vars => BridgeInv'
  BY BridgeNext
<1> QED BY <1>1, <1>2, PTL DEF Spec

(* The bridge, its clients and the device only reach states of their types. *)
THEOREM BridgeTypeCorrect == Spec => []BridgeTypeOK
<1>1. BridgeInv => BridgeTypeOK
  BY DEF BridgeInv
<1> QED BY <1>1, BridgeInvariant, PTL

(* An answer is late by as many requests as there were exchanges that took   *)
(* no answer of their own, never more, and none is early: with deadlines that *)
(* pass, answers cut in two, oversized packets answered twice and restarts   *)
(* of the device, for every number of clients and requests.                 *)
THEOREM BridgeAnswersMatch == Spec => []AnswersMatch
<1>1. BridgeInv => AnswersMatch
  BY DEF BridgeInv
<1> QED BY <1>1, BridgeInvariant, PTL

(* After a lock that its own answer acknowledged, only a request sent later  *)
(* unlocks the key: no request sent before, no restart of the device and no  *)
(* generation does, and nothing that it reads out of step.                  *)
THEOREM BridgeLockHolds == Spec => []LockHolds
<1>1. BridgeInv => LockHolds
  BY DEF BridgeInv, LocksInv, LockedSince, LockHolds
<1> QED BY <1>1, BridgeInvariant, PTL
================================================================================
