----------------------------- MODULE KeyToolProofs -----------------------------
(***************************************************************************)
(* What the key tool and the device keep true together, for all passwords, *)
(* numbers of keys, of restarts and of runs.                               *)
(***************************************************************************)
EXTENDS KeyTool, KeyDeviceProofs

ToolInv == ToolTypeOK /\ KeyInv

LEMMA ToolInit ==
    ASSUME Init
    PROVE  ToolInv
<1>1. KeyInv /\ Text \in Item /\ 0 \in 0 .. MaxKeys
  BY KeyInvInit, KeyNumbers DEF Init, Text, Item, AnswerTypes
<1>2. /\ at = "off" /\ op = "pubkey" /\ secret = NoPassword /\ result = "none"
      /\ taken = Text /\ runs = 0 /\ before = 0 /\ quiet = FALSE /\ restarted = FALSE
  BY DEF Init
<1>3. 0 \in 0 .. MaxRuns
  BY RunsAssumption
<1> QED BY <1>1, <1>2, <1>3 DEF ToolInv, ToolTypeOK, KeyInv, Operations

(* What the tool sends is a request.                                        *)
LEMMA SendType ==
    ASSUME ToolTypeOK, Send
    PROVE  toDev' \in Seq(Request)
<1>1. CASE UNCHANGED toDev
  BY <1>1 DEF ToolTypeOK, KeyTypeOK
<1>2. CASE /\ op # "generateplain"
           /\ toDev' = Append(toDev, [id |-> runs, kind |-> op, pw |-> secret, key |-> 0])
  <2>1. runs \in Nat /\ op \in Kinds /\ secret \in Passwords \cup {NoPassword}
    BY <1>2, RunsAssumption DEF ToolTypeOK, Operations, Kinds
  <2>2. [id |-> runs, kind |-> op, pw |-> secret, key |-> 0] \in Request
    BY <2>1 DEF Request
  <2> QED BY <1>2, <2>2, AppendProperties DEF ToolTypeOK, KeyTypeOK
<1> QED BY <1>1, <1>2 DEF Send

(* The end of a run, and every step of the tool that reads the line.        *)
LEMMA ReadType ==
    ASSUME ToolTypeOK,
           SkipText \/ TakeAnswer \/ MisreadRest \/ GiveUp \/ ReadLine \/ StopListening
             \/ PortFails
    PROVE  /\ fromDev' \in Seq(Item) /\ taken' \in Item
           /\ at' \in {at, "done"} /\ result' \in {result, "ok", "fail"}
           /\ UNCHANGED <<toDev, devVars, op, secret, runs, before, quiet, restarted>>
<1>1. fromDev \in Seq(Item) /\ taken \in Item /\ Text \in Item /\ Rest \in Item
  BY DEF ToolTypeOK, KeyTypeOK, Text, Rest, Item, AnswerTypes
<1>2. CASE SkipText
  BY <1>1, <1>2, ReadersType DEF SkipText, toolVars
<1>3. CASE TakeAnswer
  <2>1. fromDev # << >> /\ Head(fromDev) \in Item
    BY <1>1, <1>3, HeadTailProperties DEF TakeAnswer, Take, NextIs
  <2> QED BY <1>1, <1>3, <2>1, ReadersType DEF TakeAnswer, Finish
<1>4. CASE MisreadRest
  BY <1>1, <1>4, ReadersType DEF MisreadRest, Finish
<1>5. CASE GiveUp
  BY <1>1, <1>5, ReadersType DEF GiveUp, Finish
<1>6. CASE ReadLine
  BY <1>1, <1>6, HeadTailProperties DEF ReadLine, toolVars
<1>7. CASE StopListening \/ PortFails
  BY <1>1, <1>7 DEF StopListening, PortFails, Finish
<1> QED BY <1>2, <1>3, <1>4, <1>5, <1>6, <1>7

LEMMA StartStep ==
    ASSUME ToolInv, NEW o \in Operations, NEW pw \in Passwords \cup {NoPassword}, Start(o, pw)
    PROVE  ToolInv'
<1>1. <<Rest>> \in Seq(Item) /\ << >> \in Seq(Item)
  BY EmptySeq DEF Rest, Item, AnswerTypes
<1>2. toDev' \in Seq(Request) /\ fromDev' \in Seq(Item) /\ UNCHANGED devVars
  BY <1>1 DEF ToolInv, KeyInv, KeyTypeOK, Start
<1>3. KeyInv'
  BY <1>2, KeyInvHost DEF ToolInv
<1>4. runs' \in 0 .. MaxRuns /\ before' \in 0 .. MaxKeys
  BY RunsAssumption DEF ToolInv, ToolTypeOK, KeyTypeOK, Start
<1>5. /\ at' \in {"opened", "done"} /\ op' = o /\ secret' = pw
      /\ result' \in {result, "fail"} /\ UNCHANGED <<taken, quiet, restarted>>
  BY DEF Start
<1> QED BY <1>3, <1>4, <1>5 DEF ToolInv, ToolTypeOK, KeyInv

LEMMA ToolSteps ==
    ASSUME ToolInv, ToolStep \/ PortFails
    PROVE  ToolInv'
<1>1. CASE Send
  <2>1. KeyInv'
    BY <1>1, SendType, KeyInvHost DEF ToolInv, KeyInv, KeyTypeOK, Send
  <2>2. quiet' \in BOOLEAN /\ at' \in {"listening", "answer"}
    BY <1>1 DEF Send
  <2> QED BY <1>1, <2>1, <2>2 DEF ToolInv, ToolTypeOK, KeyInv, Send
<1>2. CASE SkipText \/ TakeAnswer \/ MisreadRest \/ GiveUp \/ ReadLine \/ StopListening
             \/ PortFails
  <2>1. /\ fromDev' \in Seq(Item) /\ taken' \in Item
        /\ at' \in {at, "done"} /\ result' \in {result, "ok", "fail"}
        /\ UNCHANGED <<toDev, devVars, op, secret, runs, before, quiet, restarted>>
    BY <1>2, ReadType DEF ToolInv
  <2>2. KeyInv'
    BY <2>1, KeyInvHost DEF ToolInv, KeyInv, KeyTypeOK
  <2> QED BY <2>1, <2>2 DEF ToolInv, ToolTypeOK, KeyInv
<1>3. CASE Exit
  <2>1. KeyInv'
    BY <1>3, KeyInvHost DEF ToolInv, KeyInv, KeyTypeOK, Exit, lineVars
  <2>2. Text \in Item
    BY DEF Text, Item, AnswerTypes
  <2>3. /\ at' = "off" /\ op' = "pubkey" /\ secret' = NoPassword /\ result' = "none"
        /\ taken' = Text /\ quiet' = FALSE /\ restarted' = FALSE
        /\ UNCHANGED <<runs, before>>
    BY <1>3 DEF Exit
  <2> QED BY <2>1, <2>2, <2>3 DEF ToolInv, ToolTypeOK, KeyInv, Operations
<1> QED BY <1>1, <1>2, <1>3 DEF ToolStep

LEMMA ToolNext ==
    ASSUME ToolInv, [Next]_vars
    PROVE  ToolInv'
<1>1. CASE UNCHANGED vars
  BY <1>1 DEF vars, lineVars, devVars, toolVars, ToolInv, ToolTypeOK, KeyInv, KeyTypeOK,
              WritesInOrder, RecordWhole, MemoryWhole, HasParts, IsLocked
<1>2. CASE DeviceNext /\ UNCHANGED <<at, op, secret, result, taken, runs, before, quiet>>
           /\ restarted' \in BOOLEAN
  <2>1. KeyInv'
    BY <1>2, KeyInvSteps DEF ToolInv
  <2> QED BY <1>2, <2>1 DEF ToolInv, ToolTypeOK, KeyInv
<1>3. ASSUME (DeviceStep /\ UNCHANGED toolVars)
             \/ (Reset /\ restarted' = (at \in {"answer", "done"})
                 /\ UNCHANGED <<at, op, secret, result, taken, runs, before, quiet>>)
      PROVE  ToolInv'
  <2>1. CASE DeviceStep /\ UNCHANGED toolVars
    BY <1>2, <2>1 DEF DeviceNext, toolVars, ToolInv, ToolTypeOK
  <2>2. CASE Reset /\ restarted' = (at \in {"answer", "done"})
             /\ UNCHANGED <<at, op, secret, result, taken, runs, before, quiet>>
    <3>1. restarted' \in BOOLEAN
      BY <2>2
    <3> QED BY <1>2, <2>2, <3>1 DEF DeviceNext
  <2> QED BY <1>3, <2>1, <2>2
<1> QED BY <1>1, <1>3, StartStep, ToolSteps DEF Next

--------------------------------------------------------------------------------
(***************************************************************************)
(* The exchange of one run of the tool                                     *)
(***************************************************************************)

(* What an answer of the given type, with the given key, says of the device. *)
Effect(type, key) ==
    /\ op = "generate" /\ type = "success" => before < keys /\ Stored(keys, secret)
    /\ op = "lock" /\ type = "success" => restarted \/ IsLocked
    /\ op = "unlock" /\ type = "success" => restarted \/ ram.unlocked
    /\ op = "pubkey" /\ type = "pubkey" => restarted \/ key = ram.pub
    /\ op = "sign" /\ type = "signature" =>
         restarted \/ ~(spoiled \subseteq {"failed"}) \/ key = ram.pub
    /\ op = "unlock" /\ ~restarted =>
         /\ /\ untried # runs /\ spoiled \cap {"torn", "failed"} = {}
            /\ nvs.enc /\ secret = pwOf[nvs.pub]
            => type = "success"
         /\ unlockedBy = runs /\ ram.priv = ram.pub => secret = pwOf[ram.pub]

(* The numbers on the line and in the histories are numbers of runs so far.  *)
Numbered(n) == Ordered(0, n) /\ unlockedBy <= n /\ untried <= n

(* The run has sent its request: it waits in the line behind whatever the    *)
(* runs before left there, or the device works on it, or has answered it.    *)
Waiting ==
    /\ op # "generateplain"
    /\ LastOnLine(runs)
    /\ quiet => Ordered(runs, runs)
    /\ \A i \in DOMAIN toDev : toDev[i].id = runs =>
          toDev[i].kind = op /\ toDev[i].pw = secret /\ unlockedBy # runs /\ untried # runs
    /\ step # 0 /\ serving.id = runs =>
          op = "generate" /\ before < keys /\ ram.pub = keys /\ pwOf[keys] = secret
    /\ \A i \in DOMAIN fromDev : fromDev[i].part = "frame" /\ fromDev[i].id = runs =>
          Effect(fromDev[i].type, fromDev[i].key)

(* It has taken an answer for its own.                                      *)
Concluded ==
    /\ op # "generateplain"
    /\ quiet => taken.id = runs
    /\ taken.id = runs =>
         /\ toDev = << >> /\ step = 0
         /\ Effect(taken.type, taken.key)
         /\ result = "ok" <=> taken.type = Wanted(op)

RunInv ==
    /\ Numbered(runs)
    /\ at # "off" => runs > 0 /\ before <= keys
    /\ at = "opened" => Numbered(runs - 1)
    /\ at = "answer" => Waiting
    /\ at # "done" => taken = Text
    /\ at = "done" /\ taken.part = "frame" => Concluded

(* The record that the last write completes.                                *)
LEMMA AllWritten ==
    ASSUME KeyInv, step = 7
    PROVE  nvs = [pub |-> ram.pub, seed |-> ram.pub, salt |-> ram.pub, iv |-> ram.pub,
                  priv |-> 0, enc |-> TRUE]
<1>1. /\ nvs \in Parts
      /\ nvs.pub = ram.pub /\ nvs.seed = ram.pub /\ nvs.salt = ram.pub /\ nvs.iv = ram.pub
      /\ nvs.enc /\ nvs.priv = 0
  BY DEF KeyInv, KeyTypeOK, WritesInOrder
<1> QED BY <1>1 DEF Parts

(* The right password decrypts the seed of a record that is not a mixture,   *)
(* and what decrypts to the key that is shown was opened with its password.  *)
LEMMA TrueUnlock ==
    ASSUME KeyInv, step = 0, NEW pw, NEW padding
    PROVE  /\ spoiled \cap {"torn", "failed"} = {} /\ nvs.enc =>
                ram.enc /\ ram.loaded
           /\ spoiled \cap {"torn", "failed"} = {} /\ nvs.enc /\ pw = pwOf[nvs.pub] =>
                Decrypted(pw, padding) # 0
           /\ ram.loaded /\ Decrypted(pw, padding) = ram.pub => pw = pwOf[ram.pub]
<1>1. ram.pub \in 0 .. MaxKeys /\ ram.pub # Garbled
  BY KeyNumbers DEF KeyInv, KeyTypeOK, Memory, Garbled
<1>2. ASSUME spoiled \cap {"torn", "failed"} = {}, nvs.enc
      PROVE  /\ ram.enc /\ ram.loaded /\ nvs.pub = ram.pub /\ ram.pub # 0
             /\ ram.seed = ram.pub /\ ram.salt = ram.pub /\ ram.iv = ram.pub
  BY <1>2 DEF KeyInv, MemoryWhole
<1>3. ram.loaded => ram.pub # 0
  BY DEF KeyInv, MemoryWhole
<1> QED BY <1>1, <1>2, <1>3 DEF Decrypted

(* What a handler that answers adds to the line.                            *)
LEMMA Printed ==
    ASSUME KeyTypeOK, NEW r \in Request, NEW type \in AnswerTypes, NEW key \in Int,
           Answer(r, type, key) \/ (SayAndAnswer(r, type) /\ key = 0),
           NEW i \in DOMAIN fromDev', i \notin DOMAIN fromDev, fromDev'[i].part = "frame"
    PROVE  fromDev'[i].type = type /\ fromDev'[i].key = key
<1>1. PICK f \in Item : f = Frame(r, type, key)
  BY Lines
<1>2. f.type = type /\ f.key = key /\ Text.part # "frame"
  BY <1>1 DEF Frame, Text
<1>3. Prints(f)
  BY <1>1, PrintsWhat DEF KeyTypeOK, Answer, SayAndAnswer
<1> QED BY <1>2, <1>3 DEF Prints

(* The histories of the unlocking name the request that was handled.        *)
LEMMA Histories ==
    ASSUME DeviceNext
    PROVE  \/ unlockedBy' \in {unlockedBy, 0} /\ untried' \in {untried, 0}
           \/ \E r : /\ Handlers(r)
                     /\ unlockedBy' \in {unlockedBy, r.id} /\ untried' \in {untried, r.id}
<1>1. CASE \E r : HandleUnlock(r)
  BY <1>1 DEF HandleUnlock, Handlers
<1>2. CASE Reset \/ WriteNvs \/ FinishGenerate
  BY <1>2 DEF Reset, WriteNvs, FinishGenerate
<1>3. CASE \E r : HandleSign(r) \/ HandleShow(r) \/ HandleLock(r) \/ HandleUnknown(r)
                    \/ HandleHuge(r) \/ HandleFragment(r) \/ HandleGenerate(r)
  BY <1>3 DEF HandleSign, HandleShow, HandleLock, HandleUnknown, HandleHuge, HandleFragment,
              HandleGenerate, devVars
<1> QED BY <1>1, <1>2, <1>3 DEF DeviceNext, DeviceStep

(* Only a request for a key sets the device to write.                       *)
LEMMA Writing ==
    ASSUME DeviceNext, step' # 0
    PROVE  WriteNvs \/ \E r : HandleGenerate(r) /\ Handlers(r) /\ serving' = r
<1>1. CASE \E r : HandleGenerate(r)
  BY <1>1 DEF HandleGenerate, Handlers, Accept, Reads
<1>2. CASE \E r : HandleSign(r) \/ HandleShow(r) \/ HandleUnlock(r) \/ HandleLock(r)
                    \/ HandleUnknown(r) \/ HandleHuge(r) \/ HandleFragment(r)
  BY <1>2 DEF HandleSign, HandleShow, HandleUnlock, HandleLock, HandleUnknown, HandleHuge,
              HandleFragment, Accept, Reads, devVars
<1> QED BY <1>1, <1>2 DEF DeviceNext, DeviceStep, Reset, FinishGenerate

(* Keys are never taken back.                                               *)
LEMMA KeysGrow ==
    ASSUME KeyTypeOK, DeviceNext
    PROVE  keys <= keys'
<1>1. keys \in Nat
  BY KeyNumbers DEF KeyTypeOK
<1>2. CASE \E r : HandleGenerate(r)
  BY <1>1, <1>2 DEF HandleGenerate
<1>3. CASE \E r : HandleSign(r) \/ HandleShow(r) \/ HandleUnlock(r) \/ HandleLock(r)
                    \/ HandleUnknown(r) \/ HandleHuge(r) \/ HandleFragment(r)
  BY <1>1, <1>3 DEF HandleSign, HandleShow, HandleUnlock, HandleLock, HandleUnknown, HandleHuge,
                    HandleFragment, storeVars, devVars
<1> QED BY <1>1, <1>2, <1>3 DEF DeviceNext, DeviceStep, Reset, WriteNvs, FinishGenerate, storeVars

LEMMA NumberedStays ==
    ASSUME KeyTypeOK, KeyTypeOK', DeviceNext, NEW n \in Nat, Numbered(n)
    PROVE  Numbered(n)'
<1>1. Ordered(0, n) /\ unlockedBy \in Nat /\ untried \in Nat /\ 0 \in Nat
  BY DEF Numbered, KeyTypeOK
<1>2. Ordered(0, n)'
  BY <1>1, OrderedStays
<1>3. ASSUME NEW r, Handlers(r)
      PROVE  r.id <= n
  <2>1. r = toDev[1] /\ 1 \in DOMAIN toDev
    BY <1>3, HandlersTake
  <2> QED BY <1>1, <2>1 DEF Ordered
<1>4. unlockedBy' <= n /\ untried' <= n
  BY <1>1, <1>3, Histories DEF Numbered
<1> QED BY <1>2, <1>4 DEF Numbered

--------------------------------------------------------------------------------
(***************************************************************************)
(* The device answers the request of the run: what it says of its key is   *)
(* true of it.  One lemma per command.                                     *)
(***************************************************************************)

LEMMA TrueGenerate ==
    ASSUME ToolInv, Waiting, FinishGenerate, serving.id = runs, UNCHANGED toolVars,
           NEW type, NEW key
    PROVE  Effect(type, key)'
<1>1. /\ step = 7 /\ nvs' = nvs /\ pwOf' = pwOf /\ keys' = keys
      /\ op' = op /\ before' = before /\ secret' = secret
  BY DEF FinishGenerate, storeVars, toolVars
<1>2. op = "generate" /\ before < keys /\ ram.pub = keys /\ pwOf[keys] = secret
  BY <1>1 DEF Waiting
<1>3. nvs = [pub |-> ram.pub, seed |-> ram.pub, salt |-> ram.pub, iv |-> ram.pub,
             priv |-> 0, enc |-> TRUE]
  BY <1>1, AllWritten DEF ToolInv
<1>4. Stored(keys, secret)'
  BY <1>1, <1>2, <1>3 DEF Stored
<1> QED BY <1>1, <1>2, <1>4 DEF Effect

LEMMA TrueSignature ==
    ASSUME ToolInv, op = "sign", NEW r \in Request, r.kind = "sign", HandleSign(r),
           UNCHANGED toolVars, NEW i \in DOMAIN fromDev', i \notin DOMAIN fromDev,
           fromDev'[i].part = "frame"
    PROVE  (Effect(fromDev[i].type, fromDev[i].key))'
<1>1. /\ KeyTypeOK /\ step = 0 /\ ram.priv \in Int /\ 0 \in Int
      /\ {"failure", "locked", "signature"} \subseteq AnswerTypes
      /\ op' = op /\ restarted' = restarted /\ ram' = ram /\ spoiled' = spoiled
  BY BoundAssumption DEF ToolInv, KeyInv, KeyTypeOK, Memory, Garbled, AnswerTypes, HandleSign,
     Accept, Reads, devVars, toolVars
<1>2. PICK t \in AnswerTypes, k \in Int : t = SignOutcome(r)[1] /\ k = SignOutcome(r)[2]
  BY <1>1 DEF SignOutcome
<1>3. fromDev'[i].type = t /\ fromDev'[i].key = k
  BY <1>1, <1>2, Printed DEF HandleSign
<1>4. t = "signature" => ram.loaded /\ ~IsLocked /\ k = ram.priv
  BY <1>2 DEF SignOutcome
<1>5. t = "signature" /\ spoiled \subseteq {"failed"} => k = ram.pub
  BY <1>1, <1>4 DEF ToolInv, KeyInv, MemoryWhole, IsLocked
<1> QED BY <1>1, <1>3, <1>5 DEF Effect

LEMMA TrueKey ==
    ASSUME ToolInv, op = "pubkey", NEW r \in Request, r.kind = "pubkey", HandleShow(r),
           UNCHANGED toolVars, NEW i \in DOMAIN fromDev', i \notin DOMAIN fromDev,
           fromDev'[i].part = "frame"
    PROVE  (Effect(fromDev[i].type, fromDev[i].key))'
<1>1. /\ KeyTypeOK /\ ram.pub \in Int /\ 0 \in Int
      /\ {"failure", "pubkey"} \subseteq AnswerTypes
      /\ op' = op /\ restarted' = restarted /\ ram' = ram
  BY KeyNumbers DEF ToolInv, KeyInv, KeyTypeOK, Memory, AnswerTypes, HandleShow, devVars,
     toolVars
<1>2. \/ fromDev'[i].type = "pubkey" /\ fromDev'[i].key = ram.pub
      \/ fromDev'[i].type = "failure"
  BY <1>1, Printed DEF HandleShow
<1> QED BY <1>1, <1>2 DEF Effect

LEMMA TrueLock ==
    ASSUME ToolInv, op = "lock", NEW r \in Request, HandleLock(r),
           UNCHANGED toolVars, NEW i \in DOMAIN fromDev', i \notin DOMAIN fromDev,
           fromDev'[i].part = "frame"
    PROVE  (Effect(fromDev[i].type, fromDev[i].key))'
<1>1. fromDev'[i].type = "failure" \/ (fromDev'[i].type = "success" /\ IsLocked')
  BY LockPrints DEF ToolInv, KeyInv
<1> QED BY <1>1 DEF Effect, toolVars

LEMMA TrueUnlocking ==
    ASSUME ToolInv, op = "unlock", NEW r \in Request, r.id = runs, r.pw = secret,
           unlockedBy # runs, untried # runs, HandleUnlock(r),
           UNCHANGED toolVars, NEW i \in DOMAIN fromDev', i \notin DOMAIN fromDev,
           fromDev'[i].part = "frame"
    PROVE  (Effect(fromDev[i].type, fromDev[i].key))'
<1>1. /\ KeyInv /\ KeyTypeOK /\ step = 0 /\ ram \in Memory /\ 0 \in Int
      /\ {"failure", "success"} \subseteq AnswerTypes
      /\ op' = op /\ restarted' = restarted /\ runs' = runs /\ secret' = secret
      /\ nvs' = nvs /\ pwOf' = pwOf
  BY DEF ToolInv, KeyInv, KeyTypeOK, AnswerTypes, HandleUnlock, Accept, Reads, storeVars, toolVars
<1>2. CASE /\ ~ram.loaded \/ ~ram.enc
           /\ Answer(r, "failure", 0)
           /\ UNCHANGED <<ram, spoiled, unlockedBy, untried>>
  <2>1. fromDev'[i].type = "failure"
    BY <1>1, <1>2, Printed
  <2>2. ~(spoiled \cap {"torn", "failed"} = {} /\ nvs.enc)
    BY <1>1, <1>2, TrueUnlock
  <2> QED BY <1>1, <1>2, <2>1, <2>2 DEF Effect
<1>3. CASE /\ ram.loaded /\ ram.enc /\ ram.unlocked
           /\ Answer(r, "success", 0)
           /\ UNCHANGED <<ram, spoiled, unlockedBy, untried>>
  <2>1. fromDev'[i].type = "success"
    BY <1>1, <1>3, Printed
  <2> QED BY <1>1, <1>3, <2>1 DEF Effect
<1>4. CASE /\ \/ Answer(r, "failure", 0) /\ UNCHANGED ram
              \/ SayAndAnswer(r, "failure") /\ ram' = [ram EXCEPT !.priv = 0]
           /\ untried' = r.id
           /\ UNCHANGED <<spoiled, unlockedBy>>
  <2>1. fromDev'[i].type = "failure"
    BY <1>1, <1>4, Printed
  <2> QED BY <1>1, <1>4, <2>1 DEF Effect
<1>5. ASSUME ram.loaded, NEW padding \in {"bad", "short"},
             LET seed == Decrypted(r.pw, padding)
             IN  /\ ram' = [ram EXCEPT !.priv = seed, !.unlocked = (seed # 0)]
                 /\ SayAndAnswer(r, IF seed # 0 THEN "success" ELSE "failure")
                 /\ spoiled' = IF padding = "short" /\ seed = Garbled
                               THEN spoiled \cup {"padding"} ELSE spoiled
                 /\ unlockedBy' = IF seed # 0 THEN r.id ELSE unlockedBy
      PROVE  (Effect(fromDev[i].type, fromDev[i].key))'
  <2>1. PICK seed : seed = Decrypted(secret, padding)
    OBVIOUS
  <2>2. /\ ram'.priv = seed /\ ram'.unlocked = (seed # 0) /\ ram'.pub = ram.pub
        /\ spoiled' \cap {"torn", "failed"} = {} => spoiled \cap {"torn", "failed"} = {}
        /\ unlockedBy' = runs => seed # 0
    BY <1>1, <1>5, <2>1 DEF Memory
  <2>3. fromDev'[i].type = IF seed # 0 THEN "success" ELSE "failure"
    BY <1>1, <1>5, <2>1, Printed
  <2>4. spoiled \cap {"torn", "failed"} = {} /\ nvs.enc /\ secret = pwOf[nvs.pub] => seed # 0
    BY <1>1, <2>1, TrueUnlock
  <2>5. seed = ram.pub => secret = pwOf[ram.pub]
    BY <1>1, <1>5, <2>1, TrueUnlock
  <2> QED BY <1>1, <2>2, <2>3, <2>4, <2>5 DEF Effect
<1> QED BY <1>2, <1>3, <1>4, <1>5 DEF HandleUnlock

--------------------------------------------------------------------------------
(* No command of the device is a restart.                                   *)
LEMMA NoRestart ==
    ASSUME KeyTypeOK, DeviceStep
    PROVE  ~Reset
<1>1. resets' = resets
  BY DEF DeviceStep, HandleSign, HandleShow, HandleUnlock, HandleLock, HandleUnknown,
         HandleHuge, HandleFragment, HandleGenerate, WriteNvs, FinishGenerate, devVars
<1>2. resets \in Nat
  BY BoundAssumption DEF KeyTypeOK
<1> QED BY <1>1, <1>2 DEF Reset

(* A step of the device, or a restart, while the tool waits.                *)
LEMMA WaitingStays ==
    ASSUME ToolInv, KeyInv', Waiting, runs > 0, before <= keys,
           DeviceNext, UNCHANGED <<at, op, secret, result, taken, runs, before, quiet>>,
           DeviceStep => UNCHANGED toolVars, Reset => restarted' = TRUE
    PROVE  Waiting'
<1>1. /\ KeyTypeOK /\ KeyTypeOK' /\ runs \in Nat /\ before \in Nat /\ keys \in Nat
      /\ toDev \in Seq(Request) /\ toDev' \in Seq(Request) /\ fromDev \in Seq(Item)
      /\ op \in Operations
  BY RunsAssumption, KeyNumbers DEF ToolInv, ToolTypeOK, KeyInv, KeyTypeOK
<1>0. PICK id \in Nat : id = runs
  BY <1>1
<1>2. LastOnLine(id) /\ LastOnLine(id)'
  BY <1>0, <1>1, LastStays DEF Waiting
<1>3. quiet' => Ordered(runs, runs)'
  <2>1. quiet => Ordered(id, id)'
    BY <1>0, <1>1, OrderedStays DEF Waiting
  <2> QED BY <1>0, <2>1 DEF Ordered
<1>4. ASSUME NEW r, Handlers(r), r.id = runs
      PROVE  /\ r.kind = op /\ r.pw = secret /\ r \in Request
             /\ unlockedBy # runs /\ untried # runs
             /\ r.kind \notin {"huge", "fragment"} /\ Len(toDev) = 1
  <2>1. r = toDev[1] /\ 1 \in DOMAIN toDev /\ r \in Request
    BY <1>1, <1>4, HandlersTake
  <2> QED BY <1>0, <1>2, <1>4, <2>1 DEF Waiting, LastOnLine
(* The requests that are left.                                              *)
<1>5. ASSUME NEW i \in DOMAIN toDev', toDev'[i].id = runs
      PROVE  /\ toDev'[i].kind = op /\ toDev'[i].pw = secret
             /\ unlockedBy' # runs /\ untried' # runs
  <2>1. \E j \in DOMAIN toDev : toDev'[i] = toDev[j]
    <3>1. CASE UNCHANGED toDev
      BY <3>1
    <3>2. CASE \E r : \E n, k \in Nat : Handles(r, n, k)
      <4>1. PICK r : \E n, k \in Nat : Handles(r, n, k)
        BY <3>2
      <4>2. PICK n \in Nat, k \in Nat : Handles(r, n, k)
        BY <4>1
      <4>3. CASE i > n
        BY <4>2, <4>3 DEF Handles
      <4>4. CASE ~(i > n)
        <5>1. r.id = runs /\ r = toDev[1] /\ 1 \in DOMAIN toDev /\ i <= n /\ i \in Nat /\ i # 0
          <6>1. 1 \in DOMAIN toDev
            BY <1>1, <4>2, EmptySeq DEF Handles
          <6>2. i \in 1 .. Len(toDev') /\ Len(toDev') \in Nat
            BY <1>1
          <6> QED BY <1>5, <4>2, <4>4, <6>1, <6>2 DEF Handles
        <5>2. r.kind \in {"huge", "fragment"}
          BY <4>2, <5>1 DEF Handles
        <5> QED BY <1>0, <1>2, <5>1, <5>2 DEF LastOnLine
      <4> QED BY <4>3, <4>4
    <3> QED BY <1>1, <3>1, <3>2, DeviceLine
  <2>2. PICK j \in DOMAIN toDev : toDev'[i] = toDev[j]
    BY <2>1
  <2>3. /\ toDev[j].kind = op /\ toDev[j].pw = secret /\ unlockedBy # runs /\ untried # runs
    BY <1>5, <2>2 DEF Waiting
  <2>4. ASSUME NEW r, Handlers(r)
        PROVE  r.id # runs
    <3> SUFFICES ASSUME r.id = runs PROVE FALSE
      OBVIOUS
    <3>1. Len(toDev) = 1 /\ r.kind \notin {"huge", "fragment"}
      BY <1>4, <2>4
    <3>2. toDev' = Tail(toDev)
      BY <2>4, <3>1 DEF Handlers, HandleSign, HandleShow, HandleUnlock, HandleLock, HandleUnknown,
         HandleHuge, HandleFragment, HandleGenerate, Accept, Reads
    <3>3. toDev' = << >>
      BY <1>1, <3>1, <3>2
    <3> QED BY <3>3
  <2>5. unlockedBy' # runs /\ untried' # runs
    BY <1>1, <2>3, <2>4, Histories
  <2> QED BY <2>2, <2>3, <2>5
(* The generation that is under way.                                        *)
<1>6. ASSUME step' # 0, serving'.id = runs
      PROVE  op = "generate" /\ before < keys' /\ ram'.pub = keys' /\ pwOf'[keys'] = secret
  <2>1. CASE WriteNvs
    BY <1>6, <2>1 DEF WriteNvs, Waiting
  <2>2. CASE \E r : HandleGenerate(r) /\ Handlers(r) /\ serving' = r
    <3>1. PICK r : HandleGenerate(r) /\ Handlers(r) /\ serving' = r
      BY <2>2
    <3>2. r.kind = op /\ r.pw = secret /\ r.kind = "generate"
      BY <1>4, <1>6, <3>1 DEF HandleGenerate, Accept, Reads
    <3>3. /\ ram' = [NewPair EXCEPT !.seed = keys + 1]
          /\ pwOf' = [pwOf EXCEPT ![keys + 1] = r.pw]
          /\ keys' = keys + 1 /\ keys < MaxKeys
      BY <1>6, <3>1 DEF HandleGenerate, Accept, Reads
    <3>4. keys + 1 \in Keys /\ pwOf \in [Keys -> Passwords \cup {NoPassword}]
      BY <1>1, <3>3, KeyNumbers DEF Keys, KeyTypeOK
    <3>5. ram'.pub = keys + 1
      BY <1>1, <3>3 DEF NewPair, Memory, KeyTypeOK
    <3>6. before < keys + 1
      BY <1>1
    <3> QED BY <3>2, <3>3, <3>4, <3>5, <3>6
  <2> QED BY <1>6, <2>1, <2>2, Writing
(* The answers.                                                             *)
<1>7. ASSUME NEW i \in DOMAIN fromDev', fromDev'[i].part = "frame", fromDev'[i].id = runs
      PROVE  (Effect(fromDev[i].type, fromDev[i].key))'
  <2>1. CASE Reset /\ i \in DOMAIN fromDev /\ fromDev'[i] = fromDev[i]
    <3>1. Effect(fromDev[i].type, fromDev[i].key)
      BY <1>7, <2>1 DEF Waiting
    <3>2. UNCHANGED <<nvs, pwOf, keys>> /\ restarted' = TRUE
      BY <2>1 DEF Reset, storeVars
    <3> QED BY <2>1, <3>1, <3>2 DEF Effect, Stored
  <2>2. CASE FinishGenerate /\ serving.id = id
    <3>1. UNCHANGED toolVars
      BY <2>2 DEF DeviceStep
    <3> QED BY <1>0, <2>2, <3>1, TrueGenerate
  <2>3. ASSUME NEW r, Handlers(r), r.id = id, i \notin DOMAIN fromDev
        PROVE  (Effect(fromDev[i].type, fromDev[i].key))'
    <3>1. /\ r.kind = op /\ r.pw = secret /\ r \in Request
          /\ unlockedBy # runs /\ untried # runs
      BY <1>0, <1>4, <2>3
    <3>2. DeviceStep
      <4>1. r \in SeqRange(toDev)
        BY <1>1, <2>3, HandlersTake DEF SeqRange
      <4> QED BY <2>3, <4>1 DEF DeviceStep, Handlers
    <3>3. UNCHANGED toolVars
      BY <3>2
    <3>4. CASE op = "sign"
      BY <1>1, <1>7, <2>3, <3>1, <3>3, <3>4, TrueSignature, HandlersTake
    <3>5. CASE op = "pubkey"
      <4>1. HandleShow(r)
        BY <2>3, <3>1, <3>5 DEF Handlers, HandleSign, HandleShow, HandleUnlock, HandleLock,
           HandleUnknown, HandleHuge, HandleFragment, HandleGenerate, Accept, Reads
      <4> QED BY <1>1, <1>7, <2>3, <3>1, <3>3, <3>5, <4>1, TrueKey
    <3>6. CASE op = "lock"
      BY <1>1, <1>7, <2>3, <3>1, <3>3, <3>6, TrueLock, HandlersTake
    <3>7. CASE op = "unlock"
      BY <1>0, <1>1, <1>7, <2>3, <3>1, <3>3, <3>7, TrueUnlocking, HandlersTake
    <3>8. CASE op = "generate"
      <4>1. HandleGenerate(r)
        BY <1>1, <2>3, <3>1, <3>8, HandlersTake
      <4>2. 0 \in Int /\ "failure" \in AnswerTypes
        BY DEF AnswerTypes
      <4>3. fromDev'[i].type = "failure"
        <5>1. ~UNCHANGED fromDev
          BY <1>7, <2>3
        <5> QED BY <1>1, <1>7, <2>3, <3>1, <4>1, <4>2, <5>1, Printed DEF HandleGenerate
      <4> QED BY <3>8, <4>3 DEF Effect
    <3>9. op # "generateplain"
      BY DEF Waiting
    <3> QED BY <1>1, <3>4, <3>5, <3>6, <3>7, <3>8, <3>9 DEF Operations
  <2> QED BY <1>0, <1>1, <1>2, <1>7, <2>1, <2>2, <2>3, OwnFrame
<1>8. LastOnLine(runs)'
  BY <1>0, <1>2 DEF LastOnLine
<1> QED BY <1>3, <1>5, <1>6, <1>7, <1>8 DEF Waiting

(* After the answer was taken, only a restart can still change something.   *)
LEMMA ConcludedStays ==
    ASSUME ToolInv, Concluded, DeviceNext,
           UNCHANGED <<at, op, secret, result, taken, runs, before, quiet>>,
           Reset => restarted' = TRUE
    PROVE  Concluded'
<1> SUFFICES ASSUME taken.id = runs
             PROVE  /\ toDev' = << >> /\ step' = 0
                    /\ (Effect(taken.type, taken.key))'
                    /\ result' = "ok" <=> taken'.type = Wanted(op')
  BY DEF Concluded
<1>1. /\ toDev = << >> /\ step = 0 /\ Effect(taken.type, taken.key)
      /\ result = "ok" <=> taken.type = Wanted(op)
  BY DEF Concluded
<1>2. Reset
  BY <1>1 DEF DeviceNext, DeviceStep, SeqRange, WriteNvs, FinishGenerate
<1>3. toDev' = << >> /\ step' = 0 /\ UNCHANGED <<nvs, pwOf, keys>> /\ restarted' = TRUE
  BY <1>2 DEF Reset, storeVars
<1>4. (Effect(taken.type, taken.key))'
  BY <1>1, <1>3 DEF Effect, Stored
<1> QED BY <1>1, <1>3, <1>4 DEF Wanted

LEMMA DeviceRun ==
    ASSUME ToolInv, ToolInv', RunInv,
           \/ DeviceStep /\ UNCHANGED toolVars
           \/ Reset /\ restarted' = (at \in {"answer", "done"})
              /\ UNCHANGED <<at, op, secret, result, taken, runs, before, quiet>>
    PROVE  RunInv'
<1>1. /\ UNCHANGED <<at, op, secret, result, taken, runs, before, quiet>>
      /\ KeyInv /\ KeyInv' /\ ToolTypeOK /\ KeyTypeOK /\ KeyTypeOK' /\ DeviceNext
      /\ runs \in Nat /\ before \in Nat /\ keys \in Nat /\ keys' \in Nat
  BY RunsAssumption, KeyNumbers DEF toolVars, ToolInv, ToolTypeOK, KeyInv, KeyTypeOK, DeviceNext
<1>2. PICK n \in Nat : n = runs
  BY <1>1
<1>3. Numbered(runs)'
  BY <1>1, <1>2, NumberedStays DEF RunInv, Numbered, Ordered
<1>4. at' # "off" => runs' > 0 /\ before' <= keys'
  BY <1>1, KeysGrow DEF RunInv
<1>5. ASSUME at' = "opened" PROVE Numbered(runs - 1)'
  <2>1. PICK m \in Nat : m = runs - 1
    BY <1>1, <1>5 DEF RunInv
  <2>2. Numbered(m)'
    BY <1>1, <1>5, <2>1, NumberedStays DEF RunInv
  <2> QED BY <1>1, <2>1, <2>2 DEF Numbered, Ordered
<1>6. /\ at \in {"answer", "done"} /\ Reset => restarted' = TRUE
      /\ DeviceStep => UNCHANGED toolVars
  BY <1>1, NoRestart
<1>7. at' = "answer" => Waiting'
  BY <1>1, <1>6, WaitingStays DEF RunInv
<1>8. at' = "done" /\ taken'.part = "frame" => Concluded'
  BY <1>1, <1>6, ConcludedStays DEF RunInv
<1> QED BY <1>1, <1>3, <1>4, <1>5, <1>7, <1>8 DEF RunInv

--------------------------------------------------------------------------------
(* A command is started, with the number after those of all before.         *)
LEMMA StartRun ==
    ASSUME ToolInv, RunInv, NEW o \in Operations, NEW pw \in Passwords \cup {NoPassword},
           Start(o, pw)
    PROVE  RunInv'
<1>1. /\ at = "off" /\ at' \in {"opened", "done"} /\ runs' = runs + 1 /\ before' = keys
      /\ UNCHANGED <<toDev, devVars, taken>> /\ taken = Text
      /\ runs \in Nat /\ keys \in Nat /\ Numbered(runs) /\ unlockedBy \in Nat /\ untried \in Nat
  BY RunsAssumption, KeyNumbers DEF Start, RunInv, ToolInv, ToolTypeOK, KeyTypeOK
<1>2. fromDev' \in {fromDev, << >>, <<Rest>>}
  BY DEF Start
<1>3. \A i \in DOMAIN fromDev' : fromDev'[i].part = "frame" => fromDev' = fromDev
  BY <1>2 DEF Rest
<1>4. /\ step' = step /\ serving' = serving /\ unlockedBy' = unlockedBy
      /\ untried' = untried /\ keys' = keys
  BY <1>1 DEF devVars
<1>5. ASSUME NEW low \in Nat, NEW high \in Nat, Ordered(low, high)
      PROVE  Ordered(low, high)'
  <2>1. CASE fromDev' = fromDev
    BY <1>1, <1>4, <1>5, <2>1 DEF Ordered
  <2>2. CASE \A i \in DOMAIN fromDev' : fromDev'[i].part # "frame"
    BY <1>1, <1>4, <1>5, <2>2 DEF Ordered
  <2> QED BY <1>3, <2>1, <2>2
<1>6. PICK n \in Nat : n = runs
  BY <1>1
<1>7. Ordered(0, n)' /\ unlockedBy' <= n /\ untried' <= n
  BY <1>1, <1>4, <1>5, <1>6 DEF Numbered
<1>8. 0 .. n \subseteq 0 .. n + 1 /\ n = runs' - 1
  BY <1>1, <1>6
<1>9. Ordered(0, n + 1)'
  BY <1>7, <1>8 DEF Ordered
<1>10. unlockedBy' <= n + 1 /\ untried' <= n + 1
  BY <1>1, <1>4, <1>7
<1>11. Numbered(runs)'
  BY <1>1, <1>6, <1>9, <1>10 DEF Numbered, Ordered
<1>12. Numbered(runs - 1)'
  BY <1>7, <1>8 DEF Numbered, Ordered
<1>13. runs' > 0 /\ before' <= keys'
  BY <1>1, <1>4
<1>14. at' \notin {"off", "answer"} /\ taken'.part # "frame"
  BY <1>1 DEF Text
<1> QED BY <1>1, <1>11, <1>12, <1>13, <1>14 DEF RunInv

(* The request of the run goes to the end of the line.                      *)
LEMMA SendRun ==
    ASSUME ToolInv, RunInv, Send
    PROVE  RunInv'
<1>1. /\ at = "opened" /\ at' \in {"listening", "answer"} /\ taken' = Text
      /\ KeyTypeOK /\ runs \in Nat /\ runs > 0 /\ unlockedBy \in Nat /\ untried \in Nat
      /\ before <= keys /\ Numbered(runs - 1) /\ Numbered(runs)
      /\ UNCHANGED <<fromDev, devVars, op, secret, runs, before>>
      /\ UNCHANGED <<step, serving, unlockedBy, untried, keys>>
  BY RunsAssumption DEF Send, RunInv, devVars, ToolInv, ToolTypeOK, KeyTypeOK
<1>2. Text.part # "frame"
  BY DEF Text
<1>3. CASE at' = "listening" /\ UNCHANGED toDev
  <2>1. Numbered(runs)'
    BY <1>1, <1>3 DEF Numbered, Ordered
  <2> QED BY <1>1, <1>2, <1>3, <2>1 DEF RunInv
<1>4. CASE /\ op # "generateplain" /\ at' = "answer"
           /\ toDev' = Append(toDev, [id |-> runs, kind |-> op, pw |-> secret, key |-> 0])
  <2>1. PICK id \in Nat, high \in Nat : id = runs /\ high = runs - 1 /\ id = high + 1
    BY <1>1
  <2>2. PICK p : p = [id |-> runs, kind |-> op, pw |-> secret, key |-> 0]
    OBVIOUS
  <2>3. p \in Request /\ p.id = id /\ p.kind = op /\ p.pw = secret
        /\ p.kind \notin {"huge", "fragment"}
    <3>1. op \in Kinds \ {"huge", "fragment"} /\ secret \in Passwords \cup {NoPassword}
      BY <1>4 DEF ToolInv, ToolTypeOK, Operations, Kinds
    <3> QED BY <1>1, <2>1, <2>2, <3>1 DEF Request
  <2>4. toDev' = Append(toDev, p) /\ toDev \in Seq(Request)
    BY <1>1, <1>4, <2>2 DEF KeyTypeOK
  <2>5. Ordered(0, high) /\ 0 <= high /\ 0 \in Nat /\ unlockedBy < id /\ untried < id
    BY <1>1, <2>1 DEF Numbered
  <2>6. Ordered(0, id)' /\ LastOnLine(id)'
    BY <1>1, <2>1, <2>3, <2>4, <2>5, SendKeeps
  <2>7. Numbered(runs)'
    <3>1. unlockedBy' <= id /\ untried' <= id
      BY <1>1, <2>5
    <3> QED BY <1>1, <2>1, <2>6, <3>1 DEF Numbered, Ordered
  <2>8. LastOnLine(runs)'
    BY <1>1, <2>1, <2>6 DEF LastOnLine
  <2>9. \A i \in DOMAIN toDev' :
            (i \in DOMAIN toDev /\ toDev'[i] = toDev[i]) \/ toDev'[i] = p
    BY <2>3, <2>4
  <2>10. /\ \A i \in DOMAIN toDev : toDev[i].id # id
         /\ step # 0 => serving.id # id
         /\ \A i \in DOMAIN fromDev : ~(fromDev[i].part = "frame" /\ fromDev[i].id = id)
    <3>1. id \notin 0 .. high
      BY <2>1
    <3> QED BY <2>5, <3>1 DEF Ordered
  <2>11. quiet' => Ordered(runs, runs)'
    <3> SUFFICES ASSUME quiet' PROVE Ordered(runs, runs)'
      OBVIOUS
    <3>1. step = 0 /\ toDev = << >> /\ fromDev = << >>
      BY DEF Send
    <3>2. DOMAIN toDev' = {1} /\ toDev'[1] = p /\ DOMAIN fromDev' = {}
      BY <1>1, <2>3, <2>4, <3>1
    <3>3. id \in id .. id /\ id <= id
      OBVIOUS
    <3>4. Ordered(id, id)'
      BY <1>1, <2>3, <3>1, <3>2, <3>3 DEF Ordered
    <3> QED BY <1>1, <2>1, <3>4 DEF Ordered
  <2>12. unlockedBy' # runs /\ untried' # runs
    BY <1>1, <2>1, <2>5
  <2>13. Waiting'
    BY <1>1, <1>4, <2>1, <2>3, <2>8, <2>9, <2>10, <2>11, <2>12 DEF Waiting
  <2> QED BY <1>1, <1>2, <1>4, <2>7, <2>13 DEF RunInv
<1> QED BY <1>3, <1>4 DEF Send

(* A reader of the line leaves what the run waits for.                      *)
LEMMA ReaderRun ==
    ASSUME ToolInv, RunInv, Skip \/ Take \/ Misread \/ Abandon,
           UNCHANGED <<toDev, devVars, runs>>
    PROVE  Numbered(runs)'
<1>1. /\ KeyTypeOK /\ runs \in Nat /\ Numbered(runs) /\ 0 \in Nat
      /\ UNCHANGED <<toDev, step, serving, unlockedBy, untried>>
  BY RunsAssumption DEF RunInv, devVars, ToolInv, ToolTypeOK, KeyTypeOK
<1>2. PICK n \in Nat : n = runs
  BY <1>1
<1>3. Ordered(0, n)'
  BY <1>1, <1>2, ReadersKeep DEF Numbered
<1> QED BY <1>1, <1>2, <1>3 DEF Numbered, Ordered

LEMMA SkipRun ==
    ASSUME ToolInv, RunInv, SkipText
    PROVE  RunInv'
<1>1. /\ at = "answer" /\ Skip /\ UNCHANGED <<toDev, devVars, toolVars>> /\ Waiting
      /\ UNCHANGED <<at, op, secret, result, taken, runs, before, quiet, restarted>>
      /\ UNCHANGED <<step, serving, unlockedBy, untried, keys, ram, nvs, pwOf, spoiled>>
      /\ runs \in Nat /\ KeyTypeOK /\ fromDev \in Seq(Item)
  BY RunsAssumption DEF SkipText, RunInv, toolVars, devVars, ToolInv, ToolTypeOK, KeyTypeOK
<1>2. PICK n \in Nat : n = runs
  BY <1>1
<1>3. /\ LastOnLine(n) => LastOnLine(n)'
      /\ Ordered(n, n) => Ordered(n, n)'
  BY <1>1, ReadersKeep
<1>4. \A i \in DOMAIN fromDev' : \E j \in DOMAIN fromDev : fromDev'[i] = fromDev[j]
  BY <1>1, Readers
<1>5. ASSUME NEW i \in DOMAIN fromDev', fromDev'[i].part = "frame", fromDev'[i].id = runs
      PROVE  (Effect(fromDev[i].type, fromDev[i].key))'
  <2>1. PICK j \in DOMAIN fromDev : fromDev'[i] = fromDev[j]
    BY <1>4
  <2>2. Effect(fromDev[j].type, fromDev[j].key)
    BY <1>1, <1>5, <2>1 DEF Waiting
  <2> QED BY <1>1, <2>1, <2>2 DEF Effect, Stored, IsLocked
<1>6. LastOnLine(runs)' /\ (quiet' => Ordered(runs, runs)')
  BY <1>1, <1>2, <1>3 DEF Waiting, LastOnLine, Ordered
<1>7. Waiting'
  BY <1>1, <1>5, <1>6 DEF Waiting
<1> QED BY <1>1, <1>7, ReaderRun DEF RunInv

LEMMA TakeRun ==
    ASSUME ToolInv, RunInv, TakeAnswer
    PROVE  RunInv'
<1> DEFINE item == Head(fromDev)
<1>1. /\ at = "answer" /\ Take /\ at' = "done" /\ taken' = item /\ Waiting
      /\ result' = (IF item.type = Wanted(op) THEN "ok" ELSE "fail")
      /\ UNCHANGED <<toDev, devVars, op, secret, runs, before, quiet, restarted>>
      /\ UNCHANGED <<step, serving, unlockedBy, untried, keys, ram, nvs, pwOf, spoiled>>
      /\ runs \in Nat /\ KeyTypeOK /\ fromDev \in Seq(Item)
  BY RunsAssumption DEF TakeAnswer, Finish, RunInv, devVars, ToolInv, ToolTypeOK, KeyTypeOK
<1>2. fromDev # << >> /\ fromDev[1].part = "frame" /\ fromDev' \in Seq(Item)
  BY <1>1, Readers
<1>3. 1 \in DOMAIN fromDev /\ item = fromDev[1]
  BY <1>1, <1>2, EmptySeq
<1> HIDE DEF item
<1>4. quiet => item.id = runs
  <2> SUFFICES ASSUME quiet PROVE item.id = runs
    OBVIOUS
  <2>1. Ordered(runs, runs)
    BY <1>1 DEF Waiting
  <2>2. item.id \in runs .. runs
    BY <1>2, <1>3, <2>1 DEF Ordered
  <2> QED BY <1>1, <2>2
<1>5. ASSUME item.id = runs
      PROVE  /\ toDev' = << >> /\ step' = 0
             /\ (Effect(taken.type, taken.key))'
             /\ result' = "ok" <=> item.type = Wanted(op)
  <2>1. toDev = << >> /\ step = 0 /\ Effect(item.type, item.key)
    BY <1>1, <1>2, <1>3, <1>5 DEF Waiting, LastOnLine
  <2>2. (Effect(taken.type, taken.key))'
    BY <1>1, <2>1 DEF Effect, Stored, IsLocked
  <2> QED BY <1>1, <2>1, <2>2
<1>6. Wanted(op)' = Wanted(op)
  BY <1>1 DEF Wanted
<1>7. Concluded'
  BY <1>1, <1>4, <1>5, <1>6 DEF Concluded, Waiting
<1> QED BY <1>1, <1>7, ReaderRun DEF RunInv

(* The run ends without an answer that is one.                              *)
LEMMA EndRun ==
    ASSUME ToolInv, RunInv,
           MisreadRest \/ GiveUp \/ ReadLine \/ StopListening \/ PortFails
    PROVE  RunInv'
<1>1. Text.part # "frame" /\ Rest.part # "frame"
  BY DEF Text, Rest
<1>2. CASE MisreadRest \/ GiveUp \/ StopListening \/ PortFails
  <2>1. /\ at # "off" /\ at' = "done" /\ taken' \in {Text, Rest}
        /\ Misread \/ Abandon
        /\ UNCHANGED <<toDev, devVars, runs, before>>
    BY <1>2 DEF MisreadRest, GiveUp, StopListening, PortFails, Finish, Abandon
  <2>2. Numbered(runs)' /\ keys' = keys
    BY <2>1, ReaderRun DEF devVars
  <2> QED BY <1>1, <2>1, <2>2 DEF RunInv
<1>3. CASE ReadLine
  <2>1. /\ at = "listening" /\ UNCHANGED <<at, taken, toDev, devVars, runs, before>>
        /\ UNCHANGED <<step, serving, unlockedBy, untried, keys>>
        /\ fromDev # << >> /\ fromDev' = Tail(fromDev) /\ fromDev \in Seq(Item)
        /\ runs \in Nat /\ Numbered(runs)
    BY <1>3, RunsAssumption DEF ReadLine, RunInv, toolVars, devVars, ToolInv, ToolTypeOK, KeyTypeOK
  <2>2. \A i \in DOMAIN fromDev' :
            i \in Nat /\ i + 1 \in DOMAIN fromDev /\ fromDev'[i] = fromDev[i + 1]
    BY <2>1
  <2>3. ASSUME NEW i \in DOMAIN fromDev', NEW j \in DOMAIN fromDev', i <= j
        PROVE  i + 1 <= j + 1
    BY <2>2, <2>3
  <2>4. Numbered(runs)'
    BY <2>1, <2>2, <2>3 DEF Numbered, Ordered
  <2> QED BY <2>1, <2>4 DEF RunInv
<1> QED BY <1>2, <1>3

LEMMA ToolRun ==
    ASSUME ToolInv, ToolInv', RunInv, [Next]_vars
    PROVE  RunInv'
<1>1. CASE Exit
  <2>1. /\ at' = "off" /\ taken' = Text /\ UNCHANGED <<toDev, fromDev, runs>>
        /\ UNCHANGED <<step, serving, unlockedBy, untried>>
    BY <1>1 DEF Exit, lineVars, devVars
  <2>2. Numbered(runs)'
    BY <2>1 DEF RunInv, Numbered, Ordered
  <2> QED BY <2>1, <2>2 DEF RunInv
<1>2. CASE UNCHANGED vars
  BY <1>2 DEF vars, lineVars, devVars, toolVars, RunInv, Numbered, Ordered, Waiting, LastOnLine,
              Concluded, Effect, Stored, IsLocked, Wanted
<1>3. CASE \/ DeviceStep /\ UNCHANGED toolVars
           \/ Reset /\ restarted' = (at \in {"answer", "done"})
              /\ UNCHANGED <<at, op, secret, result, taken, runs, before, quiet>>
  BY <1>3, DeviceRun
<1> QED BY <1>1, <1>2, <1>3, StartRun, SendRun, SkipRun, TakeRun, EndRun DEF Next, ToolStep

LEMMA ToolInvariant == Spec => [](ToolInv /\ RunInv)
<1>1. Init => ToolInv /\ RunInv
  <2> SUFFICES ASSUME Init PROVE ToolInv /\ RunInv
    OBVIOUS
  <2>1. /\ toDev = << >> /\ fromDev = << >> /\ step = 0 /\ unlockedBy = 0 /\ untried = 0
        /\ at = "off" /\ taken = Text /\ runs = 0
    BY DEF Init, DeviceInit
  <2>2. Numbered(runs)
    BY <2>1 DEF Numbered, Ordered
  <2> QED BY <2>1, <2>2, ToolInit DEF RunInv
<1>2. ToolInv /\ RunInv /\ [Next]_vars => (ToolInv /\ RunInv)'
  BY ToolNext, ToolRun
<1> QED BY <1>1, <1>2, PTL DEF Spec

--------------------------------------------------------------------------------
(***************************************************************************)
(* The theorems                                                            *)
(***************************************************************************)

(* The key tool and the device only ever reach states of their types.       *)
THEOREM ToolTypeCorrect == Spec => []ToolTypeOK
<1>1. ToolInv => ToolTypeOK
  BY DEF ToolInv
<1> QED BY <1>1, ToolInvariant, PTL

(* A key that is ready to sign is the one the device shows, except in the    *)
(* two cases the firmware does have: power was lost among the writes of its  *)
(* record, or a wrong password passed for a right one because its decryption *)
(* ended in a valid padding, and then the key is garbage.  A generation that *)
(* failed, and restarts anywhere else, never mix two keys.                   *)
THEOREM KeySignsWithOwnKey == Spec => []SignsWithOwnKey
<1>1. ToolInv => SignsWithOwnKey
  BY KeyInvImplies DEF ToolInv
<1> QED BY <1>1, ToolInvariant, PTL

(* A locked device has no private key in memory even when its record is torn;*)
(* the exception is a generation that failed after the new pair was made.    *)
(* Its record is that of one key, failed generations included; the exception *)
(* is a loss of power among the writes.                                      *)
THEOREM KeyLockedForgets == Spec => []LockedForgets
<1>1. ToolInv => LockedForgets
  BY KeyInvImplies DEF ToolInv
<1> QED BY <1>1, ToolInvariant, PTL

(* A run that took the device's answer to its own request and reports        *)
(* success has had its effect: a generated key is stored whole under the     *)
(* given password, through any later loss of power; the other effects last   *)
(* until the device restarts.  The answer is the run's own if nothing was on *)
(* the line when it sent its request; of a run that took the answer to an    *)
(* earlier one the theorem says nothing.                                     *)
THEOREM ToolSuccessIsReal == Spec => []SuccessIsReal
<1>1. RunInv /\ ToolInv => SuccessIsReal
  <2> SUFFICES ASSUME RunInv, ToolInv, at = "done", taken.part = "frame"
               PROVE  /\ quiet => taken.id = runs
                      /\ result = "ok" /\ taken.id = runs =>
                           CASE op = "generate" -> keys > before /\ Stored(keys, secret)
                             [] op = "lock"     -> restarted \/ IsLocked
                             [] op = "unlock"   -> restarted \/ ram.unlocked
                             [] op = "pubkey"   -> restarted \/ taken.key = ram.pub
                             [] op = "sign"     -> restarted \/ ~(spoiled \subseteq {"failed"})
                                                     \/ taken.key = ram.pub
    BY DEF SuccessIsReal
  <2>1. Concluded
    BY DEF RunInv
  <2> SUFFICES ASSUME result = "ok", taken.id = runs
               PROVE  CASE op = "generate" -> keys > before /\ Stored(keys, secret)
                        [] op = "lock"     -> restarted \/ IsLocked
                        [] op = "unlock"   -> restarted \/ ram.unlocked
                        [] op = "pubkey"   -> restarted \/ taken.key = ram.pub
                        [] op = "sign"     -> restarted \/ ~(spoiled \subseteq {"failed"})
                                                \/ taken.key = ram.pub
    BY <2>1 DEF Concluded
  <2>2. Effect(taken.type, taken.key) /\ taken.type = Wanted(op)
    BY <2>1 DEF Concluded
  <2>3. op \in {"generate", "pubkey", "unlock", "lock", "sign"}
    BY <2>1 DEF ToolInv, ToolTypeOK, Operations, Concluded
  <2>4. keys \in Nat /\ before \in Nat
    BY KeyNumbers DEF ToolInv, ToolTypeOK, KeyTypeOK
  <2> QED BY <2>2, <2>3, <2>4 DEF Effect, Wanted
<1> QED BY <1>1, ToolInvariant, PTL

(* The device refuses the password its stored key was made with only if its  *)
(* crypto library failed before the password was tried, or if a loss of      *)
(* power or a failed generation has mixed two keys; and even then no other   *)
(* password brings out the key that it shows.                                *)
THEOREM ToolRightPasswordUnlocks == Spec => []RightPasswordUnlocks
<1>1. RunInv => RightPasswordUnlocks
  BY DEF RunInv, Concluded, Effect, Wanted, RightPasswordUnlocks
<1> QED BY <1>1, ToolInvariant, PTL
================================================================================
