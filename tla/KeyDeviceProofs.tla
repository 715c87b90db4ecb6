---------------------------- MODULE KeyDeviceProofs ----------------------------
(***************************************************************************)
(* The device by itself: what each of its commands preserves, whoever      *)
(* writes to its line, for all passwords, keys and losses of power.        *)
(***************************************************************************)
EXTENDS KeyDevice, SequenceTheorems, TLAPS

(***************************************************************************)
(* Types                                                                   *)
(***************************************************************************)

LEMMA KeyNumbers == MaxKeys \in Nat /\ 0 \in 0 .. MaxKeys /\ 1 \in 0 .. MaxKeys
  BY BoundAssumption

(* What the device prints and answers are items of the line.                *)
LEMMA Lines ==
    ASSUME NEW r \in Request, NEW type \in AnswerTypes, NEW key \in Int
    PROVE  Text \in Item /\ Rest \in Item /\ Frame(r, type, key) \in Item
  BY DEF Text, Rest, Frame, Item, AnswerTypes, Request

LEMMA AnswerType ==
    ASSUME fromDev \in Seq(Item), NEW r \in Request, NEW type \in AnswerTypes,
           NEW key \in Int, Answer(r, type, key) \/ SayAndAnswer(r, type)
    PROVE  fromDev' \in Seq(Item)
<1>1. Text \in Item /\ Frame(r, type, key) \in Item /\ Frame(r, type, 0) \in Item
  BY Lines
<1> QED BY <1>1, AppendProperties DEF Answer, SayAndAnswer

(* Accepting a request takes it off the line.                               *)
LEMMA AcceptType ==
    ASSUME KeyTypeOK, NEW r, NEW kinds, Accept(r, kinds)
    PROVE  r \in Request /\ toDev' \in Seq(Request) /\ r.kind \in kinds
<1>1. toDev \in Seq(Request) /\ toDev # << >> /\ r = Head(toDev) /\ toDev' = Tail(toDev)
  BY DEF Accept, Reads, KeyTypeOK
<1>2. Head(toDev) \in Request /\ Tail(toDev) \in Seq(Request)
  BY <1>1, HeadTailProperties
<1> QED BY <1>1, <1>2 DEF Accept, Reads

(* What is loaded from the flash is a state of the memory.                  *)
LEMMA LoadedType ==
    ASSUME NEW n \in Parts
    PROVE  Loaded(n) \in Memory
<1> DEFINE shown == [BlankRam EXCEPT !.pub = n.pub]
<1>1. BlankRam \in Memory
  BY KeyNumbers DEF BlankRam, Memory
<1>2. shown \in Memory
  BY KeyNumbers DEF BlankRam, Memory, Parts
<1>3. [shown EXCEPT !.seed = n.seed, !.salt = n.salt, !.iv = n.iv,
                    !.loaded = TRUE, !.enc = TRUE] \in Memory
  BY <1>2, KeyNumbers DEF Memory, Parts
<1>4. [shown EXCEPT !.priv = n.priv, !.loaded = TRUE, !.unlocked = TRUE] \in Memory
  BY <1>2, KeyNumbers DEF Memory, Parts
<1> QED BY <1>1, <1>2, <1>3, <1>4 DEF Loaded

LEMMA InitType ==
    ASSUME DeviceInit
    PROVE  KeyTypeOK
<1>1. nvs \in Parts /\ nvs.pub \in 0 .. 1
  <2>1. PICK kind \in Shipped : nvs = FirstNvs(kind)
    BY DEF DeviceInit
  <2>2. kind \in {"empty", "sealed", "plain"}
    BY ShippedAssumption
  <2>3. EmptyNvs \in Parts /\ EmptyNvs.pub = 0
    BY KeyNumbers DEF EmptyNvs, Parts
  <2>4. CASE kind = "empty"
    BY <2>1, <2>3, <2>4 DEF FirstNvs
  <2>5. CASE kind = "sealed"
    BY <2>1, <2>5, KeyNumbers DEF FirstNvs, Parts
  <2>6. CASE kind = "plain"
    <3>1. nvs = [EmptyNvs EXCEPT !.pub = 1, !.priv = 1]
      BY <2>1, <2>6 DEF FirstNvs
    <3>2. nvs = [pub |-> 1, seed |-> 0, salt |-> 0, iv |-> 0, priv |-> 1, enc |-> FALSE]
      BY <3>1 DEF EmptyNvs
    <3> QED BY <3>2, KeyNumbers DEF Parts
  <2> QED BY <2>2, <2>4, <2>5, <2>6
<1>2. ram \in Memory
  BY <1>1, LoadedType DEF DeviceInit
<1>3. pwOf \in [Keys -> Passwords \cup {NoPassword}]
  <2>1. PICK pw \in Passwords : pwOf = [k \in Keys |-> IF k <= keys THEN pw ELSE NoPassword]
    BY DEF DeviceInit
  <2> QED BY <2>1
<1>4. toDev \in Seq(Request) /\ fromDev \in Seq(Item)
  BY EmptySeq DEF DeviceInit
<1>5. serving \in Request
  BY DEF DeviceInit, NoRequest, Request, Kinds
<1>6. keys \in 0 .. MaxKeys /\ resets \in 0 .. MaxResets /\ step \in 0 .. 7
      /\ spoiled \subseteq {"torn", "padding", "failed"} /\ unlockedBy \in Nat /\ untried \in Nat
  BY <1>1, BoundAssumption DEF DeviceInit
<1> QED BY <1>1, <1>2, <1>3, <1>4, <1>5, <1>6 DEF KeyTypeOK

LEMMA ResetType ==
    ASSUME KeyTypeOK, Reset
    PROVE  KeyTypeOK'
<1>1. fromDev' \in Seq(Item)
  <2>1. Text \in Item
    BY DEF Text, Item, AnswerTypes
  <2> QED BY <2>1, AppendProperties DEF KeyTypeOK, Reset
<1>2. ram' \in Memory
  BY LoadedType DEF KeyTypeOK, Reset
<1>3. toDev' \in Seq(Request) /\ serving' \in Request
  BY EmptySeq DEF Reset, NoRequest, Request, Kinds
<1>4. resets' \in 0 .. MaxResets /\ step' \in 0 .. 7 /\ unlockedBy' \in Nat /\ untried' \in Nat
      /\ spoiled' \subseteq {"torn", "padding", "failed"}
  BY BoundAssumption DEF KeyTypeOK, Reset
<1> QED BY <1>1, <1>2, <1>3, <1>4 DEF KeyTypeOK, Reset, storeVars

(* What a device that is out of step reads: the debris of one packet, and    *)
(* then what comes after it.                                                 *)
LEMMA OutOfStepType ==
    ASSUME NEW r \in Request, NEW rest \in Seq(Request), OutOfStep(r, rest)
    PROVE  /\ toDev' \in Seq(Request)
           /\ \E n \in 0 .. MaxBody :
                 /\ Len(toDev') = n + Len(rest)
                 /\ \A i \in 1 .. n : toDev'[i].id = r.id
                 /\ \A i \in 1 .. Len(rest) : toDev'[n + i] = rest[i]
<1>0. PICK n \in 0 .. MaxBody : \E body \in [1 .. n -> Debris(r)] : toDev' = body \o rest
  BY DEF OutOfStep
<1>1. PICK body \in [1 .. n -> Debris(r)] : toDev' = body \o rest
  BY <1>0
<1>2. Debris(r) \subseteq Request /\ n \in Nat
  <2>1. r.id \in Nat /\ BodyKinds \subseteq Kinds
    BY BodyAssumption DEF Request
  <2> QED BY <2>1, BoundAssumption DEF Debris, Request
<1>3. \A d \in Debris(r) : d.id = r.id
  BY DEF Debris
<1>4. body \in Seq(Request) /\ Len(body) = n
  BY <1>2
<1>5. /\ toDev' \in Seq(Request) /\ Len(toDev') = n + Len(rest)
      /\ \A i \in 1 .. n : toDev'[i] = body[i]
      /\ \A i \in 1 .. Len(rest) : toDev'[n + i] = rest[i]
  <2>1. Len(rest) \in Nat /\ rest \in Seq(Request) /\ body \in Seq(Request)
    BY <1>4
  <2>2. /\ toDev' \in Seq(Request) /\ Len(toDev') = n + Len(rest)
        /\ \A i \in 1 .. n + Len(rest) : toDev'[i] = IF i <= n THEN body[i] ELSE rest[i - n]
    BY <1>1, <1>4, <2>1, ConcatProperties
  <2>3. ASSUME NEW i \in 1 .. n PROVE toDev'[i] = body[i]
    BY <1>2, <2>1, <2>2
  <2>4. ASSUME NEW i \in 1 .. Len(rest) PROVE toDev'[n + i] = rest[i]
    <3>1. n + i \in 1 .. n + Len(rest) /\ ~(n + i <= n) /\ (n + i) - n = i
      BY <1>2, <2>1
    <3> QED BY <2>2, <3>1
  <2> QED BY <2>2, <2>3, <2>4
<1> QED BY <1>3, <1>5

(* An oversized packet, and the short ones its body may contain.            *)
LEMMA DebrisType ==
    ASSUME KeyTypeOK, NEW r, HandleHuge(r) \/ HandleFragment(r)
    PROVE  KeyTypeOK'
<1>1. toDev \in Seq(Request) /\ toDev # << >> /\ r = Head(toDev)
      /\ UNCHANGED <<fromDev, devVars>>
  BY DEF KeyTypeOK, HandleHuge, HandleFragment, Reads
<1>2. r \in Request /\ Tail(toDev) \in Seq(Request)
  BY <1>1, HeadTailProperties
<1>3. Len(toDev) > 1 => Tail(Tail(toDev)) \in Seq(Request)
  <2> SUFFICES ASSUME Len(toDev) > 1 PROVE Tail(Tail(toDev)) \in Seq(Request)
    OBVIOUS
  <2>1. Len(Tail(toDev)) = Len(toDev) - 1
    BY <1>1
  <2>2. Len(Tail(toDev)) # 0
    BY <1>1, <2>1
  <2>3. Tail(toDev) # << >>
    BY <1>2, <2>2, EmptySeq
  <2> QED BY <1>2, <2>3, HeadTailProperties
<1>4. toDev' \in Seq(Request)
  BY <1>2, <1>3, OutOfStepType DEF HandleHuge, HandleFragment
<1> QED BY <1>1, <1>4 DEF KeyTypeOK, devVars

(* The commands that change nothing in the device.                          *)
LEMMA AnswersType ==
    ASSUME KeyTypeOK, NEW r, HandleSign(r) \/ HandleShow(r) \/ HandleUnknown(r)
    PROVE  KeyTypeOK'
<1>1. r \in Request /\ toDev' \in Seq(Request)
  BY AcceptType DEF HandleSign, HandleShow, HandleUnknown
<1>2. fromDev' \in Seq(Item)
  <2> USE <1>1
  <2>0. fromDev \in Seq(Item) /\ ram.priv \in Int /\ ram.pub \in Int
    BY BoundAssumption DEF KeyTypeOK, Memory, Garbled
  <2>1. CASE HandleSign(r)
    <3>1. SignOutcome(r)[1] \in AnswerTypes /\ SignOutcome(r)[2] \in Int
      BY <2>0 DEF SignOutcome, AnswerTypes
    <3>2. Answer(r, SignOutcome(r)[1], SignOutcome(r)[2])
      BY <2>1 DEF HandleSign
    <3> QED BY <2>0, <3>1, <3>2, AnswerType
  <2>2. CASE HandleShow(r)
    <3>1. r.kind \in AnswerTypes /\ "failure" \in AnswerTypes
      BY <2>2, AcceptType DEF HandleShow, AnswerTypes
    <3>2. Answer(r, r.kind, ram.pub) \/ Answer(r, "failure", 0)
      BY <2>2 DEF HandleShow
    <3>3. CASE Answer(r, r.kind, ram.pub)
      BY <2>0, <3>1, <3>3, AnswerType
    <3>4. CASE Answer(r, "failure", 0)
      BY <2>0, <3>1, <3>4, AnswerType
    <3> QED BY <3>2, <3>3, <3>4
  <2>3. CASE HandleUnknown(r)
    <3>1. "failure" \in AnswerTypes /\ Answer(r, "failure", 0)
      BY <2>3 DEF HandleUnknown, AnswerTypes
    <3> QED BY <2>0, <3>1, AnswerType
  <2> QED BY <2>1, <2>2, <2>3
<1>3. UNCHANGED devVars
  BY DEF HandleSign, HandleShow, HandleUnknown
<1> QED BY <1>1, <1>2, <1>3 DEF KeyTypeOK, devVars

(* A decryption yields a key, a garbled one, or nothing.                    *)
LEMMA DecryptedType ==
    ASSUME KeyTypeOK, NEW pw, NEW padding
    PROVE  Decrypted(pw, padding) \in {Garbled} \cup 0 .. MaxKeys
  BY BoundAssumption DEF KeyTypeOK, Memory, Decrypted

LEMMA UnlockType ==
    ASSUME KeyTypeOK, NEW r, HandleUnlock(r)
    PROVE  KeyTypeOK'
<1>1. r \in Request /\ toDev' \in Seq(Request)
  BY AcceptType DEF HandleUnlock
<1>2. UNCHANGED <<storeVars, serving, step, resets>>
  BY DEF HandleUnlock
<1>3. {"success", "failure"} \subseteq AnswerTypes /\ fromDev \in Seq(Item) /\ r.id \in Nat
  BY <1>1 DEF AnswerTypes, KeyTypeOK, Request
<1>4. CASE /\ Answer(r, "failure", 0) \/ Answer(r, "success", 0)
           /\ untried' \in {untried, r.id} /\ UNCHANGED <<ram, spoiled, unlockedBy>>
  <2>1. fromDev' \in Seq(Item)
    BY <1>1, <1>3, <1>4, AnswerType
  <2> QED BY <1>1, <1>2, <1>3, <1>4, <2>1 DEF KeyTypeOK, storeVars
<1>5. CASE /\ SayAndAnswer(r, "failure") /\ ram' = [ram EXCEPT !.priv = 0]
           /\ untried' = r.id /\ UNCHANGED <<spoiled, unlockedBy>>
  <2>1. fromDev' \in Seq(Item)
    <3>1. SayAndAnswer(r, "failure")
      BY <1>5
    <3> QED BY <1>1, <1>3, <3>1, AnswerType
  <2>2. ram' \in Memory
    BY <1>5, KeyNumbers DEF KeyTypeOK, Memory
  <2> QED BY <1>1, <1>2, <1>3, <1>5, <2>1, <2>2 DEF KeyTypeOK, storeVars
<1>6. ASSUME NEW padding \in {"bad", "short"},
             LET seed == Decrypted(r.pw, padding)
             IN  /\ ram' = [ram EXCEPT !.priv = seed, !.unlocked = (seed # 0)]
                 /\ SayAndAnswer(r, IF seed # 0 THEN "success" ELSE "failure")
                 /\ spoiled' = IF padding = "short" /\ seed = Garbled
                               THEN spoiled \cup {"padding"} ELSE spoiled
                 /\ unlockedBy' = IF seed # 0 THEN r.id ELSE unlockedBy,
             untried' = untried
      PROVE  KeyTypeOK'
  <2> DEFINE seed == Decrypted(r.pw, padding)
  <2>1. seed \in {Garbled} \cup 0 .. MaxKeys
    BY DecryptedType
  <2>2. ram' = [ram EXCEPT !.priv = seed, !.unlocked = (seed # 0)]
    BY <1>6
  <2>3. spoiled' \in {spoiled, spoiled \cup {"padding"}} /\ unlockedBy' \in {r.id, unlockedBy}
    BY <1>6
  <2>4. fromDev' \in Seq(Item)
    <3>1. PICK type \in {"success", "failure"} : SayAndAnswer(r, type)
      BY <1>6
    <3> QED BY <1>1, <1>3, <3>1, AnswerType
  <2> HIDE DEF seed
  <2>5. ram' \in Memory
    BY <2>1, <2>2 DEF KeyTypeOK, Memory
  <2> QED BY <1>1, <1>2, <1>3, <1>6, <2>3, <2>4, <2>5 DEF KeyTypeOK, storeVars
<1> QED BY <1>4, <1>5, <1>6 DEF HandleUnlock

LEMMA LockType ==
    ASSUME KeyTypeOK, NEW r, HandleLock(r)
    PROVE  KeyTypeOK'
<1>1. r \in Request /\ toDev' \in Seq(Request)
  BY AcceptType DEF HandleLock
<1>2. fromDev' \in Seq(Item)
  <2>1. {"success", "failure"} \subseteq AnswerTypes /\ fromDev \in Seq(Item)
    BY DEF AnswerTypes, KeyTypeOK
  <2>2. CASE SayAndAnswer(r, "success")
    BY <1>1, <2>1, <2>2, AnswerType
  <2>3. CASE Answer(r, "failure", 0)
    BY <1>1, <2>1, <2>3, AnswerType
  <2> QED BY <2>2, <2>3 DEF HandleLock
<1>3. ram' \in Memory
  <2>1. ram \in Memory
    BY DEF KeyTypeOK
  <2>2. [ram EXCEPT !.priv = 0, !.unlocked = FALSE] \in Memory
    BY <2>1, KeyNumbers DEF Memory
  <2> QED BY <2>1, <2>2 DEF HandleLock
<1> QED BY <1>1, <1>2, <1>3 DEF KeyTypeOK, HandleLock, storeVars

LEMMA NewPairType ==
    ASSUME KeyTypeOK, keys < MaxKeys
    PROVE  NewPair \in Memory /\ keys + 1 \in 1 .. MaxKeys
<1>1. keys + 1 \in 1 .. MaxKeys /\ keys + 1 \in 0 .. MaxKeys
  BY KeyNumbers DEF KeyTypeOK
<1>2. ram \in Memory
  BY DEF KeyTypeOK
<1> QED BY <1>1, <1>2 DEF NewPair, Memory

LEMMA GenerateType ==
    ASSUME KeyTypeOK, NEW r, HandleGenerate(r)
    PROVE  KeyTypeOK'
<1>1. r \in Request /\ toDev' \in Seq(Request)
  BY AcceptType DEF HandleGenerate
<1>2. UNCHANGED <<nvs, resets, unlockedBy, untried>> /\ "failure" \in AnswerTypes /\ fromDev \in Seq(Item)
  BY DEF HandleGenerate, AnswerTypes, KeyTypeOK
<1>3. CASE Answer(r, "failure", 0) /\ UNCHANGED <<ram, serving, step, pwOf, keys, spoiled>>
  <2>1. fromDev' \in Seq(Item)
    BY <1>1, <1>2, <1>3, AnswerType
  <2> QED BY <1>1, <1>2, <1>3, <2>1 DEF KeyTypeOK
<1>4. CASE /\ keys < MaxKeys
           /\ ram' = [NewPair EXCEPT !.seed = keys + 1]
           /\ pwOf' = [pwOf EXCEPT ![keys + 1] = r.pw]
           /\ keys' = keys + 1 /\ serving' = r /\ step' = 1
           /\ UNCHANGED <<fromDev, spoiled>>
  <2>1. NewPair \in Memory /\ keys + 1 \in 1 .. MaxKeys
    BY <1>4, NewPairType
  <2>2. ram' \in Memory
    BY <1>4, <2>1 DEF Memory
  <2>3. pwOf' \in [Keys -> Passwords \cup {NoPassword}]
    BY <1>1, <1>4 DEF KeyTypeOK, Request
  <2> QED BY <1>1, <1>2, <1>4, <2>1, <2>2, <2>3 DEF KeyTypeOK
<1>5. CASE /\ keys < MaxKeys
           /\ ram' = NewPair
           /\ keys' = keys + 1
           /\ SayAndAnswer(r, "failure")
           /\ spoiled' = spoiled \cup {"failed"}
           /\ UNCHANGED <<serving, step, pwOf>>
  <2>1. ram' \in Memory /\ keys' \in 0 .. MaxKeys
    BY <1>5, NewPairType
  <2>2. fromDev' \in Seq(Item)
    BY <1>1, <1>2, <1>5, AnswerType
  <2> QED BY <1>1, <1>2, <1>5, <2>1, <2>2 DEF KeyTypeOK
<1> QED BY <1>3, <1>4, <1>5 DEF HandleGenerate

LEMMA PutType ==
    ASSUME KeyTypeOK, NEW i \in 1 .. 6
    PROVE  Put(i, nvs) \in Parts
<1>1. nvs \in Parts /\ ram.pub \in 0 .. MaxKeys /\ ram.seed \in 0 .. MaxKeys
      /\ ram.salt \in 0 .. MaxKeys /\ ram.iv \in 0 .. MaxKeys /\ 0 \in 0 .. MaxKeys
  BY KeyNumbers DEF KeyTypeOK, Memory
<1>2. i \in {1, 2, 3} \/ i \in {4, 5, 6}
  OBVIOUS
<1>3. CASE i \in {1, 2, 3}
  BY <1>1, <1>3 DEF Put, Parts
<1>4. CASE i \in {4, 5, 6}
  BY <1>1, <1>4 DEF Put, Parts
<1> QED BY <1>2, <1>3, <1>4

LEMMA WritesType ==
    ASSUME KeyTypeOK, WriteNvs \/ FinishGenerate
    PROVE  KeyTypeOK'
<1>1. CASE WriteNvs
  <2>1. step \in 1 .. 6 /\ nvs' = Put(step, nvs) /\ step' = step + 1
    BY <1>1 DEF WriteNvs
  <2>2. nvs' \in Parts
    BY <2>1, PutType
  <2> QED BY <1>1, <2>1, <2>2 DEF WriteNvs, KeyTypeOK, lineVars
<1>2. CASE FinishGenerate
  <2>1. ram' \in Memory
    <3>1. ram \in Memory
      BY DEF KeyTypeOK
    <3> QED BY <1>2, <3>1, KeyNumbers DEF FinishGenerate, Memory
  <2>2. fromDev' \in Seq(Item)
    <3>1. "success" \in AnswerTypes /\ fromDev \in Seq(Item) /\ serving \in Request
      BY DEF AnswerTypes, KeyTypeOK
    <3> QED BY <1>2, <3>1, AnswerType DEF FinishGenerate
  <2>3. serving' \in Request
    BY <1>2 DEF FinishGenerate, NoRequest, Request, Kinds
  <2> QED BY <1>2, <2>1, <2>2, <2>3 DEF FinishGenerate, KeyTypeOK, storeVars
<1> QED BY <1>1, <1>2

LEMMA DeviceType ==
    ASSUME KeyTypeOK, DeviceNext
    PROVE  KeyTypeOK'
  BY ResetType, AnswersType, DebrisType, UnlockType, LockType, GenerateType, WritesType
     DEF DeviceNext, DeviceStep
--------------------------------------------------------------------------------
(***************************************************************************)
(* The invariant of the stored key                                         *)
(***************************************************************************)

(* All parts of a record or of the memory belong to one key.                *)
SameKey(m) == m.seed = m.pub /\ m.salt = m.pub /\ m.iv = m.pub

(* A record that setup loads as a key it can use, or not at all.            *)
Whole(n) ==
    \/ n.pub = 0
    \/ n.enc /\ SameKey(n)
    \/ ~n.enc /\ n.priv = n.pub

(* While generateEncryptedKey runs, the memory holds the new key, and the   *)
(* writes that are done have put its parts into NVS.                        *)
WritesInOrder ==
    step # 0 =>
        /\ ram.pub # 0 /\ SameKey(ram) /\ ram.priv = ram.pub
        /\ step >= 2 => nvs.pub = ram.pub
        /\ step >= 3 => nvs.seed = ram.pub
        /\ step >= 4 => nvs.salt = ram.pub
        /\ step >= 5 => nvs.iv = ram.pub
        /\ step >= 6 => nvs.enc
        /\ step = 7 => nvs.priv = 0

(* Between two generations, the record is whole unless power was lost among *)
(* the writes of one; encrypted it never lacks a part.                      *)
HasParts(n) == n.pub # 0 /\ n.seed # 0 /\ n.salt # 0 /\ n.iv # 0

RecordWhole ==
    /\ "torn" \notin spoiled /\ step <= 1 => Whole(nvs)
    /\ nvs.enc => HasParts(nvs)

(* What the memory of the device has to do with its record.                 *)
MemoryWhole ==
    /\ ram.enc => ram.loaded /\ nvs.enc
    /\ ram.loaded => ram.pub # 0
    /\ ram.loaded /\ ~ram.enc => ram.unlocked
    /\ "torn" \notin spoiled /\ ram.enc => ram.salt = ram.pub /\ ram.iv = ram.pub
    /\ ram.loaded /\ ram.unlocked /\ ram.priv # ram.pub =>
         "torn" \in spoiled \/ ("padding" \in spoiled /\ ram.priv = Garbled)
    /\ spoiled \cap {"failed", "torn"} = {} /\ step = 0 /\ ram.enc =>
         nvs.pub = ram.pub /\ SameKey(nvs) /\ ram.seed = ram.pub
    /\ "failed" \notin spoiled /\ step = 0 /\ IsLocked => ram.priv = 0
    /\ step = 0 /\ nvs.enc => ram.enc

KeyInv == KeyTypeOK /\ WritesInOrder /\ RecordWhole /\ MemoryWhole

LEMMA LoadedWhole ==
    ASSUME NEW n \in Parts
    PROVE  LET m == Loaded(n)
           IN  /\ m.enc => m.loaded /\ n.enc /\ m.salt = n.salt /\ m.iv = n.iv
                           /\ m.seed = n.seed /\ m.priv = 0 /\ ~m.unlocked
               /\ m.loaded => m.pub = n.pub /\ n.pub # 0
               /\ m.loaded /\ m.unlocked => ~n.enc /\ m.priv = n.priv
               /\ m.loaded /\ ~m.enc => m.unlocked
               /\ n.enc /\ HasParts(n) => m.enc
<1> DEFINE shown == [BlankRam EXCEPT !.pub = n.pub]
<1>1. BlankRam.loaded = FALSE /\ BlankRam.enc = FALSE
  BY DEF BlankRam
<1>2. shown.pub = n.pub /\ shown.loaded = FALSE /\ shown.enc = FALSE
  BY DEF BlankRam
<1> DEFINE sealed == [shown EXCEPT !.seed = n.seed, !.salt = n.salt, !.iv = n.iv,
                                  !.loaded = TRUE, !.enc = TRUE]
<1> DEFINE plain == [shown EXCEPT !.priv = n.priv, !.loaded = TRUE, !.unlocked = TRUE]
<1>3. sealed.pub = n.pub /\ sealed.seed = n.seed /\ sealed.salt = n.salt
      /\ sealed.iv = n.iv /\ sealed.priv = 0 /\ sealed.loaded = TRUE
      /\ sealed.enc = TRUE /\ sealed.unlocked = FALSE
  BY DEF BlankRam
<1>4. plain.pub = n.pub /\ plain.priv = n.priv /\ plain.loaded = TRUE /\ plain.enc = FALSE
      /\ plain.unlocked = TRUE
  BY DEF BlankRam
<1>5. CASE n.pub = 0
  BY <1>1, <1>5 DEF Loaded, HasParts
<1>6. CASE n.pub # 0 /\ n.enc /\ n.seed # 0 /\ n.salt # 0 /\ n.iv # 0
  <2>1. Loaded(n) = sealed
    BY <1>6 DEF Loaded
  <2> HIDE DEF sealed
  <2> QED BY <1>3, <1>6, <2>1
<1>7. CASE n.pub # 0 /\ ~n.enc /\ n.priv # 0
  <2>1. Loaded(n) = plain
    BY <1>7 DEF Loaded
  <2> HIDE DEF plain
  <2> QED BY <1>4, <1>7, <2>1
<1>8. CASE /\ n.pub # 0
           /\ ~(n.enc /\ n.seed # 0 /\ n.salt # 0 /\ n.iv # 0)
           /\ ~(~n.enc /\ n.priv # 0)
  <2>1. Loaded(n) = shown
    BY <1>8 DEF Loaded
  <2> HIDE DEF shown
  <2> QED BY <1>2, <1>8, <2>1 DEF HasParts
<1> QED BY <1>5, <1>6, <1>7, <1>8

(* What setup loads from a record that is whole satisfies the invariant.    *)
LEMMA FreshMemory ==
    ASSUME KeyTypeOK', ram' = Loaded(nvs'), step' = 0,
           "torn" \notin spoiled' => Whole(nvs'), nvs'.enc => HasParts(nvs')
    PROVE  KeyInv'
<1> DEFINE m == ram'
<1>1. /\ m.enc => m.loaded /\ nvs'.enc /\ m.salt = nvs'.salt /\ m.iv = nvs'.iv
                   /\ m.seed = nvs'.seed /\ m.priv = 0 /\ ~m.unlocked
      /\ m.loaded => m.pub = nvs'.pub /\ nvs'.pub # 0
      /\ m.loaded /\ m.unlocked => ~nvs'.enc /\ m.priv = nvs'.priv
      /\ m.loaded /\ ~m.enc => m.unlocked
      /\ nvs'.enc /\ HasParts(nvs') => m.enc
  BY LoadedWhole DEF KeyTypeOK
<1>2. WritesInOrder' /\ RecordWhole'
  BY DEF WritesInOrder, RecordWhole, HasParts
<1>3. MemoryWhole'
  BY <1>1 DEF MemoryWhole, Whole, SameKey, IsLocked, HasParts
<1> QED BY <1>2, <1>3 DEF KeyInv

LEMMA KeyInvInit ==
    ASSUME DeviceInit
    PROVE  KeyInv
<1>1. KeyTypeOK
  BY InitType
<1>2. ram = Loaded(nvs) /\ step = 0 /\ nvs \in Parts
  BY <1>1 DEF DeviceInit, KeyTypeOK
<1>3. Whole(nvs) /\ (nvs.enc => HasParts(nvs))
  <2>1. PICK kind \in {"empty", "sealed", "plain"} : nvs = FirstNvs(kind)
    BY ShippedAssumption DEF DeviceInit
  <2>2. CASE kind = "empty"
    BY <2>1, <2>2 DEF FirstNvs, EmptyNvs, Whole, HasParts
  <2>3. CASE kind = "sealed"
    BY <2>1, <2>3 DEF FirstNvs, Whole, SameKey, HasParts
  <2>4. CASE kind = "plain"
    <3>1. nvs = [EmptyNvs EXCEPT !.pub = 1, !.priv = 1]
      BY <2>1, <2>4 DEF FirstNvs
    <3> QED BY <3>1 DEF EmptyNvs, Whole, HasParts
  <2> QED BY <2>1, <2>2, <2>3, <2>4
<1>4. /\ ram.enc => ram.loaded /\ nvs.enc /\ ram.salt = nvs.salt /\ ram.iv = nvs.iv
                     /\ ram.seed = nvs.seed /\ ram.priv = 0 /\ ~ram.unlocked
      /\ ram.loaded => ram.pub = nvs.pub /\ nvs.pub # 0
      /\ ram.loaded /\ ram.unlocked => ~nvs.enc /\ ram.priv = nvs.priv
      /\ ram.loaded /\ ~ram.enc => ram.unlocked
      /\ nvs.enc /\ HasParts(nvs) => ram.enc
  BY <1>2, LoadedWhole
<1>5. MemoryWhole
  BY <1>2, <1>3, <1>4 DEF MemoryWhole, Whole, SameKey, IsLocked, HasParts
<1> QED BY <1>1, <1>2, <1>3, <1>5 DEF KeyInv, WritesInOrder, RecordWhole

(* A restart: a record is torn exactly when power was lost among its writes. *)
LEMMA KeyInvReset ==
    ASSUME KeyInv, Reset
    PROVE  KeyInv'
<1>1. KeyTypeOK'
  BY ResetType DEF KeyInv
<1>2. nvs' = nvs /\ ram' = Loaded(nvs') /\ step' = 0
  BY DEF Reset, storeVars
<1>3. step \in 0 .. 7
  BY DEF KeyInv, KeyTypeOK
<1>4. "torn" \notin spoiled' => Whole(nvs)
  <2> SUFFICES ASSUME "torn" \notin spoiled' PROVE Whole(nvs)
    OBVIOUS
  <2>1. step \notin 2 .. 5 /\ "torn" \notin spoiled
    BY DEF Reset
  <2>2. CASE step \in 0 .. 1
    BY <2>1, <2>2 DEF KeyInv, RecordWhole
  <2>3. CASE step \in 6 .. 7
    BY <2>3 DEF KeyInv, WritesInOrder, Whole, SameKey
  <2> QED BY <1>3, <2>1, <2>2, <2>3
<1>5. nvs.enc => HasParts(nvs)
  BY DEF KeyInv, RecordWhole
<1>6. nvs'.enc => HasParts(nvs')
  BY <1>2, <1>5 DEF HasParts
<1> QED BY <1>1, <1>2, <1>4, <1>6, FreshMemory

LEMMA KeyInvUnlock ==
    ASSUME KeyInv, NEW r, HandleUnlock(r)
    PROVE  KeyInv'
<1>1. KeyTypeOK' /\ step = 0 /\ UNCHANGED <<nvs, step>>
  BY UnlockType DEF KeyInv, HandleUnlock, Accept, Reads, storeVars
<1>2. CASE UNCHANGED <<ram, spoiled>>
  BY <1>1, <1>2 DEF KeyInv, WritesInOrder, RecordWhole, MemoryWhole, IsLocked
<1>3. ASSUME ram.loaded, ram.enc, ~ram.unlocked,
             NEW padding \in {"bad", "short"},
             LET seed == Decrypted(r.pw, padding)
             IN  /\ ram' = [ram EXCEPT !.priv = seed, !.unlocked = (seed # 0)]
                 /\ spoiled' = IF padding = "short" /\ seed = Garbled
                               THEN spoiled \cup {"padding"} ELSE spoiled
      PROVE  KeyInv'
  <2> DEFINE seed == Decrypted(r.pw, padding)
  <2>1. ram \in Memory /\ ram.seed \in 0 .. MaxKeys
    BY DEF KeyInv, KeyTypeOK, Memory
  <2>2. /\ ram'.priv = seed /\ ram'.unlocked = (seed # 0)
        /\ ram'.loaded = ram.loaded /\ ram'.enc = ram.enc /\ ram'.pub = ram.pub
        /\ ram'.seed = ram.seed /\ ram'.salt = ram.salt /\ ram'.iv = ram.iv
    BY <1>3, <2>1 DEF Memory
  <2>3. /\ seed # 0 /\ seed # ram.pub =>
             "torn" \in spoiled \/ ("padding" \in spoiled' /\ seed = Garbled)
        /\ "torn" \in spoiled' <=> "torn" \in spoiled
        /\ "failed" \in spoiled' <=> "failed" \in spoiled
    <3>1. spoiled' \in {spoiled, spoiled \cup {"padding"}}
          /\ (padding = "short" /\ seed = Garbled => "padding" \in spoiled')
      BY <1>3
    <3>2. ASSUME seed # 0, seed # ram.pub, "torn" \notin spoiled
          PROVE  "padding" \in spoiled' /\ seed = Garbled
      <4>1. ram.salt = ram.pub /\ ram.iv = ram.pub
        BY <1>3, <3>2 DEF KeyInv, MemoryWhole
      <4> QED BY <3>1, <3>2, <4>1 DEF Decrypted
    <3> QED BY <3>1, <3>2
  <2> HIDE DEF seed
  <2>4. MemoryWhole'
    BY <1>1, <1>3, <2>2, <2>3 DEF KeyInv, MemoryWhole, SameKey, IsLocked
  <2> QED BY <1>1, <2>3, <2>4 DEF KeyInv, WritesInOrder, RecordWhole
<1>4. CASE ram.enc /\ ~ram.unlocked /\ ram' = [ram EXCEPT !.priv = 0] /\ UNCHANGED spoiled
  <2>1. /\ ram'.priv = 0 /\ ram'.unlocked = ram.unlocked
        /\ ram'.loaded = ram.loaded /\ ram'.enc = ram.enc /\ ram'.pub = ram.pub
        /\ ram'.seed = ram.seed /\ ram'.salt = ram.salt /\ ram'.iv = ram.iv
    BY <1>4 DEF KeyInv, KeyTypeOK, Memory
  <2>2. MemoryWhole'
    BY <1>1, <1>4, <2>1 DEF KeyInv, MemoryWhole, SameKey, IsLocked
  <2> QED BY <1>1, <1>4, <2>2 DEF KeyInv, WritesInOrder, RecordWhole
<1> QED BY <1>2, <1>3, <1>4 DEF HandleUnlock

LEMMA KeyInvLock ==
    ASSUME KeyInv, NEW r, HandleLock(r)
    PROVE  KeyInv'
<1>1. KeyTypeOK' /\ step = 0 /\ UNCHANGED <<nvs, step, spoiled>>
  BY LockType DEF KeyInv, HandleLock, Accept, Reads, storeVars
<1>2. CASE UNCHANGED ram
  BY <1>1, <1>2 DEF KeyInv, WritesInOrder, RecordWhole, MemoryWhole, IsLocked
<1>3. CASE ram.enc /\ ram' = [ram EXCEPT !.priv = 0, !.unlocked = FALSE]
  <2>1. ram \in Memory
    BY DEF KeyInv, KeyTypeOK
  <2>2. /\ ram'.priv = 0 /\ ram'.unlocked = FALSE
        /\ ram'.loaded = ram.loaded /\ ram'.enc = ram.enc /\ ram'.pub = ram.pub
        /\ ram'.seed = ram.seed /\ ram'.salt = ram.salt /\ ram'.iv = ram.iv
    BY <1>3, <2>1 DEF Memory
  <2>3. MemoryWhole'
    BY <1>1, <1>3, <2>2 DEF KeyInv, MemoryWhole, SameKey, IsLocked
  <2> QED BY <1>1, <2>3 DEF KeyInv, WritesInOrder, RecordWhole
<1> QED BY <1>2, <1>3 DEF HandleLock

LEMMA KeyInvGenerate ==
    ASSUME KeyInv, NEW r, HandleGenerate(r)
    PROVE  KeyInv'
<1>1. KeyTypeOK' /\ step = 0 /\ nvs' = nvs /\ ram \in Memory /\ keys \in Nat
  BY GenerateType, KeyNumbers DEF KeyInv, HandleGenerate, Accept, Reads, KeyTypeOK
<1>2. CASE UNCHANGED <<ram, step, spoiled>>
  BY <1>1, <1>2 DEF KeyInv, WritesInOrder, RecordWhole, MemoryWhole, IsLocked
<1> DEFINE k == keys + 1
<1>3. /\ NewPair.pub = k /\ NewPair.priv = k /\ NewPair.salt = k /\ NewPair.iv = k
      /\ NewPair.loaded = ram.loaded /\ NewPair.enc = ram.enc
      /\ NewPair.unlocked = ram.unlocked /\ k # 0
  BY <1>1 DEF NewPair, Memory
<1>4. CASE ram' = [NewPair EXCEPT !.seed = k] /\ step' = 1 /\ spoiled' = spoiled
  <2>1. /\ ram'.pub = k /\ ram'.priv = k /\ ram'.salt = k /\ ram'.iv = k /\ ram'.seed = k
        /\ ram'.loaded = ram.loaded /\ ram'.enc = ram.enc /\ ram'.unlocked = ram.unlocked
    <3>1. DOMAIN NewPair = {"pub", "seed", "salt", "iv", "priv", "loaded", "enc", "unlocked"}
      BY <1>1 DEF NewPair, Memory
    <3> QED BY <1>3, <1>4, <3>1
  <2> HIDE DEF k
  <2>2. MemoryWhole'
    BY <1>1, <1>3, <1>4, <2>1 DEF KeyInv, MemoryWhole
  <2> QED BY <1>1, <1>3, <1>4, <2>1, <2>2 DEF KeyInv, WritesInOrder, RecordWhole, SameKey
<1>5. CASE ram' = NewPair /\ step' = step /\ spoiled' = spoiled \cup {"failed"}
  <2> HIDE DEF k
  <2>1. MemoryWhole'
    BY <1>1, <1>3, <1>5 DEF KeyInv, MemoryWhole
  <2> QED BY <1>1, <1>5, <2>1 DEF KeyInv, WritesInOrder, RecordWhole
<1> QED BY <1>2, <1>4, <1>5 DEF HandleGenerate
(* The i-th write puts the i-th part of the new key into the record.        *)
LEMMA KeyInvWrite ==
    ASSUME KeyInv, WriteNvs
    PROVE  KeyInv'
<1>1. KeyTypeOK' /\ UNCHANGED <<ram, spoiled>>
  BY WritesType DEF KeyInv, WriteNvs
<1>2. nvs \in Parts /\ step \in 1 .. 6 /\ step' = step + 1 /\ nvs' = Put(step, nvs)
  BY DEF KeyInv, KeyTypeOK, WriteNvs
<1>3. /\ ram.pub # 0 /\ SameKey(ram) /\ ram.priv = ram.pub
      /\ step >= 2 => nvs.pub = ram.pub
      /\ step >= 3 => nvs.seed = ram.pub
      /\ step >= 4 => nvs.salt = ram.pub
      /\ step >= 5 => nvs.iv = ram.pub
      /\ step >= 6 => nvs.enc
      /\ nvs.enc => HasParts(nvs)
  BY <1>2 DEF KeyInv, WritesInOrder, RecordWhole
<1>4. /\ step = 1 => nvs' = [nvs EXCEPT !.pub = ram.pub]
      /\ step = 2 => nvs' = [nvs EXCEPT !.seed = ram.seed]
      /\ step = 3 => nvs' = [nvs EXCEPT !.salt = ram.salt]
      /\ step = 4 => nvs' = [nvs EXCEPT !.iv = ram.iv]
      /\ step = 5 => nvs' = [nvs EXCEPT !.enc = TRUE]
      /\ step = 6 => nvs' = [nvs EXCEPT !.priv = 0]
  BY <1>2 DEF Put
<1>5. /\ nvs'.pub = IF step = 1 THEN ram.pub ELSE nvs.pub
      /\ nvs'.seed = IF step = 2 THEN ram.seed ELSE nvs.seed
      /\ nvs'.salt = IF step = 3 THEN ram.salt ELSE nvs.salt
      /\ nvs'.iv = IF step = 4 THEN ram.iv ELSE nvs.iv
      /\ nvs'.enc = IF step = 5 THEN TRUE ELSE nvs.enc
      /\ step = 6 => nvs'.priv = 0
  <2>0. nvs \in Parts
    BY <1>2
  <2>1. CASE step = 1
    <3>1. nvs' = [nvs EXCEPT !.pub = ram.pub]
      BY <1>4, <2>1
    <3> QED BY <2>0, <2>1, <3>1 DEF Parts
  <2>2. CASE step = 2
    <3>1. nvs' = [nvs EXCEPT !.seed = ram.seed]
      BY <1>4, <2>2
    <3> QED BY <2>0, <2>2, <3>1 DEF Parts
  <2>3. CASE step = 3
    <3>1. nvs' = [nvs EXCEPT !.salt = ram.salt]
      BY <1>4, <2>3
    <3> QED BY <2>0, <2>3, <3>1 DEF Parts
  <2>4. CASE step = 4
    <3>1. nvs' = [nvs EXCEPT !.iv = ram.iv]
      BY <1>4, <2>4
    <3> QED BY <2>0, <2>4, <3>1 DEF Parts
  <2>5. CASE step = 5
    <3>1. nvs' = [nvs EXCEPT !.enc = TRUE]
      BY <1>4, <2>5
    <3> QED BY <2>0, <2>5, <3>1 DEF Parts
  <2>6. CASE step = 6
    <3>1. nvs' = [nvs EXCEPT !.priv = 0]
      BY <1>4, <2>6
    <3> QED BY <2>0, <2>6, <3>1 DEF Parts
  <2>7. step = 1 \/ step = 2 \/ step = 3 \/ step = 4 \/ step = 5 \/ step = 6
    BY <1>2
  <2> QED BY <2>1, <2>2, <2>3, <2>4, <2>5, <2>6, <2>7
<1>6. WritesInOrder'
  BY <1>1, <1>2, <1>3, <1>5 DEF WritesInOrder, SameKey
<1>7. RecordWhole'
  <2>0. /\ nvs.pub # 0 => nvs'.pub # 0
        /\ nvs.seed # 0 => nvs'.seed # 0
        /\ nvs.salt # 0 => nvs'.salt # 0
        /\ nvs.iv # 0 => nvs'.iv # 0
    BY <1>3, <1>5 DEF SameKey
  <2>1. ASSUME nvs'.enc PROVE HasParts(nvs')
    <3>1. CASE nvs.enc
      BY <1>3, <2>0, <3>1 DEF HasParts
    <3>2. CASE step = 5
      BY <1>3, <2>0, <3>2 DEF HasParts
    <3> QED BY <1>5, <2>1, <3>1, <3>2
  <2> QED BY <1>2, <2>1 DEF RecordWhole, HasParts
<1>8. MemoryWhole'
  BY <1>1, <1>2, <1>5 DEF KeyInv, MemoryWhole
<1> QED BY <1>1, <1>6, <1>7, <1>8 DEF KeyInv

LEMMA KeyInvFinish ==
    ASSUME KeyInv, FinishGenerate
    PROVE  KeyInv'
<1>1. KeyTypeOK' /\ step = 7 /\ step' = 0 /\ nvs' = nvs /\ ram \in Memory
  BY WritesType DEF KeyInv, KeyTypeOK, FinishGenerate, storeVars
<1>2. /\ ram.pub # 0 /\ SameKey(ram)
      /\ nvs.pub = ram.pub /\ SameKey(nvs) /\ nvs.enc
  BY <1>1 DEF KeyInv, WritesInOrder, SameKey
<1>3. ram' = [ram EXCEPT !.priv = 0, !.loaded = TRUE, !.enc = TRUE, !.unlocked = FALSE]
  BY DEF FinishGenerate
<1>4. /\ ram'.priv = 0 /\ ram'.loaded /\ ram'.enc /\ ~ram'.unlocked
      /\ ram'.pub = ram.pub /\ ram'.seed = ram.seed /\ ram'.salt = ram.salt
      /\ ram'.iv = ram.iv
  BY <1>1, <1>3 DEF Memory
<1>5. MemoryWhole'
  BY <1>1, <1>2, <1>4 DEF MemoryWhole, SameKey
<1>6. nvs'.enc => HasParts(nvs')
  BY <1>1, <1>2 DEF SameKey, HasParts
<1> QED BY <1>1, <1>2, <1>5, <1>6 DEF KeyInv, WritesInOrder, RecordWhole, Whole, SameKey, HasParts

LEMMA KeyInvSteps ==
    ASSUME KeyInv, DeviceNext
    PROVE  KeyInv'
<1>1. ASSUME NEW r,
             HandleSign(r) \/ HandleShow(r) \/ HandleUnknown(r)
               \/ HandleHuge(r) \/ HandleFragment(r)
      PROVE  KeyInv'
  <2>1. KeyTypeOK' /\ UNCHANGED devVars
    BY <1>1, AnswersType, DebrisType DEF KeyInv, HandleSign, HandleShow, HandleUnknown,
       HandleHuge, HandleFragment
  <2> QED BY <2>1 DEF KeyInv, WritesInOrder, RecordWhole, MemoryWhole, IsLocked, HasParts,
                      devVars
<1> QED BY <1>1, KeyInvReset, KeyInvUnlock, KeyInvLock, KeyInvGenerate, KeyInvWrite,
           KeyInvFinish DEF DeviceNext, DeviceStep

(* The programs on the host only reach the line.                            *)
LEMMA KeyInvHost ==
    ASSUME KeyInv, UNCHANGED devVars,
           toDev' \in Seq(Request), fromDev' \in Seq(Item)
    PROVE  KeyInv'
  BY DEF KeyInv, KeyTypeOK, WritesInOrder, RecordWhole, MemoryWhole, IsLocked, devVars

(* A reader of the line leaves a sequence of items on it.                   *)
LEMMA ReadersType ==
    ASSUME fromDev \in Seq(Item), Skip \/ Take \/ Misread \/ Abandon
    PROVE  fromDev' \in Seq(Item)
<1>1. Rest \in Item
  BY DEF Rest, Item, AnswerTypes
<1>2. CASE Skip \/ Take
  <2>1. fromDev # << >> /\ fromDev' = Tail(fromDev)
    BY <1>2 DEF Skip, Take, NextIs
  <2> QED BY <2>1, HeadTailProperties
<1>3. CASE Misread
  <2>1. PICK n \in 1 .. Len(fromDev), remains \in {<< >>, <<Rest>>} :
            fromDev' = remains \o SubSeq(fromDev, n + 1, Len(fromDev))
    BY <1>3 DEF Misread
  <2>2. SubSeq(fromDev, n + 1, Len(fromDev)) \in Seq(Item)
    BY SubSeqProperties, LenProperties
  <2>3. << >> \in Seq(Item) /\ <<Rest>> \in Seq(Item)
    BY <1>1, EmptySeq
  <2> QED BY <2>1, <2>2, <2>3, ConcatProperties
<1>4. CASE Abandon
  <2>1. CASE fromDev # << >> /\ fromDev' = [fromDev EXCEPT ![1] = Rest]
    BY <1>1, <2>1
  <2> QED BY <1>4, <2>1 DEF Abandon, NextIs
<1> QED BY <1>2, <1>3, <1>4

(* The two promises of the stored key follow from the invariant.            *)
LEMMA KeyInvImplies ==
    KeyInv => SignsWithOwnKey /\ LockedForgets
<1> SUFFICES ASSUME KeyInv PROVE SignsWithOwnKey /\ LockedForgets
  OBVIOUS
<1>1. SignsWithOwnKey
  BY DEF KeyInv, MemoryWhole, SignsWithOwnKey
<1>2. ASSUME IsLocked, step = 0, "torn" \notin spoiled
      PROVE  nvs.enc /\ {nvs.seed, nvs.salt, nvs.iv} = {nvs.pub}
  BY <1>2 DEF KeyInv, MemoryWhole, RecordWhole, HasParts, Whole, SameKey, IsLocked
<1> QED BY <1>1, <1>2 DEF KeyInv, MemoryWhole, LockedForgets, IsLocked

--------------------------------------------------------------------------------
(***************************************************************************)
(* The line                                                                *)
(***************************************************************************)

(* The answers on their way to the host keep the order of their requests:   *)
(* whoever numbers the requests in ascending order finds the answers so.    *)
(* Low bounds what is on the line from below, high from above.              *)
Ordered(low, high) ==
    /\ \A i \in DOMAIN toDev : toDev[i].id \in low .. high
    /\ \A i, j \in DOMAIN toDev : i <= j => toDev[i].id <= toDev[j].id
    /\ step # 0 =>
         /\ serving.id \in low .. high
         /\ \A j \in DOMAIN toDev : serving.id <= toDev[j].id
    /\ \A i \in DOMAIN fromDev : fromDev[i].part = "frame" =>
         /\ fromDev[i].id \in low .. high
         /\ step # 0 => fromDev[i].id <= serving.id
         /\ \A j \in DOMAIN toDev : fromDev[i].id <= toDev[j].id
    /\ \A i, j \in DOMAIN fromDev :
         i <= j /\ fromDev[i].part = "frame" /\ fromDev[j].part = "frame" =>
           fromDev[i].id <= fromDev[j].id
(* Nothing but text and one item f is added to what the host has to read.   *)
Prints(f) ==
    \A i \in DOMAIN fromDev' :
        \/ i \in DOMAIN fromDev /\ fromDev'[i] = fromDev[i]
        \/ i \notin DOMAIN fromDev /\ fromDev'[i] \in {Text, f}

(* The device takes the first k requests, of which r is the first; out of   *)
(* step it reads n others in their place.                                   *)
Handles(r, n, k) ==
    /\ step = 0 /\ toDev # << >> /\ r = toDev[1] /\ r \in Request
    /\ n \in Nat /\ k \in 1 .. Len(toDev) /\ Len(toDev') = n + (Len(toDev) - k)
    /\ \A i \in DOMAIN toDev' :
          \/ i <= n /\ toDev'[i].id = r.id
          \/ i > n /\ toDev'[i] = toDev[(i - n) + k] /\ (i - n) + k \in DOMAIN toDev
    /\ n # 0 \/ k # 1 => r.kind \in {"huge", "fragment"}

LEMMA PrintsWhat ==
    ASSUME fromDev \in Seq(Item), NEW f \in Item,
           \/ fromDev' = fromDev \/ fromDev' = Append(fromDev, Text)
           \/ fromDev' = Append(fromDev, f) \/ fromDev' = Append(Append(fromDev, Text), f)
    PROVE  Prints(f)
<1>1. Text \in Item
  BY DEF Text, Item, AnswerTypes
<1>2. ASSUME NEW s \in Seq(Item), NEW e \in Item
      PROVE  /\ Append(s, e) \in Seq(Item) /\ DOMAIN s \subseteq DOMAIN Append(s, e)
             /\ \A i \in DOMAIN Append(s, e) :
                   \/ i \in DOMAIN s /\ Append(s, e)[i] = s[i]
                   \/ i \notin DOMAIN s /\ Append(s, e)[i] = e
  OBVIOUS
<1>3. CASE fromDev' = fromDev
  BY <1>3 DEF Prints
<1>4. CASE fromDev' = Append(fromDev, Text)
  BY <1>1, <1>2, <1>4 DEF Prints
<1>5. CASE fromDev' = Append(fromDev, f)
  BY <1>2, <1>5 DEF Prints
<1>6. CASE fromDev' = Append(Append(fromDev, Text), f)
  <2> DEFINE s == Append(fromDev, Text)
  <2>1. /\ s \in Seq(Item) /\ DOMAIN fromDev \subseteq DOMAIN s
        /\ \A i \in DOMAIN s :
              \/ i \in DOMAIN fromDev /\ s[i] = fromDev[i]
              \/ i \notin DOMAIN fromDev /\ s[i] = Text
    BY <1>1, <1>2
  <2> HIDE DEF s
  <2>2. \A i \in DOMAIN fromDev' : (i \in DOMAIN s /\ fromDev'[i] = s[i])
                                   \/ (i \notin DOMAIN s /\ fromDev'[i] = f)
    BY <1>2, <1>6, <2>1 DEF s
  <2> QED BY <2>1, <2>2 DEF Prints
<1> QED BY <1>3, <1>4, <1>5, <1>6

LEMMA AcceptHandles ==
    ASSUME KeyTypeOK, NEW r, NEW kinds, Accept(r, kinds)
    PROVE  Handles(r, 0, 1) /\ r.kind \in kinds
<1>1. /\ toDev \in Seq(Request) /\ toDev # << >> /\ r = Head(toDev) /\ toDev' = Tail(toDev)
      /\ step = 0 /\ r.kind \in kinds
  BY DEF Accept, Reads, KeyTypeOK
<1>2. Len(toDev) \in Nat /\ Len(toDev) # 0 /\ r = toDev[1] /\ r \in Request
  BY <1>1, EmptySeq
<1>3. Len(toDev') = Len(toDev) - 1 /\ DOMAIN toDev' = 1 .. Len(toDev) - 1
      /\ \A i \in DOMAIN toDev' : toDev'[i] = toDev[i + 1]
  BY <1>1, <1>2
<1>4. DOMAIN toDev = 1 .. Len(toDev)
  BY <1>1
<1>5. \A i \in DOMAIN toDev' : i > 0 /\ toDev'[i] = toDev[(i - 0) + 1]
                               /\ (i - 0) + 1 \in DOMAIN toDev
  BY <1>2, <1>3, <1>4
<1> QED BY <1>1, <1>2, <1>3, <1>5 DEF Handles

LEMMA DebrisHandles ==
    ASSUME KeyTypeOK, NEW r, HandleHuge(r) \/ HandleFragment(r)
    PROVE  \E n, k \in Nat : Handles(r, n, k)
<1>1. /\ toDev \in Seq(Request) /\ toDev # << >> /\ r = Head(toDev) /\ step = 0
      /\ r.kind \in {"huge", "fragment"}
  BY DEF KeyTypeOK, HandleHuge, HandleFragment, Reads
<1>2. Len(toDev) \in Nat /\ Len(toDev) # 0 /\ r = toDev[1] /\ r \in Request
  BY <1>1, EmptySeq
<1>3. ASSUME NEW k \in 1 .. Len(toDev), NEW rest \in Seq(Request), OutOfStep(r, rest),
             Len(rest) = Len(toDev) - k,
             \A i \in 1 .. Len(rest) : rest[i] = toDev[i + k]
      PROVE  \E n, m \in Nat : Handles(r, n, m)
  <2>1. PICK n \in 0 .. MaxBody :
            /\ Len(toDev') = n + Len(rest)
            /\ \A i \in 1 .. n : toDev'[i].id = r.id
            /\ \A i \in 1 .. Len(rest) : toDev'[n + i] = rest[i]
    BY <1>2, <1>3, OutOfStepType
  <2>2. n \in Nat /\ toDev' \in Seq(Request)
    BY <1>2, <1>3, BoundAssumption, OutOfStepType
  <2>3. ASSUME NEW i \in DOMAIN toDev'
        PROVE  \/ i <= n /\ toDev'[i].id = r.id
               \/ i > n /\ toDev'[i] = toDev[(i - n) + k] /\ (i - n) + k \in DOMAIN toDev
    <3>1. i \in 1 .. n + Len(rest) /\ Len(rest) \in Nat
      BY <1>3, <2>1, <2>2
    <3>2. CASE i <= n
      BY <2>1, <2>2, <3>1, <3>2
    <3>3. CASE i > n
      <4>1. i - n \in 1 .. Len(rest) /\ n + (i - n) = i
        BY <2>2, <3>1, <3>3
      <4>2. toDev'[n + (i - n)] = rest[i - n] /\ rest[i - n] = toDev[(i - n) + k]
        BY <1>3, <2>1, <4>1
      <4>3. (i - n) + k \in 1 .. Len(toDev) /\ DOMAIN toDev = 1 .. Len(toDev)
        BY <1>1, <1>2, <1>3, <4>1
      <4> QED BY <3>3, <4>1, <4>2, <4>3
    <3> QED BY <2>2, <3>1, <3>2, <3>3
  <2>4. Handles(r, n, k)
    BY <1>1, <1>2, <1>3, <2>1, <2>2, <2>3 DEF Handles
  <2> QED BY <1>2, <1>3, <2>2, <2>4
<1>4. /\ Tail(toDev) \in Seq(Request) /\ Len(Tail(toDev)) = Len(toDev) - 1
      /\ \A i \in 1 .. Len(Tail(toDev)) : Tail(toDev)[i] = toDev[i + 1]
  BY <1>1, <1>2
<1>5. CASE OutOfStep(r, Tail(toDev))
  <2>1. 1 \in 1 .. Len(toDev)
    BY <1>2
  <2> QED BY <1>3, <1>4, <1>5, <2>1
<1>6. CASE Len(toDev) > 1 /\ OutOfStep(r, Tail(Tail(toDev)))
  <2> DEFINE t == Tail(toDev)
  <2>1. t \in Seq(Request) /\ t # << >> /\ Len(t) = Len(toDev) - 1
    <3>1. Len(t) # 0
      BY <1>2, <1>4, <1>6
    <3> QED BY <1>4, <3>1, EmptySeq
  <2>2. \A i \in 1 .. Len(t) : t[i] = toDev[i + 1]
    BY <1>4
  <2> HIDE DEF t
  <2>3. /\ Tail(t) \in Seq(Request) /\ Len(Tail(t)) = Len(t) - 1
        /\ \A i \in 1 .. Len(Tail(t)) : Tail(t)[i] = t[i + 1]
    BY <2>1
  <2>4. ASSUME NEW i \in 1 .. Len(Tail(t)) PROVE Tail(t)[i] = toDev[i + 2]
    <3>1. i + 1 \in 1 .. Len(t) /\ (i + 1) + 1 = i + 2
      BY <1>2, <2>1, <2>3
    <3> QED BY <2>2, <2>3, <3>1
  <2>5. OutOfStep(r, Tail(t)) /\ 2 \in 1 .. Len(toDev) /\ Len(Tail(t)) = Len(toDev) - 2
    BY <1>2, <1>6, <2>1, <2>3 DEF t
  <2> QED BY <1>3, <2>3, <2>4, <2>5
<1>7. CASE toDev' = Tail(toDev)
  <2>1. \A i \in DOMAIN toDev' : i > 0 /\ toDev'[i] = toDev[(i - 0) + 1]
                                 /\ (i - 0) + 1 \in DOMAIN toDev
    BY <1>1, <1>2, <1>7
  <2>2. Len(toDev') = 0 + (Len(toDev) - 1) /\ 1 \in 1 .. Len(toDev)
    BY <1>2, <1>4, <1>7
  <2>3. Handles(r, 0, 1)
    BY <1>1, <1>2, <2>1, <2>2 DEF Handles
  <2> QED BY <2>3
<1> QED BY <1>5, <1>6, <1>7 DEF HandleHuge, HandleFragment

(* What a step of the device does to the line.                              *)
LEMMA DeviceLine ==
    ASSUME KeyTypeOK, DeviceNext
    PROVE  \/ toDev' = << >> /\ step' = 0 /\ Prints(Text)
           \/ UNCHANGED <<toDev, fromDev, serving>> /\ step # 0 /\ step' # 0
           \/ /\ UNCHANGED toDev /\ step # 0 /\ step' = 0
              /\ \E f : f.part = "frame" /\ f.id = serving.id /\ Prints(f)
           \/ \E r : \E n, k \in Nat :
                /\ Handles(r, n, k)
                /\ \/ step' = 0 /\ \E f : f.part = "frame" /\ f.id = r.id /\ Prints(f)
                   \/ step' # 0 /\ serving' = r /\ r.kind = "generate" /\ UNCHANGED fromDev
<1>1. fromDev \in Seq(Item) /\ serving \in Request /\ ram.priv \in Int /\ ram.pub \in Int
      /\ Text \in Item
  BY BoundAssumption DEF KeyTypeOK, Memory, Garbled, Text, Item, AnswerTypes
<1>2. ASSUME NEW r \in Request, NEW type \in AnswerTypes, NEW key \in Int,
             Answer(r, type, key) \/ SayAndAnswer(r, type) \/ UNCHANGED fromDev
      PROVE  \E f : f.part = "frame" /\ f.id = r.id /\ Prints(f)
  <2>1. Frame(r, type, key) \in Item /\ Frame(r, type, 0) \in Item
    BY Lines
  <2>2. /\ Frame(r, type, key).part = "frame" /\ Frame(r, type, key).id = r.id
        /\ Frame(r, type, 0).part = "frame" /\ Frame(r, type, 0).id = r.id
    BY DEF Frame
  <2>3. Prints(Frame(r, type, key)) \/ Prints(Frame(r, type, 0))
    BY <1>1, <1>2, <2>1, PrintsWhat DEF Answer, SayAndAnswer
  <2> QED BY <2>2, <2>3
<1>3. CASE Reset
  BY <1>1, <1>3, PrintsWhat DEF Reset
<1>4. CASE WriteNvs
  BY <1>4 DEF WriteNvs, lineVars, KeyTypeOK
<1>5. CASE FinishGenerate
  <2>1. SayAndAnswer(serving, "success") /\ "success" \in AnswerTypes /\ 0 \in Int
    BY <1>5 DEF FinishGenerate, AnswerTypes
  <2> QED BY <1>1, <1>2, <1>5, <2>1 DEF FinishGenerate
<1>6. ASSUME NEW r, HandleHuge(r) \/ HandleFragment(r)
      PROVE  /\ \E n, k \in Nat : Handles(r, n, k)
             /\ step' = 0 /\ \E f : f.part = "frame" /\ f.id = r.id /\ Prints(f)
  <2>1. UNCHANGED fromDev /\ step' = step /\ step = 0
    BY <1>6 DEF HandleHuge, HandleFragment, Reads, devVars
  <2>2. \E n, k \in Nat : Handles(r, n, k)
    BY <1>6, DebrisHandles
  <2>3. r \in Request /\ "failure" \in AnswerTypes /\ 0 \in Int
    BY <2>2 DEF Handles, AnswerTypes
  <2>4. \E f : f.part = "frame" /\ f.id = r.id /\ Prints(f)
    BY <1>2, <2>1, <2>3
  <2> QED BY <2>1, <2>2, <2>4
<1>7. ASSUME NEW r, HandleSign(r) \/ HandleShow(r) \/ HandleUnlock(r) \/ HandleLock(r)
                      \/ HandleUnknown(r) \/ HandleGenerate(r)
      PROVE  /\ Handles(r, 0, 1)
             /\ \/ step' = 0 /\ \E f : f.part = "frame" /\ f.id = r.id /\ Prints(f)
                \/ step' # 0 /\ serving' = r /\ r.kind = "generate" /\ UNCHANGED fromDev
  <2>1. PICK kinds : Accept(r, kinds)
    BY <1>7 DEF HandleSign, HandleShow, HandleUnlock, HandleLock, HandleUnknown, HandleGenerate
  <2>2. Handles(r, 0, 1) /\ step = 0 /\ r \in Request
    BY <2>1, AcceptHandles DEF Handles
  <2>3. {"success", "failure", "signature", "locked"} \subseteq AnswerTypes /\ 0 \in Int
    BY DEF AnswerTypes
  <2>4. CASE HandleGenerate(r)
    <3>1. r.kind = "generate"
      BY <2>4, AcceptHandles DEF HandleGenerate
    <3> QED BY <1>2, <2>2, <2>3, <2>4, <3>1 DEF HandleGenerate
  <2>5. CASE HandleUnlock(r)
    BY <1>2, <2>2, <2>3, <2>5 DEF HandleUnlock
  <2>6. CASE HandleLock(r)
    BY <1>2, <2>2, <2>3, <2>6 DEF HandleLock
  <2>7. CASE HandleUnknown(r)
    BY <1>2, <2>2, <2>3, <2>7 DEF HandleUnknown, devVars
  <2>8. CASE HandleSign(r)
    <3>1. SignOutcome(r)[1] \in AnswerTypes /\ SignOutcome(r)[2] \in Int
      BY <1>1, <2>3 DEF SignOutcome
    <3> QED BY <1>2, <2>2, <2>8, <3>1 DEF HandleSign, devVars
  <2>9. CASE HandleShow(r)
    <3>1. r.kind \in AnswerTypes
      BY <2>9, AcceptHandles DEF HandleShow, AnswerTypes
    <3> QED BY <1>1, <1>2, <2>2, <2>3, <2>9, <3>1 DEF HandleShow, devVars
  <2> QED BY <1>7, <2>4, <2>5, <2>6, <2>7, <2>8, <2>9
<1>8. 0 \in Nat /\ 1 \in Nat
  OBVIOUS
<1>9. CASE DeviceStep
  <2>1. CASE \E r : HandleHuge(r) \/ HandleFragment(r)
    BY <1>6, <2>1
  <2>2. CASE \E r : HandleSign(r) \/ HandleShow(r) \/ HandleUnlock(r) \/ HandleLock(r)
                      \/ HandleUnknown(r) \/ HandleGenerate(r)
    BY <1>7, <1>8, <2>2
  <2> QED BY <1>4, <1>5, <1>9, <2>1, <2>2 DEF DeviceStep
<1> QED BY <1>3, <1>9 DEF DeviceNext

--------------------------------------------------------------------------------
(***************************************************************************)
(* What holds of the line whoever numbers requests in ascending order      *)
(***************************************************************************)

(* The request numbered id is the last on the line, and its answer is not   *)
(* there before the device has done with it.                                *)
LastOnLine(id) ==
    /\ \A i \in DOMAIN toDev :
          /\ toDev[i].id <= id
          /\ toDev[i].id = id => i = Len(toDev) /\ toDev[i].kind \notin {"huge", "fragment"}
    /\ step # 0 => serving.id <= id /\ (serving.id = id => toDev = << >>)
    /\ \A i \in DOMAIN fromDev :
          fromDev[i].part = "frame" /\ fromDev[i].id = id => toDev = << >> /\ step = 0

LEMMA LineNumbers ==
    ASSUME KeyTypeOK
    PROVE  /\ serving.id \in Nat
           /\ \A i \in DOMAIN toDev : toDev[i] \in Request /\ toDev[i].id \in Nat
           /\ \A i \in DOMAIN fromDev : fromDev[i] \in Item /\ fromDev[i].id \in Nat
<1>1. \A i \in DOMAIN toDev : toDev[i] \in Request
  BY DEF KeyTypeOK
<1>2. \A i \in DOMAIN fromDev : fromDev[i] \in Item
  BY DEF KeyTypeOK
<1>3. serving \in Request
  BY DEF KeyTypeOK
<1> QED BY <1>1, <1>2, <1>3 DEF Request, Item

LEMMA OrderedStays ==
    ASSUME KeyTypeOK, KeyTypeOK', DeviceNext, NEW low \in Nat, NEW high \in Nat,
           Ordered(low, high)
    PROVE  Ordered(low, high)'
<1>1. Text.part = "text"
  BY DEF Text
<1>2. /\ toDev \in Seq(Request) /\ fromDev \in Seq(Item) /\ serving.id \in Nat
      /\ DOMAIN toDev \subseteq Nat /\ DOMAIN fromDev \subseteq Nat
      /\ \A i \in DOMAIN toDev : toDev[i].id \in Nat
      /\ \A i \in DOMAIN fromDev : fromDev[i].id \in Nat
  BY LineNumbers DEF KeyTypeOK
<1>3. /\ DOMAIN toDev' \subseteq Nat /\ DOMAIN fromDev' = 1 .. Len(fromDev')
      /\ Len(fromDev') \in Nat /\ DOMAIN fromDev = 1 .. Len(fromDev) /\ Len(fromDev) \in Nat
      /\ DOMAIN fromDev' \subseteq Nat
  BY DEF KeyTypeOK
<1>4. ASSUME NEW i \in DOMAIN fromDev', NEW j \in DOMAIN fromDev', i <= j, j \in DOMAIN fromDev
      PROVE  i \in DOMAIN fromDev
  BY <1>3, <1>4
<1>5. CASE toDev' = << >> /\ step' = 0 /\ Prints(Text)
  <2>1. DOMAIN toDev' = {}
    BY <1>5
  <2>2. \A i \in DOMAIN fromDev' : fromDev'[i].part = "frame" =>
            i \in DOMAIN fromDev /\ fromDev'[i] = fromDev[i]
    BY <1>1, <1>5 DEF Prints
  <2> QED BY <1>5, <2>1, <2>2 DEF Ordered
<1>6. CASE UNCHANGED <<toDev, fromDev, serving>> /\ step # 0 /\ step' # 0
  BY <1>6 DEF Ordered
<1>7. ASSUME NEW f, f.part = "frame", f.id = serving.id, Prints(f), UNCHANGED toDev,
             step # 0, step' = 0
      PROVE  Ordered(low, high)'
  <2>1. \A i \in DOMAIN fromDev' : fromDev'[i].part = "frame" =>
            \/ i \in DOMAIN fromDev /\ fromDev'[i] = fromDev[i]
            \/ i \notin DOMAIN fromDev /\ fromDev'[i] = f
    BY <1>1, <1>7 DEF Prints
  <2>2. ASSUME NEW i \in DOMAIN fromDev', fromDev'[i].part = "frame"
        PROVE  /\ fromDev'[i].id \in low .. high
               /\ \A j \in DOMAIN toDev' : fromDev'[i].id <= toDev'[j].id
    BY <1>7, <2>1, <2>2 DEF Ordered
  <2>3. ASSUME NEW i \in DOMAIN fromDev', NEW j \in DOMAIN fromDev', i <= j,
               fromDev'[i].part = "frame", fromDev'[j].part = "frame"
        PROVE  fromDev'[i].id <= fromDev'[j].id
    <3>1. CASE j \in DOMAIN fromDev
      <4>1. i \in DOMAIN fromDev /\ fromDev'[i] = fromDev[i] /\ fromDev'[j] = fromDev[j]
        BY <1>4, <2>1, <2>3, <3>1
      <4> QED BY <2>3, <3>1, <4>1 DEF Ordered
    <3>2. CASE j \notin DOMAIN fromDev
      <4>1. fromDev'[j].id = serving.id
        BY <1>7, <2>1, <2>3, <3>2
      <4>2. fromDev'[i].id <= serving.id
        BY <1>2, <1>7, <2>1, <2>3 DEF Ordered
      <4> QED BY <4>1, <4>2
    <3> QED BY <3>1, <3>2
  <2> QED BY <1>7, <2>2, <2>3 DEF Ordered
<1>8. ASSUME NEW r, NEW n \in Nat, NEW k \in Nat, Handles(r, n, k),
             \/ step' = 0 /\ \E f : f.part = "frame" /\ f.id = r.id /\ Prints(f)
             \/ step' # 0 /\ serving' = r /\ UNCHANGED fromDev
      PROVE  Ordered(low, high)'
  <2>1. /\ r = toDev[1] /\ 1 \in DOMAIN toDev /\ step = 0 /\ r.id \in low .. high
        /\ \A j \in DOMAIN toDev : r.id <= toDev[j].id
        /\ \A i \in DOMAIN toDev' :
              \/ i <= n /\ toDev'[i].id = r.id
              \/ i > n /\ toDev'[i] = toDev[(i - n) + k] /\ (i - n) + k \in DOMAIN toDev
    <3>1. toDev # << >> /\ r = toDev[1] /\ step = 0
      BY <1>8 DEF Handles
    <3>2. 1 \in DOMAIN toDev
      BY <1>2, <3>1, EmptySeq
    <3> QED BY <1>2, <1>8, <3>1, <3>2 DEF Handles, Ordered
  <2>2. \A i \in DOMAIN toDev' : toDev'[i].id \in low .. high /\ r.id <= toDev'[i].id
    BY <1>2, <2>1 DEF Ordered
  <2>3. ASSUME NEW i \in DOMAIN toDev', NEW j \in DOMAIN toDev', i <= j
        PROVE  toDev'[i].id <= toDev'[j].id
    <3>1. CASE i <= n
      <4>1. toDev'[i].id = r.id
        BY <1>3, <2>1, <3>1
      <4> QED BY <2>2, <4>1
    <3>2. CASE i > n
      <4>1. i \in Nat /\ j \in Nat /\ j > n
        BY <1>3, <2>3, <3>2
      <4>2. /\ toDev'[i] = toDev[(i - n) + k] /\ (i - n) + k \in DOMAIN toDev
            /\ toDev'[j] = toDev[(j - n) + k] /\ (j - n) + k \in DOMAIN toDev
        BY <2>1, <3>2, <4>1
      <4>3. (i - n) + k <= (j - n) + k
        BY <2>3, <4>1
      <4> QED BY <4>2, <4>3 DEF Ordered
    <3> QED BY <1>3, <3>1, <3>2
  <2>4. PICK f : \A i \in DOMAIN fromDev' : fromDev'[i].part = "frame" =>
                    \/ i \in DOMAIN fromDev /\ fromDev'[i] = fromDev[i]
                    \/ i \notin DOMAIN fromDev /\ fromDev'[i] = f /\ f.id = r.id /\ step' = 0
    <3>1. CASE step' = 0 /\ \E f : f.part = "frame" /\ f.id = r.id /\ Prints(f)
      BY <1>1, <3>1 DEF Prints
    <3>2. CASE UNCHANGED fromDev
      BY <3>2
    <3> QED BY <1>8, <3>1, <3>2
  <2>5. \A i \in DOMAIN fromDev : fromDev[i].part = "frame" =>
            fromDev[i].id \in low .. high /\ fromDev[i].id <= r.id
    BY <2>1 DEF Ordered
  <2>6. ASSUME NEW i \in DOMAIN fromDev', fromDev'[i].part = "frame"
        PROVE  fromDev'[i].id \in low .. high /\ fromDev'[i].id <= r.id
    BY <2>1, <2>4, <2>5, <2>6
  <2>7. ASSUME NEW i \in DOMAIN fromDev', fromDev'[i].part = "frame", NEW j \in DOMAIN toDev'
        PROVE  fromDev'[i].id <= toDev'[j].id
    <3>1. fromDev'[i].id \in low .. high /\ toDev'[j].id \in low .. high
          /\ fromDev'[i].id <= r.id /\ r.id <= toDev'[j].id
      BY <2>2, <2>6, <2>7
    <3> QED BY <2>1, <3>1
  <2>8. ASSUME NEW i \in DOMAIN fromDev', NEW j \in DOMAIN fromDev', i <= j,
               fromDev'[i].part = "frame", fromDev'[j].part = "frame"
        PROVE  fromDev'[i].id <= fromDev'[j].id
    <3>1. CASE j \in DOMAIN fromDev
      <4>1. i \in DOMAIN fromDev /\ fromDev'[i] = fromDev[i] /\ fromDev'[j] = fromDev[j]
        BY <1>4, <2>4, <2>8, <3>1
      <4> QED BY <2>8, <3>1, <4>1 DEF Ordered
    <3>2. CASE j \notin DOMAIN fromDev
      <4>1. fromDev'[j].id = r.id
        BY <2>4, <2>8, <3>2
      <4> QED BY <2>6, <2>8, <4>1
    <3> QED BY <3>1, <3>2
  <2>9. step' # 0 => serving'.id = r.id
    BY <1>8
  <2> QED BY <2>1, <2>2, <2>3, <2>6, <2>7, <2>8, <2>9 DEF Ordered
<1> QED BY <1>5, <1>6, <1>7, <1>8, DeviceLine

LEMMA LastStays ==
    ASSUME KeyTypeOK, KeyTypeOK', DeviceNext, NEW id \in Nat, LastOnLine(id)
    PROVE  LastOnLine(id)'
<1>1. Text.part = "text"
  BY DEF Text
<1>2. /\ toDev \in Seq(Request) /\ serving.id \in Nat /\ Len(toDev) \in Nat
      /\ DOMAIN toDev = 1 .. Len(toDev)
      /\ \A i \in DOMAIN toDev : toDev[i].id \in Nat
      /\ toDev' \in Seq(Request) /\ DOMAIN toDev' = 1 .. Len(toDev') /\ Len(toDev') \in Nat
  BY LineNumbers DEF KeyTypeOK
<1>3. CASE toDev' = << >> /\ step' = 0 /\ Prints(Text)
  <2>1. DOMAIN toDev' = {}
    BY <1>3
  <2> QED BY <1>3, <2>1 DEF LastOnLine
<1>4. CASE UNCHANGED <<toDev, fromDev, serving>> /\ step # 0 /\ step' # 0
  BY <1>4 DEF LastOnLine
<1>5. ASSUME NEW f, f.part = "frame", f.id = serving.id, Prints(f), UNCHANGED toDev,
             step # 0, step' = 0
      PROVE  LastOnLine(id)'
  <2>1. \A i \in DOMAIN fromDev' : fromDev'[i].part = "frame" =>
            \/ i \in DOMAIN fromDev /\ fromDev'[i] = fromDev[i]
            \/ fromDev'[i] = f
    BY <1>1, <1>5 DEF Prints
  <2> QED BY <1>5, <2>1 DEF LastOnLine
<1>6. ASSUME NEW r, NEW n \in Nat, NEW k \in Nat, Handles(r, n, k),
             \/ step' = 0 /\ \E f : f.part = "frame" /\ f.id = r.id /\ Prints(f)
             \/ step' # 0 /\ serving' = r /\ UNCHANGED fromDev
      PROVE  LastOnLine(id)'
  <2>1. /\ r = toDev[1] /\ 1 \in DOMAIN toDev /\ step = 0 /\ toDev # << >>
        /\ k \in 1 .. Len(toDev) /\ Len(toDev') = n + (Len(toDev) - k)
        /\ \A i \in DOMAIN toDev' :
              \/ i <= n /\ toDev'[i].id = r.id
              \/ i > n /\ toDev'[i] = toDev[(i - n) + k] /\ (i - n) + k \in DOMAIN toDev
        /\ n # 0 \/ k # 1 => r.kind \in {"huge", "fragment"}
    <3>1. toDev # << >>
      BY <1>6 DEF Handles
    <3>2. 1 \in DOMAIN toDev
      BY <1>2, <3>1, EmptySeq
    <3> QED BY <1>6, <3>1, <3>2 DEF Handles
  <2>2. r.id <= id /\ r.id \in Nat
    BY <1>2, <2>1 DEF LastOnLine
  <2>3. r.id = id => toDev' = << >>
    <3> SUFFICES ASSUME r.id = id PROVE toDev' = << >>
      OBVIOUS
    <3>1. Len(toDev) = 1 /\ r.kind \notin {"huge", "fragment"}
      BY <2>1 DEF LastOnLine
    <3>2. Len(toDev') = 0
      BY <2>1, <3>1
    <3> QED BY <1>2, <3>2, EmptySeq
  <2>4. ASSUME NEW i \in DOMAIN toDev'
        PROVE  /\ toDev'[i].id <= id
               /\ toDev'[i].id = id =>
                    i = Len(toDev') /\ toDev'[i].kind \notin {"huge", "fragment"}
    <3>1. CASE toDev'[i].id = r.id
      <4>1. r.id # id
        BY <2>3, <1>2
      <4> QED BY <2>2, <3>1, <4>1
    <3>2. CASE i > n /\ toDev'[i] = toDev[(i - n) + k] /\ (i - n) + k \in DOMAIN toDev
      <4>1. toDev'[i].id <= id
        BY <3>2 DEF LastOnLine
      <4>2. ASSUME toDev'[i].id = id
            PROVE  i = Len(toDev') /\ toDev'[i].kind \notin {"huge", "fragment"}
        <5>1. (i - n) + k = Len(toDev) /\ toDev'[i].kind \notin {"huge", "fragment"}
          BY <3>2, <4>2 DEF LastOnLine
        <5>2. i = Len(toDev')
          BY <1>2, <2>1, <5>1
        <5> QED BY <5>1, <5>2
      <4> QED BY <4>1, <4>2
    <3> QED BY <2>1, <3>1, <3>2
  <2>5. PICK f : \A i \in DOMAIN fromDev' : fromDev'[i].part = "frame" =>
                    \/ i \in DOMAIN fromDev /\ fromDev'[i] = fromDev[i]
                    \/ fromDev'[i] = f /\ f.id = r.id /\ step' = 0
    <3>1. CASE step' = 0 /\ \E f : f.part = "frame" /\ f.id = r.id /\ Prints(f)
      BY <1>1, <3>1 DEF Prints
    <3>2. CASE UNCHANGED fromDev
      BY <3>2
    <3> QED BY <1>6, <3>1, <3>2
  <2>6. ASSUME NEW i \in DOMAIN fromDev', fromDev'[i].part = "frame", fromDev'[i].id = id
        PROVE  toDev' = << >> /\ step' = 0
    <3>1. ~(i \in DOMAIN fromDev /\ fromDev'[i] = fromDev[i])
      BY <2>1, <2>6 DEF LastOnLine
    <3> QED BY <2>3, <2>5, <2>6, <3>1
  <2>7. step' # 0 => serving'.id <= id /\ (serving'.id = id => toDev' = << >>)
    BY <1>6, <2>2, <2>3
  <2> QED BY <2>4, <2>6, <2>7 DEF LastOnLine
<1> QED BY <1>3, <1>4, <1>5, <1>6, DeviceLine

(* Who answers the request numbered id: the handler that takes it, or the    *)
(* end of a generation.  A restart only keeps an answer that is there.      *)
Handlers(r) ==
    \/ HandleSign(r) \/ HandleShow(r) \/ HandleUnlock(r) \/ HandleLock(r)
    \/ HandleUnknown(r) \/ HandleHuge(r) \/ HandleFragment(r) \/ HandleGenerate(r)

LEMMA HandlersTake ==
    ASSUME KeyTypeOK, NEW r, Handlers(r)
    PROVE  /\ step = 0 /\ toDev # << >> /\ r = toDev[1] /\ 1 \in DOMAIN toDev /\ r \in Request
           /\ r.kind = "lock" => HandleLock(r)
           /\ r.kind = "unlock" => HandleUnlock(r)
           /\ r.kind = "generate" => HandleGenerate(r)
           /\ r.kind \in {"sign", "agentsign"} => HandleSign(r)
<1>1. step = 0 /\ toDev # << >> /\ r = Head(toDev) /\ toDev \in Seq(Request)
  BY DEF KeyTypeOK, Handlers, HandleSign, HandleShow, HandleUnlock, HandleLock, HandleUnknown,
         HandleHuge, HandleFragment, HandleGenerate, Accept, Reads
<1>2. r = toDev[1] /\ 1 \in DOMAIN toDev /\ r \in Request
  BY <1>1, EmptySeq
<1>3. /\ r.kind = "lock" => HandleLock(r)
      /\ r.kind = "unlock" => HandleUnlock(r)
      /\ r.kind = "generate" => HandleGenerate(r)
      /\ r.kind \in {"sign", "agentsign"} => HandleSign(r)
  BY DEF Handlers, HandleSign, HandleShow, HandleUnlock, HandleLock, HandleUnknown,
         HandleHuge, HandleFragment, HandleGenerate, Accept, Reads
<1> QED BY <1>1, <1>2, <1>3

LEMMA OwnFrame ==
    ASSUME KeyTypeOK, DeviceNext, NEW id \in Nat, LastOnLine(id),
           NEW i \in DOMAIN fromDev', fromDev'[i].part = "frame", fromDev'[i].id = id
    PROVE  \/ Reset /\ i \in DOMAIN fromDev /\ fromDev'[i] = fromDev[i]
           \/ FinishGenerate /\ serving.id = id /\ i \notin DOMAIN fromDev
           \/ \E r : Handlers(r) /\ r.id = id /\ i \notin DOMAIN fromDev
<1>1. fromDev \in Seq(Item) /\ Text \in Item /\ Text.part = "text"
  BY DEF KeyTypeOK, Text, Item, AnswerTypes
<1>2. CASE Reset
  <2>1. Prints(Text)
    BY <1>1, <1>2, PrintsWhat DEF Reset
  <2> QED BY <1>1, <1>2, <2>1 DEF Prints
<1>3. toDev # << >> \/ step # 0 => ~(i \in DOMAIN fromDev /\ fromDev'[i] = fromDev[i])
  BY DEF LastOnLine
<1>4. CASE WriteNvs
  BY <1>3, <1>4 DEF WriteNvs, lineVars
<1>5. CASE FinishGenerate
  <2>1. serving \in Request /\ "success" \in AnswerTypes /\ 0 \in Int
    BY DEF KeyTypeOK, AnswerTypes
  <2>2. Frame(serving, "success", 0) \in Item
    BY <2>1, Lines
  <2>3. Prints(Frame(serving, "success", 0)) /\ step # 0
    BY <1>1, <1>5, <2>2, PrintsWhat DEF FinishGenerate, SayAndAnswer
  <2>4. Frame(serving, "success", 0).id = serving.id
    BY DEF Frame
  <2> QED BY <1>1, <1>3, <1>5, <2>3, <2>4 DEF Prints
<1>6. ASSUME NEW r, Handlers(r)
      PROVE  r.id = id /\ i \notin DOMAIN fromDev
  <2>1. step = 0 /\ toDev # << >> /\ r = toDev[1]
    BY <1>6, HandlersTake
  <2>2. \E f : Prints(f) /\ (f.part = "frame" => f.id = r.id)
    <3>1. Text.part # "frame"
      BY <1>1
    <3>2. UNCHANGED fromDev => Prints(Text)
      BY <1>1, PrintsWhat
    <3> QED BY <2>1, <3>1, <3>2, DeviceLine DEF Handles
  <2> QED BY <1>1, <1>3, <2>1, <2>2 DEF Prints
<1>7. CASE DeviceStep
  BY <1>4, <1>5, <1>6, <1>7 DEF DeviceStep, Handlers
<1> QED BY <1>2, <1>7 DEF DeviceNext

(* What the handler of a lock prints.                                       *)
LEMMA LockPrints ==
    ASSUME KeyTypeOK, NEW r, HandleLock(r), r \in Request, NEW i \in DOMAIN fromDev',
           i \notin DOMAIN fromDev, fromDev'[i].part = "frame"
    PROVE  \/ fromDev'[i].type = "failure" /\ ~(ram.loaded /\ ram.enc) /\ UNCHANGED ram
           \/ fromDev'[i].type = "success" /\ IsLocked' /\ ram.loaded /\ ram.enc
<1>1. fromDev \in Seq(Item) /\ ram \in Memory /\ {"failure", "success"} \subseteq AnswerTypes
      /\ 0 \in Int
  BY DEF KeyTypeOK, AnswerTypes
<1>2. /\ Frame(r, "failure", 0) \in Item /\ Frame(r, "success", 0) \in Item
      /\ Text.part = "text"
  BY <1>1, Lines DEF Text
<1>3. Frame(r, "failure", 0).type = "failure" /\ Frame(r, "success", 0).type = "success"
  BY DEF Frame
<1>4. CASE ~(ram.loaded /\ ram.enc) /\ Answer(r, "failure", 0) /\ UNCHANGED ram
  <2>1. Prints(Frame(r, "failure", 0))
    BY <1>1, <1>2, <1>4, PrintsWhat DEF Answer
  <2> QED BY <1>2, <1>3, <1>4, <2>1 DEF Prints
<1>5. CASE /\ ram.loaded /\ ram.enc /\ SayAndAnswer(r, "success")
           /\ ram' = [ram EXCEPT !.priv = 0, !.unlocked = FALSE]
  <2>1. Prints(Frame(r, "success", 0))
    BY <1>1, <1>2, <1>5, PrintsWhat DEF SayAndAnswer
  <2>2. IsLocked'
    BY <1>1, <1>5 DEF IsLocked, Memory
  <2> QED BY <1>2, <1>3, <1>5, <2>1, <2>2 DEF Prints
<1> QED BY <1>4, <1>5 DEF HandleLock

(* A reader takes items off the front, and may leave the rest of one there. *)
LEMMA Readers ==
    ASSUME fromDev \in Seq(Item), Skip \/ Take \/ Misread \/ Abandon
    PROVE  /\ fromDev' \in Seq(Item)
           /\ \E k \in Nat : \A i \in DOMAIN fromDev' :
                 \/ fromDev'[i] = Rest /\ ~Skip /\ ~Take
                 \/ i + k \in DOMAIN fromDev /\ fromDev'[i] = fromDev[i + k]
           /\ Take => /\ fromDev # << >> /\ fromDev[1].part = "frame"
                      /\ \A i \in DOMAIN fromDev' :
                            i + 1 \in DOMAIN fromDev /\ fromDev'[i] = fromDev[i + 1]
<1>1. fromDev' \in Seq(Item) /\ Rest \in Item
  BY ReadersType DEF Rest, Item, AnswerTypes
<1>2. CASE Skip \/ Take
  <2>1. fromDev # << >> /\ fromDev' = Tail(fromDev) /\ (Take => Head(fromDev).part = "frame")
    BY <1>2 DEF Skip, Take, NextIs
  <2>2. \A i \in DOMAIN fromDev' : i + 1 \in DOMAIN fromDev /\ fromDev'[i] = fromDev[i + 1]
    BY <2>1
  <2>3. 1 \in Nat /\ Head(fromDev) = fromDev[1]
    BY <2>1
  <2> QED BY <1>1, <2>1, <2>2, <2>3
<1>3. CASE Misread /\ ~Skip /\ ~Take
  <2>1. PICK n \in 1 .. Len(fromDev), remains \in {<< >>, <<Rest>>} :
            fromDev' = remains \o SubSeq(fromDev, n + 1, Len(fromDev))
    BY <1>3 DEF Misread
  <2> DEFINE s == SubSeq(fromDev, n + 1, Len(fromDev))
  <2>2. /\ s \in Seq(Item) /\ Len(s) = Len(fromDev) - n /\ Len(fromDev) \in Nat
        /\ \A i \in 1 .. Len(s) : s[i] = fromDev[i + n] /\ i + n \in DOMAIN fromDev
    <3>1. s \in Seq(Item) /\ Len(fromDev) \in Nat /\ n \in Nat
      BY SubSeqProperties, LenProperties
    <3>2. Len(s) = Len(fromDev) - n
      BY <3>1
    <3>3. \A i \in 1 .. Len(s) : s[i] = fromDev[i + n] /\ i + n \in DOMAIN fromDev
      BY <3>1, <3>2
    <3> QED BY <3>1, <3>2, <3>3
  <2> HIDE DEF s
  <2>3. CASE remains = << >>
    <3>1. fromDev' = s
      BY <2>1, <2>2, <2>3, ConcatEmptySeq DEF s
    <3>2. \A i \in DOMAIN fromDev' : i + n \in DOMAIN fromDev /\ fromDev'[i] = fromDev[i + n]
      BY <2>2, <3>1
    <3> QED BY <1>1, <1>3, <3>2
  <2>4. CASE remains = <<Rest>>
    <3>1. remains \in Seq(Item) /\ Len(remains) = 1 /\ remains[1] = Rest
      BY <1>1, <2>4
    <3>2. /\ Len(fromDev') = 1 + Len(s)
          /\ \A i \in 1 .. 1 + Len(s) : fromDev'[i] = IF i <= 1 THEN remains[i] ELSE s[i - 1]
      <4>1. fromDev' = remains \o s
        BY <2>1 DEF s
      <4>2. \A a, b \in Seq(Item) :
               /\ Len(a \o b) = Len(a) + Len(b)
               /\ \A i \in 1 .. Len(a) + Len(b) :
                     (a \o b)[i] = IF i <= Len(a) THEN a[i] ELSE b[i - Len(a)]
        BY ConcatProperties
      <4>3. /\ Len(remains \o s) = Len(remains) + Len(s)
            /\ \A i \in 1 .. Len(remains) + Len(s) :
                  (remains \o s)[i] = IF i <= Len(remains) THEN remains[i]
                                      ELSE s[i - Len(remains)]
        BY <2>2, <3>1, <4>2
      <4> QED BY <3>1, <4>1, <4>3
    <3>3. ASSUME NEW i \in DOMAIN fromDev'
          PROVE  \/ fromDev'[i] = Rest
                 \/ i + (n - 1) \in DOMAIN fromDev /\ fromDev'[i] = fromDev[i + (n - 1)]
      <4>1. i \in 1 .. 1 + Len(s)
        BY <1>1, <3>2
      <4>2. CASE i <= 1
        BY <3>1, <3>2, <4>1, <4>2
      <4>3. CASE ~(i <= 1)
        <5>1. i - 1 \in 1 .. Len(s) /\ (i - 1) + n = i + (n - 1)
          BY <2>2, <4>1, <4>3
        <5>2. fromDev'[i] = s[i - 1]
          BY <3>2, <4>1, <4>3
        <5>3. s[i - 1] = fromDev[(i - 1) + n] /\ (i - 1) + n \in DOMAIN fromDev
          BY <2>2, <5>1
        <5> QED BY <5>1, <5>2, <5>3
      <4> QED BY <4>2, <4>3
    <3>4. n - 1 \in Nat
      BY <2>2
    <3> QED BY <1>1, <1>3, <3>3, <3>4
  <2> QED BY <2>1, <2>3, <2>4
<1>4. CASE Abandon /\ ~Skip /\ ~Take
  <2>1. \A i \in DOMAIN fromDev' :
            \/ fromDev'[i] = Rest
            \/ i + 0 \in DOMAIN fromDev /\ fromDev'[i] = fromDev[i + 0]
    <3>1. DOMAIN fromDev \subseteq Nat
      OBVIOUS
    <3>2. CASE UNCHANGED fromDev
      BY <3>1, <3>2
    <3>3. CASE fromDev' = [fromDev EXCEPT ![1] = Rest]
      BY <3>1, <3>3
    <3> QED BY <1>4, <3>2, <3>3 DEF Abandon
  <2> QED BY <1>1, <1>4, <2>1
<1> QED BY <1>2, <1>3, <1>4

(* Reading keeps the order of the line; the number of an answer that is      *)
(* taken bounds all that is left from below.                                *)
LEMMA ReadersKeep ==
    ASSUME KeyTypeOK, Skip \/ Take \/ Misread \/ Abandon, UNCHANGED <<toDev, step, serving>>,
           NEW low \in Nat, NEW high \in Nat
    PROVE  /\ Ordered(low, high) => Ordered(low, high)'
           /\ Take /\ Ordered(low, high) =>
                /\ fromDev[1].id \in low .. high
                /\ \A h \in Nat : h = fromDev[1].id => Ordered(h, high)'
           /\ LastOnLine(high) => LastOnLine(high)'
<1>1. fromDev \in Seq(Item) /\ Rest.part = "rest"
      /\ \A i \in DOMAIN fromDev : fromDev[i].id \in Nat
  BY LineNumbers DEF KeyTypeOK, Rest
<1>2. PICK k \in Nat : \A i \in DOMAIN fromDev' :
          \/ fromDev'[i] = Rest
          \/ i + k \in DOMAIN fromDev /\ fromDev'[i] = fromDev[i + k]
  BY <1>1, Readers
<1>3. fromDev' \in Seq(Item) /\ DOMAIN fromDev' \subseteq Nat
  BY <1>1, Readers
<1>4. \A i \in DOMAIN fromDev' : fromDev'[i].part = "frame" =>
          i + k \in DOMAIN fromDev /\ fromDev'[i] = fromDev[i + k]
  BY <1>1, <1>2
<1>5. ASSUME Ordered(low, high) PROVE Ordered(low, high)'
  <2>1. \A i, j \in DOMAIN fromDev' :
           i <= j /\ fromDev'[i].part = "frame" /\ fromDev'[j].part = "frame" =>
             fromDev'[i].id <= fromDev'[j].id
    <3> SUFFICES ASSUME NEW i \in DOMAIN fromDev', NEW j \in DOMAIN fromDev', i <= j,
                        fromDev'[i].part = "frame", fromDev'[j].part = "frame"
                 PROVE  fromDev'[i].id <= fromDev'[j].id
      OBVIOUS
    <3>1. i + k <= j + k
      BY <1>3
    <3> QED BY <1>4, <1>5, <3>1 DEF Ordered
  <2> QED BY <1>4, <1>5, <2>1 DEF Ordered
<1>6. ASSUME LastOnLine(high) PROVE LastOnLine(high)'
  BY <1>4, <1>6 DEF LastOnLine
<1>7. ASSUME Take, Ordered(low, high), NEW h \in Nat, h = fromDev[1].id
      PROVE  h \in low .. high /\ Ordered(h, high)'
  <2>1. 1 \in DOMAIN fromDev /\ fromDev[1].part = "frame"
        /\ \A i \in DOMAIN fromDev' : i + 1 \in DOMAIN fromDev /\ fromDev'[i] = fromDev[i + 1]
    <3>1. fromDev # << >> /\ fromDev[1].part = "frame"
          /\ \A i \in DOMAIN fromDev' : i + 1 \in DOMAIN fromDev /\ fromDev'[i] = fromDev[i + 1]
      BY <1>1, <1>7, Readers
    <3> QED BY <1>1, <3>1, EmptySeq
  <2>2. Ordered(low, high)'
    BY <1>5, <1>7
  <2>3. h \in low .. high
    BY <1>7, <2>1 DEF Ordered
  <2>4. \A i \in DOMAIN toDev : toDev[i].id \in h .. high
    BY <1>7, <2>1, <2>3 DEF Ordered
  <2>5. step # 0 => serving.id \in h .. high
    BY <1>7, <2>1, <2>3 DEF Ordered
  <2>6. ASSUME NEW i \in DOMAIN fromDev', fromDev'[i].part = "frame"
        PROVE  fromDev'[i].id \in h .. high
    <3>1. i + 1 \in DOMAIN fromDev /\ fromDev'[i] = fromDev[i + 1] /\ 1 <= i + 1
      BY <1>3, <2>1
    <3>2. h <= fromDev[i + 1].id /\ fromDev[i + 1].id \in low .. high
      BY <1>7, <2>1, <2>6, <3>1 DEF Ordered
    <3> QED BY <2>3, <3>1, <3>2
  <2> QED BY <2>2, <2>3, <2>4, <2>5, <2>6 DEF Ordered
<1>8. ASSUME Take, Ordered(low, high) PROVE fromDev[1].id \in low .. high
  <2>1. fromDev # << >>
    BY <1>1, <1>8, Readers
  <2>2. 1 \in DOMAIN fromDev
    BY <1>1, <2>1, EmptySeq
  <2> QED BY <1>1, <1>7, <1>8, <2>2
<1> QED BY <1>5, <1>6, <1>7, <1>8

(* The next request goes to the end of the line.                            *)
LEMMA SendKeeps ==
    ASSUME KeyTypeOK, UNCHANGED <<fromDev, step, serving>>, NEW low \in Nat, NEW high \in Nat,
           NEW p \in Request, p.id = high + 1, toDev' = Append(toDev, p),
           low <= high, Ordered(low, high)
    PROVE  /\ toDev' \in Seq(Request)
           /\ \A h \in Nat : h = high + 1 => Ordered(low, h)'
           /\ \A h \in Nat : h = high + 1 /\ p.kind \notin {"huge", "fragment"} =>
                LastOnLine(h)'
<1>1. /\ toDev \in Seq(Request) /\ toDev' \in Seq(Request) /\ Len(toDev) \in Nat
      /\ Len(toDev') = Len(toDev) + 1 /\ DOMAIN toDev = 1 .. Len(toDev)
      /\ DOMAIN toDev' = 1 .. Len(toDev) + 1
      /\ \A i \in DOMAIN toDev' : \/ i \in DOMAIN toDev /\ toDev'[i] = toDev[i]
                                  \/ i = Len(toDev) + 1 /\ toDev'[i] = p
  BY DEF KeyTypeOK
<1> DEFINE top == high + 1
<1>2. top \in Nat /\ high <= top /\ \A x \in low .. high : x <= top /\ x \in low .. top /\ x # top
  OBVIOUS
<1>3. top \in low .. top
  OBVIOUS
<1> HIDE DEF top
<1>4. \A i \in DOMAIN toDev : toDev[i].id \in low .. high
  BY DEF Ordered
<1>5. /\ \A i \in DOMAIN toDev' : toDev'[i].id \in low .. top
      /\ \A i \in DOMAIN toDev' : toDev'[i].id = top => i = Len(toDev) + 1 /\ toDev'[i] = p
      /\ \A i \in DOMAIN toDev' : toDev'[i].id <= top
  BY <1>1, <1>2, <1>3, <1>4 DEF top
<1>6. ASSUME NEW i \in DOMAIN toDev', NEW j \in DOMAIN toDev', i <= j
      PROVE  toDev'[i].id <= toDev'[j].id
  <2>1. CASE j = Len(toDev) + 1 /\ toDev'[j] = p
    <3>1. toDev'[j].id = top
      BY <2>1 DEF top
    <3> QED BY <1>5, <3>1
  <2>2. CASE j \in DOMAIN toDev /\ toDev'[j] = toDev[j]
    <3>1. i \in DOMAIN toDev /\ toDev'[i] = toDev[i]
      BY <1>1, <1>6, <2>2
    <3> QED BY <1>6, <2>2, <3>1 DEF Ordered
  <2> QED BY <1>1, <2>1, <2>2
<1>7. ASSUME step # 0
      PROVE  /\ serving.id \in low .. top /\ serving.id # top /\ serving.id <= top
             /\ \A j \in DOMAIN toDev' : serving.id <= toDev'[j].id
  <2>1. serving.id \in low .. high /\ \A j \in DOMAIN toDev : serving.id <= toDev[j].id
    BY <1>7 DEF Ordered
  <2> QED BY <1>1, <1>2, <2>1 DEF top
<1>8. ASSUME NEW i \in DOMAIN fromDev, fromDev[i].part = "frame"
      PROVE  /\ fromDev[i].id \in low .. top /\ fromDev[i].id # top
             /\ \A j \in DOMAIN toDev' : fromDev[i].id <= toDev'[j].id
  <2>1. /\ fromDev[i].id \in low .. high
        /\ \A j \in DOMAIN toDev : fromDev[i].id <= toDev[j].id
    BY <1>8 DEF Ordered
  <2> QED BY <1>1, <1>2, <2>1 DEF top
<1>9. Ordered(low, top)'
  BY <1>5, <1>6, <1>7, <1>8 DEF Ordered, top
<1>10. p.kind \notin {"huge", "fragment"} => LastOnLine(top)'
  BY <1>1, <1>5, <1>7, <1>8 DEF LastOnLine, top
<1> QED BY <1>1, <1>9, <1>10 DEF top
================================================================================
