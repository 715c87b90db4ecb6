------------------------------- MODULE KeyDevice -------------------------------
(***************************************************************************)
(* The firmware of the hardware key (src/esp32/ssh_agent/src/main.cpp) and *)
(* the serial line to it.  The programs on the host put requests on toDev; *)
(* the firmware takes them one at a time and puts what it prints and its   *)
(* answers on fromDev.                                                     *)
(*                                                                         *)
(* A key is named by a number: key k is the k-th one the device made, and  *)
(* its salt, its IV and its encrypted seed carry the same number, so that  *)
(* a record whose parts belong to different keys can be told from a whole  *)
(* one.  0 stands for a part that is not there (or is zeroed).             *)
(***************************************************************************)
EXTENDS Integers, Sequences

CONSTANTS
    Passwords,   (* the passwords people use                               *)
    NoPassword,  (* the empty password                                     *)
    Shipped,     (* what the flash may hold at the first power-up          *)
    BodyKinds,   (* what the body of an oversized packet may be read as    *)
    MaxKeys,     (* bound: how many keys the device ever makes             *)
    MaxResets,   (* bound: how many times it loses power                   *)
    MaxBody      (* bound: how many requests such a body is read as        *)

ASSUME PasswordAssumption == Passwords # {} /\ NoPassword \notin Passwords
ASSUME ShippedAssumption == Shipped \subseteq {"empty", "sealed", "plain"}
ASSUME BoundAssumption == MaxKeys \in Nat \ {0} /\ MaxResets \in Nat /\ MaxBody \in Nat

Keys == 1 .. MaxKeys

(* The private key after a decryption that came out wrong and was accepted. *)
Garbled == -1

(* The commands of the firmware; a packet it has no command for, one that   *)
(* is too large for it, and the first bytes of a packet that lacks the rest. *)
Kinds == {"sign", "agentsign", "pubkey", "identities", "unlock", "lock",
          "generate", "unknown", "huge", "fragment"}

ASSUME BodyAssumption == BodyKinds \subseteq Kinds \ {"huge"}

AnswerTypes == {"failure", "success", "locked", "signature", "identities", "pubkey"}

(* A request: its number, its command, and the password or the public key  *)
(* that goes with it.                                                      *)
Request == [id : Nat, kind : Kinds, pw : Passwords \cup {NoPassword}, key : Nat]

NoRequest == [id |-> 0, kind |-> "unknown", pw |-> NoPassword, key |-> 0]

(* What arrives on the host: debug text, a whole answer, or the rest of an  *)
(* answer some of whose bytes a reader has taken already.  id names the     *)
(* request that is answered, key the key that signed or is shown.           *)
Item == [part : {"text", "frame", "rest"}, id : Nat, type : AnswerTypes, key : Int]

VARIABLES
    toDev,     (* requests the device has not read yet                      *)
    fromDev,   (* what the host has not read yet                            *)
    nvs,       (* the namespace ssh-agent of the flash                      *)
    ram,       (* the globals of the firmware                               *)
    serving,   (* the request handleGenerateEncrypted is working on         *)
    step,      (* its next write to NVS: 1 to 6, 7 when all are done, 0: idle *)
    pwOf,      (* the password each key was encrypted with                  *)
    keys,      (* how many keys have been made                              *)
    resets,    (* how many times the power was lost                         *)
    spoiled,   (* history: what has gone wrong with the key so far          *)
    unlockedBy, (* history: the request that unlocked the key               *)
    untried    (* history: the last unlock whose password was not tried     *)

storeVars == <<nvs, pwOf, keys>>
devVars == <<nvs, ram, serving, step, pwOf, keys, resets, spoiled,
             unlockedBy, untried>>
lineVars == <<toDev, fromDev>>

Parts == [pub : 0 .. MaxKeys, seed : 0 .. MaxKeys, salt : 0 .. MaxKeys,
          iv : 0 .. MaxKeys, priv : 0 .. MaxKeys, enc : BOOLEAN]

Memory == [pub : 0 .. MaxKeys, seed : 0 .. MaxKeys, salt : 0 .. MaxKeys,
           iv : 0 .. MaxKeys, priv : {Garbled} \cup 0 .. MaxKeys,
           loaded : BOOLEAN, enc : BOOLEAN, unlocked : BOOLEAN]

KeyTypeOK ==
    /\ toDev \in Seq(Request)
    /\ fromDev \in Seq(Item)
    /\ nvs \in Parts
    /\ ram \in Memory
    /\ serving \in Request
    /\ step \in 0 .. 7
    /\ pwOf \in [Keys -> Passwords \cup {NoPassword}]
    /\ keys \in 0 .. MaxKeys
    /\ resets \in 0 .. MaxResets
    /\ spoiled \subseteq {"torn", "padding", "failed"}
    /\ unlockedBy \in Nat
    /\ untried \in Nat

--------------------------------------------------------------------------------
(***************************************************************************)
(* Start-up                                                                *)
(***************************************************************************)

EmptyNvs == [pub |-> 0, seed |-> 0, salt |-> 0, iv |-> 0, priv |-> 0, enc |-> FALSE]

BlankRam == [pub |-> 0, seed |-> 0, salt |-> 0, iv |-> 0, priv |-> 0,
             loaded |-> FALSE, enc |-> FALSE, unlocked |-> FALSE]

(* Mutant of Loaded: the salt is not read back.                             *)
Loaded_NoSalt(n) ==
    IF n.enc /\ n.pub # 0 /\ n.seed # 0 /\ n.iv # 0
    THEN [BlankRam EXCEPT !.pub = n.pub, !.seed = n.seed, !.iv = n.iv,
                          !.loaded = TRUE, !.enc = TRUE]
    ELSE BlankRam

(* loadKeyFromStorage after a power-up: an encrypted key starts locked, a   *)
(* plaintext one is ready, and a record that lacks a part is not loaded.    *)
Loaded(n) ==
    LET shown == [BlankRam EXCEPT !.pub = n.pub]
        sealed == n.enc /\ n.seed # 0 /\ n.salt # 0 /\ n.iv # 0
    IN  IF n.pub = 0 THEN BlankRam
        ELSE IF sealed
             THEN [shown EXCEPT !.seed = n.seed, !.salt = n.salt, !.iv = n.iv,
                                !.loaded = TRUE, !.enc = TRUE]
        ELSE IF ~n.enc /\ n.priv # 0
             THEN [shown EXCEPT !.priv = n.priv, !.loaded = TRUE, !.unlocked = TRUE]
        ELSE shown

Text == [part |-> "text", id |-> 0, type |-> "failure", key |-> 0]

(* The flash at the first power-up: empty, or with a key that an earlier   *)
(* session left there, encrypted or in the plain.                          *)
FirstNvs(kind) ==
    CASE kind = "empty"  -> EmptyNvs
      [] kind = "sealed" -> [pub |-> 1, seed |-> 1, salt |-> 1, iv |-> 1,
                             priv |-> 0, enc |-> TRUE]
      [] kind = "plain"  -> [EmptyNvs EXCEPT !.pub = 1, !.priv = 1]

DeviceInit ==
    /\ toDev = << >>
    /\ fromDev = << >>
    /\ nvs \in {FirstNvs(kind) : kind \in Shipped}
    /\ ram = Loaded(nvs)
    /\ serving = NoRequest
    /\ step = 0
    /\ keys = nvs.pub
    /\ pwOf \in {[k \in Keys |-> IF k <= keys THEN pw ELSE NoPassword] : pw \in Passwords}
    /\ resets = 0
    /\ spoiled = {}
    /\ unlockedBy = 0
    /\ untried = 0

(* The power fails or the chip is reset, and setup runs again: what was in  *)
(* the input buffer, the command in hand and the RAM are gone.              *)
Reset ==
    /\ resets < MaxResets
    /\ resets' = resets + 1
    /\ toDev' = << >>
    /\ fromDev' = Append(fromDev, Text)
    /\ ram' = Loaded(nvs)
    /\ serving' = NoRequest
    /\ step' = 0
    /\ spoiled' = IF step \in 2 .. 5 THEN {"torn"} ELSE spoiled \cap {"torn"}
    /\ unlockedBy' = 0
    /\ untried' = 0
    /\ UNCHANGED storeVars

--------------------------------------------------------------------------------
(***************************************************************************)
(* The commands.  Those that print put a line of text before the answer.   *)
(***************************************************************************)

Frame(r, type, key) == [part |-> "frame", id |-> r.id, type |-> type, key |-> key]

Answer(r, type, key) == fromDev' = Append(fromDev, Frame(r, type, key))

SayAndAnswer(r, type) ==
    fromDev' = Append(Append(fromDev, Text), Frame(r, type, 0))

(* processAgentRequest reads the next packet, of one of the given kinds.    *)
Reads(r, kinds) ==
    /\ step = 0
    /\ toDev # << >>
    /\ r = Head(toDev)
    /\ r.kind \in kinds

Accept(r, kinds) == Reads(r, kinds) /\ toDev' = Tail(toDev)

IsLocked == ram.enc /\ ~ram.unlocked

(* handleSignChallenge and handleAgentSignRequest; the latter compares the  *)
(* public key it is given with the device's.                                *)
SignOutcome(r) ==
    IF ~ram.loaded THEN <<"failure", 0>>
    ELSE IF IsLocked THEN <<"locked", 0>>
    ELSE IF r.kind = "agentsign" /\ r.key # ram.pub THEN <<"failure", 0>>
    ELSE <<"signature", ram.priv>>

HandleSign(r) ==
    /\ Accept(r, {"sign", "agentsign"})
    /\ Answer(r, SignOutcome(r)[1], SignOutcome(r)[2])
    /\ UNCHANGED devVars

HandleShow(r) ==
    /\ Accept(r, {"pubkey", "identities"})
    /\ IF ram.loaded THEN Answer(r, r.kind, ram.pub) ELSE Answer(r, "failure", 0)
    /\ UNCHANGED devVars

(* Mutant of Decrypted: the padding is not looked at.                       *)
Decrypted_NoPadding(pw, padding) ==
    IF ram.seed # 0 /\ pw = pwOf[ram.seed] THEN ram.seed ELSE Garbled

(* What decryptSeed yields.  With the right key but another IV only the     *)
(* first block is wrong, which the padding does not show; with another key  *)
(* the last byte is a valid padding once in a while ("short").              *)
Decrypted(pw, padding) ==
    LET rightKey == ram.seed # 0 /\ pw = pwOf[ram.seed] /\ ram.salt = ram.seed
    IN  IF rightKey /\ ram.iv = ram.seed THEN ram.seed
        ELSE IF rightKey \/ padding = "short" THEN Garbled
        ELSE 0

(* The crypto library may fail before the password is tried: in deriveKey,   *)
(* or in decryptSeed, after which the private key is zeroed.                 *)
HandleUnlock(r) ==
    /\ Accept(r, {"unlock"})
    /\ \/ /\ ~ram.loaded \/ ~ram.enc
          /\ Answer(r, "failure", 0)
          /\ UNCHANGED <<ram, spoiled, unlockedBy, untried>>
       \/ /\ ram.loaded /\ ram.enc /\ ram.unlocked
          /\ Answer(r, "success", 0)
          /\ UNCHANGED <<ram, spoiled, unlockedBy, untried>>
       \/ /\ ram.loaded /\ ram.enc /\ ~ram.unlocked
          /\ \/ Answer(r, "failure", 0) /\ UNCHANGED ram
             \/ SayAndAnswer(r, "failure") /\ ram' = [ram EXCEPT !.priv = 0]
          /\ untried' = r.id
          /\ UNCHANGED <<spoiled, unlockedBy>>
       \/ /\ ram.loaded /\ ram.enc /\ ~ram.unlocked
          /\ \E padding \in {"bad", "short"} :
               LET seed == Decrypted(r.pw, padding)
               IN  /\ ram' = [ram EXCEPT !.priv = seed, !.unlocked = (seed # 0)]
                   /\ SayAndAnswer(r, IF seed # 0 THEN "success" ELSE "failure")
                   /\ spoiled' = IF padding = "short" /\ seed = Garbled
                                 THEN spoiled \cup {"padding"} ELSE spoiled
                   /\ unlockedBy' = IF seed # 0 THEN r.id ELSE unlockedBy
          /\ UNCHANGED untried
    /\ UNCHANGED <<storeVars, serving, step, resets>>

(* Mutant of HandleLock: the key is zeroed but still counts as unlocked.    *)
HandleLock_StaysUnlocked(r) ==
    /\ Accept(r, {"lock"})
    /\ IF ram.loaded /\ ram.enc
       THEN ram' = [ram EXCEPT !.priv = 0] /\ SayAndAnswer(r, "success")
       ELSE Answer(r, "failure", 0) /\ UNCHANGED ram
    /\ UNCHANGED <<storeVars, serving, step, resets, spoiled, unlockedBy, untried>>

(* Mutant of HandleLock: the private key is not zeroed.                     *)
HandleLock_KeepsKey(r) ==
    /\ Accept(r, {"lock"})
    /\ IF ram.loaded /\ ram.enc
       THEN ram' = [ram EXCEPT !.unlocked = FALSE] /\ SayAndAnswer(r, "success")
       ELSE Answer(r, "failure", 0) /\ UNCHANGED ram
    /\ UNCHANGED <<storeVars, serving, step, resets, spoiled, unlockedBy, untried>>

HandleLock(r) ==
    /\ Accept(r, {"lock"})
    /\ IF ram.loaded /\ ram.enc
       THEN /\ ram' = [ram EXCEPT !.priv = 0, !.unlocked = FALSE]
            /\ SayAndAnswer(r, "success")
       ELSE /\ Answer(r, "failure", 0)
            /\ UNCHANGED ram
    /\ UNCHANGED <<storeVars, serving, step, resets, spoiled, unlockedBy, untried>>

(* The default branch of processAgentRequest.                               *)
HandleUnknown(r) ==
    /\ Accept(r, {"unknown"})
    /\ Answer(r, "failure", 0)
    /\ UNCHANGED devVars

(* What the device reads as packets although none was sent as one: it goes   *)
(* by the number of the oversized packet that put it out of step.            *)
Debris(r) ==
    {d \in [id : {r.id}, kind : BodyKinds, pw : Passwords \cup {NoPassword}, key : {0}] :
        d.kind \in {"unlock", "generate"} \/ d.pw = NoPassword}

OutOfStep(r, rest) ==
    \E n \in 0 .. MaxBody : \E body \in [1 .. n -> Debris(r)] : toDev' = body \o rest

(* A packet of more than 4096 bytes: readPacket gives up after the header,   *)
(* nothing is answered, and the bytes of the body are read as packets.       *)
HandleHuge(r) ==
    /\ Reads(r, {"huge"})
    /\ OutOfStep(r, Tail(toDev))
    /\ UNCHANGED <<fromDev, devVars>>

(* A packet that ends too soon: readPacket drops it after five seconds, or   *)
(* takes the packet that comes in meanwhile for its rest and goes on in the  *)
(* middle of that one.                                                       *)
HandleFragment(r) ==
    /\ Reads(r, {"fragment"})
    /\ \/ toDev' = Tail(toDev)
       \/ Len(toDev) > 1 /\ OutOfStep(r, Tail(Tail(toDev)))
    /\ UNCHANGED <<fromDev, devVars>>

--------------------------------------------------------------------------------
(***************************************************************************)
(* generateEncryptedKey.  The new pair, salt and IV replace the old ones in *)
(* RAM at once; the parts go to NVS one by one.                             *)
(***************************************************************************)

(* Mutant of NewPair: the private key is that of the next pair.             *)
NewPair_Next == [ram EXCEPT !.pub = keys + 1, !.priv = keys + 2,
                            !.salt = keys + 1, !.iv = keys + 1]

NewPair == [ram EXCEPT !.pub = keys + 1, !.priv = keys + 1,
                       !.salt = keys + 1, !.iv = keys + 1]

HandleGenerate(r) ==
    /\ Accept(r, {"generate"})
    /\ \/ /\ r.pw = NoPassword
          /\ Answer(r, "failure", 0)
          /\ UNCHANGED <<ram, serving, step, pwOf, keys, spoiled>>
       \/ /\ r.pw # NoPassword /\ keys < MaxKeys
          /\ ram' = [NewPair EXCEPT !.seed = keys + 1]
          /\ pwOf' = [pwOf EXCEPT ![keys + 1] = r.pw]
          /\ keys' = keys + 1
          /\ serving' = r
          /\ step' = 1
          /\ UNCHANGED <<fromDev, spoiled>>
       \/ (* deriveKey or encryptSeed fails: RAM keeps the new pair          *)
          /\ r.pw # NoPassword /\ keys < MaxKeys
          /\ ram' = NewPair
          /\ keys' = keys + 1
          /\ SayAndAnswer(r, "failure")
          /\ spoiled' = spoiled \cup {"failed"}
          /\ UNCHANGED <<serving, step, pwOf>>
    /\ UNCHANGED <<nvs, resets, unlockedBy, untried>>

(* The i-th write of generateEncryptedKey.                                  *)
Put(i, n) ==
    CASE i = 1 -> [n EXCEPT !.pub = ram.pub]
      [] i = 2 -> [n EXCEPT !.seed = ram.seed]
      [] i = 3 -> [n EXCEPT !.salt = ram.salt]
      [] i = 4 -> [n EXCEPT !.iv = ram.iv]
      [] i = 5 -> [n EXCEPT !.enc = TRUE]
      [] i = 6 -> [n EXCEPT !.priv = 0]

WriteNvs ==
    /\ step \in 1 .. 6
    /\ nvs' = Put(step, nvs)
    /\ step' = step + 1
    /\ UNCHANGED <<lineVars, ram, serving, pwOf, keys, resets, spoiled, unlockedBy, untried>>

FinishGenerate ==
    /\ step = 7
    /\ ram' = [ram EXCEPT !.priv = 0, !.loaded = TRUE, !.enc = TRUE, !.unlocked = FALSE]
    /\ SayAndAnswer(serving, "success")
    /\ serving' = NoRequest
    /\ step' = 0
    /\ spoiled' = {}
    /\ UNCHANGED <<toDev, storeVars, resets, unlockedBy, untried>>

--------------------------------------------------------------------------------
SeqRange(s) == {s[i] : i \in 1 .. Len(s)}

DeviceStep ==
    \/ \E r \in SeqRange(toDev) :
         \/ HandleSign(r)
         \/ HandleShow(r)
         \/ HandleUnlock(r)
         \/ HandleLock(r)
         \/ HandleUnknown(r)
         \/ HandleHuge(r)
         \/ HandleFragment(r)
         \/ HandleGenerate(r)
    \/ WriteNvs
    \/ FinishGenerate

DeviceNext == DeviceStep \/ Reset

(***************************************************************************)
(* What a reader on the host does with the line: recv_from_esp32 of the    *)
(* bridge and read_packet of the key tool are the same loop.               *)
(***************************************************************************)

Rest == [part |-> "rest", id |-> 0, type |-> "failure", key |-> 0]

NextIs(part) == fromDev # << >> /\ Head(fromDev).part = part

(* Text has no zero byte and is skipped, as the rest of a short answer is.  *)
Skip == (NextIs("text") \/ NextIs("rest")) /\ fromDev' = Tail(fromDev)

Take == NextIs("frame") /\ fromDev' = Tail(fromDev)

(* The rest of a longer answer is taken for a packet, together with as many *)
(* bytes after it as the length it seems to have.                           *)
Misread ==
    /\ NextIs("rest")
    /\ \E n \in 1 .. Len(fromDev), remains \in {<< >>, <<Rest>>} :
          fromDev' = remains \o SubSeq(fromDev, n + 1, Len(fromDev))

(* The deadline passes, between two answers or in the middle of one.        *)
Abandon ==
    \/ UNCHANGED fromDev
    \/ NextIs("frame") /\ fromDev' = [fromDev EXCEPT ![1] = Rest]

(***************************************************************************)
(* What the stored key promises                                            *)
(***************************************************************************)

(* A key that can sign is the one the device shows: what it signs verifies  *)
(* under its own public key.  When it is not, a wrong password has passed    *)
(* because its decryption happened to end in a valid padding, and the key is *)
(* garbage; or power was lost among the writes of a record.  Nothing else    *)
(* does it: no restart between generations, no failed generation.            *)
(* main.cpp:97-134, 152-193, 404-441.                                        *)
SignsWithOwnKey ==
    ram.loaded /\ ram.unlocked /\ step = 0 /\ ram.priv # ram.pub =>
        \/ "padding" \in spoiled /\ ram.priv = Garbled
        \/ "torn" \in spoiled

(* A locked device has no private key in memory, whatever became of its      *)
(* record, unless a generation failed after the new pair was made            *)
(* (main.cpp:153-170).  Its record is the whole record of one key, failed    *)
(* generations included, unless power was lost among its writes; and this    *)
(* is the key it shows unless a generation failed.                           *)
LockedForgets ==
    IsLocked /\ step = 0 =>
        /\ ram.priv # 0 => "failed" \in spoiled
        /\ "torn" \in spoiled \/ (nvs.enc /\ {nvs.seed, nvs.salt, nvs.iv} = {nvs.pub})
        /\ spoiled \cap {"torn", "failed"} # {} \/ nvs.pub = ram.pub
================================================================================
