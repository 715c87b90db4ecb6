------------------------------ MODULE AgentBridge ------------------------------
(***************************************************************************)
(* The SSH agent bridge (src/wrapper/esp32_agent_bridge.py): a Unix socket *)
(* on which every client gets a thread, one serial port the threads share  *)
(* under serial_lock, and the firmware at its other end.                   *)
(*                                                                         *)
(* The steps of a thread are what it does up to the next blocking call: a  *)
(* read of the client's socket, the acquisition of serial_lock, a read of  *)
(* the serial port.  Bytes of one request or answer are not told apart,    *)
(* except that a reader may be cut off in the middle of an answer.         *)
(***************************************************************************)
EXTENDS KeyDevice, FiniteSets

CONSTANTS
    Clients,      (* the connections ever made to the socket               *)
    Commands,     (* the requests that clients send                        *)
    MaxRequests,  (* bound: how many requests all clients send together    *)
    MaxAhead      (* bound: how many pieces a client writes ahead          *)

ASSUME ClientAssumption ==
    IsFiniteSet(Clients) /\ MaxRequests \in Nat /\ MaxAhead \in Nat

(* What a client may ask: a message the device answers, one the bridge      *)
(* answers itself, one it cannot parse, or a signature whose flags do not   *)
(* fit in the byte the device wants.                                        *)
AgentKinds == {"identities", "agentsign", "unlock", "lock", "huge",
               "identity", "unparsable", "wideflags"}

ASSUME CommandAssumption == Commands \subseteq AgentKinds

DeviceKinds == {"identities", "agentsign", "unlock", "lock", "huge"}

NoClient == "none"

ASSUME NoClientAssumption == NoClient \notin Clients

VARIABLES
    pc,        (* pc[c]: where the thread of connection c is                *)
    stream,    (* stream[c]: what c sent and its thread has not read yet    *)
    owes,      (* owes[c]: the message whose body c has not written yet     *)
    asked,     (* asked[c]: the request its thread is working on            *)
    got,       (* got[c]: the item its thread took for the device's answer  *)
    told,      (* told[c]: the message type it answers with                 *)
    lock,      (* the connection whose thread holds serial_lock             *)
    running,   (* self.running                                              *)
    port,      (* the serial port is open                                   *)
    main,      (* the main thread: accept loop, signal handler, exit        *)
    sent,      (* how many requests went to the device                      *)
    left,      (* how many requests the clients may still send              *)
    last,      (* history: the request whose answer was taken last          *)
    missed,    (* history: how many exchanges took no answer of their own   *)
    acked      (* history: the last lock whose own answer was a success     *)

clientVars == <<stream, owes, left>>
threadVars == <<pc, asked, got, told>>
history == <<last, missed, acked>>
bridgeVars == <<pc, stream, owes, asked, got, told, lock, running, port, main,
                sent, left, history>>
vars == <<lineVars, devVars, bridgeVars>>

Places == {"none",    (* not accepted yet                                   *)
           "length",  (* recv(4) on the client's socket                     *)
           "data",    (* recv of the announced bytes                        *)
           "lock",    (* waiting for serial_lock                            *)
           "answer",  (* in recv_from_esp32, holding serial_lock            *)
           "reply",   (* about to send the response to the client           *)
           "closed"}

Replies == AnswerTypes

(* A piece of a client's byte stream: the length of a message, its body, or *)
(* the end of the stream.                                                   *)
Piece == [piece : {"length", "data", "end"}, kind : AgentKinds]

BridgeTypeOK ==
    /\ KeyTypeOK
    /\ pc \in [Clients -> Places]
    /\ stream \in [Clients -> Seq(Piece)]
    /\ owes \in [Clients -> AgentKinds \cup {"nothing", "gone"}]
    /\ asked \in [Clients -> [id : Nat, kind : AgentKinds]]
    /\ got \in [Clients -> Item]
    /\ told \in [Clients -> Replies]
    /\ lock \in Clients \cup {NoClient}
    /\ running \in BOOLEAN
    /\ port \in BOOLEAN
    /\ main \in {"accept", "closing", "unlinking", "exited"}
    /\ sent \in Nat
    /\ left \in 0 .. MaxRequests
    /\ last \in Nat /\ missed \in Nat /\ acked \in Nat

Nothing == [id |-> 0, kind |-> "identity"]

(* run: connect_serial has opened the port, slept and emptied the input     *)
(* buffer; start_unix_server listens.                                       *)
Init ==
    /\ DeviceInit
    /\ pc = [c \in Clients |-> "none"]
    /\ stream = [c \in Clients |-> << >>]
    /\ owes = [c \in Clients |-> "nothing"]
    /\ asked = [c \in Clients |-> Nothing]
    /\ got = [c \in Clients |-> Text]
    /\ told = [c \in Clients |-> "failure"]
    /\ lock = NoClient
    /\ running = TRUE
    /\ port = TRUE
    /\ main = "accept"
    /\ sent = 0
    /\ left = MaxRequests
    /\ last = 0 /\ missed = 0 /\ acked = 0

Go(c, place) == pc' = [pc EXCEPT ![c] = place]

--------------------------------------------------------------------------------
(***************************************************************************)
(* The clients                                                             *)
(***************************************************************************)

(* A client writes the length of a message, its body, and hangs up when it  *)
(* likes; it may do so before the answer to an earlier message has come.    *)
Writes(c, piece, kind) ==
    stream' = [stream EXCEPT ![c] = Append(@, [piece |-> piece, kind |-> kind])]

ClientStep(c) ==
    /\ Len(stream[c]) < MaxAhead
    /\ \/ /\ owes[c] = "nothing" /\ left > 0
          /\ \E kind \in Commands :
                Writes(c, "length", kind) /\ owes' = [owes EXCEPT ![c] = kind]
          /\ left' = left - 1
       \/ /\ owes[c] \in AgentKinds
          /\ Writes(c, "data", owes[c])
          /\ owes' = [owes EXCEPT ![c] = "nothing"]
          /\ UNCHANGED left
       \/ /\ owes[c] # "gone"
          /\ Writes(c, "end", "identity")
          /\ owes' = [owes EXCEPT ![c] = "gone"]
          /\ UNCHANGED left
    /\ UNCHANGED <<lineVars, devVars, threadVars, lock, running, port, main, sent, history>>

--------------------------------------------------------------------------------
(***************************************************************************)
(* handle_client: the thread of connection c                               *)
(***************************************************************************)

(* Only the thread's place and its view of the client's stream change.      *)
Elsewhere == UNCHANGED <<lineVars, devVars, owes, lock, running, port, main, sent, left, history>>

(* start_unix_server accepts a connection and starts its thread.            *)
AcceptClient(c) ==
    /\ main = "accept" /\ running
    /\ pc[c] = "none"
    /\ Go(c, "length")
    /\ Elsewhere /\ UNCHANGED <<stream, asked, got, told>>

(* recv(4): a length, the end, or - out of step after a time-out - a body,   *)
(* whose first bytes make a length that is too large or too short.          *)
ReadLength(c) ==
    /\ pc[c] = "length" /\ stream[c] # << >>
    /\ stream' = [stream EXCEPT ![c] = Tail(@)]
    /\ IF Head(stream[c]).piece = "length" THEN Go(c, "data") ELSE Go(c, "closed")
    /\ Elsewhere /\ UNCHANGED <<asked, got, told>>

(* The whole message is there: handle_agent_request answers it at once,     *)
(* raises (the flags do not fit into a byte), or turns to the device.       *)
Dispatch(c, kind) ==
    /\ asked' = [asked EXCEPT ![c] = [id |-> 0, kind |-> kind]]
    /\ CASE kind \in DeviceKinds -> Go(c, "lock") /\ UNCHANGED told
         [] kind = "identity"    -> Go(c, "reply") /\ told' = [told EXCEPT ![c] = "success"]
         [] kind = "unparsable"  -> Go(c, "reply") /\ told' = [told EXCEPT ![c] = "failure"]
         [] kind = "wideflags"   -> Go(c, "closed") /\ UNCHANGED told

ReadData(c) ==
    /\ pc[c] = "data" /\ stream[c] # << >>
    /\ stream' = [stream EXCEPT ![c] = Tail(@)]
    /\ LET next == Head(stream[c])
       IN  IF next.piece = "data" THEN Dispatch(c, next.kind)
           ELSE Go(c, "closed") /\ UNCHANGED <<asked, told>>
    /\ Elsewhere /\ UNCHANGED got

(* Thirty seconds without a byte: back to recv(4), and the length that was  *)
(* read already is forgotten.                                               *)
StreamTimeout(c) ==
    /\ stream[c] = << >>
    /\ pc[c] = "data" \/ (pc[c] = "length" /\ ~running)
    /\ Go(c, IF running THEN "length" ELSE "closed")
    /\ Elsewhere /\ UNCHANGED <<stream, asked, got, told>>

(* The response goes out (or the client has gone and send raises), and the  *)
(* variables of the handler go out of scope.                                *)
SendReply(c) ==
    /\ pc[c] = "reply"
    /\ \/ Go(c, IF running THEN "length" ELSE "closed")
       \/ owes[c] = "gone" /\ Go(c, "closed")
    /\ asked' = [asked EXCEPT ![c] = Nothing]
    /\ got' = [got EXCEPT ![c] = Text]
    /\ told' = [told EXCEPT ![c] = "failure"]
    /\ Elsewhere /\ UNCHANGED stream

--------------------------------------------------------------------------------
(***************************************************************************)
(* unlock, lock, request_identities, sign_request: one exchange with the   *)
(* device under serial_lock                                                *)
(***************************************************************************)

Packet(kind, id) ==
    [id |-> id,
     kind |-> kind,
     pw |-> IF kind = "unlock" THEN CHOOSE pw \in Passwords : TRUE ELSE NoPassword,
     key |-> nvs.pub]

(* Mutant of Reply: the client gets the type of its own request back.       *)
Reply_Echo(kind, type) == IF type = "failure" THEN type ELSE kind

(* What the client is told when the device answers with a given type.       *)
Reply(kind, type) ==
    LET wanted == CASE kind \in {"unlock", "lock"} -> {"success"}
                    [] kind = "identities"         -> {"identities"}
                    [] OTHER                       -> {"signature", "locked"}
    IN  IF type \in wanted THEN type ELSE "failure"

(* Mutant of SendToDevice: serial_lock is not taken.                        *)
SendToDevice_NoLock(c) ==
    /\ pc[c] = "lock" /\ port
    /\ sent' = sent + 1
    /\ asked' = [asked EXCEPT ![c].id = sent + 1]
    /\ toDev' = Append(toDev, Packet(asked[c].kind, sent + 1))
    /\ Go(c, "answer")
    /\ UNCHANGED <<lock, told, fromDev, devVars, clientVars, got, running, port, main, history>>

(* send_to_esp32: nothing is read from the port before the request is sent.  *)
SendToDevice(c) ==
    /\ pc[c] = "lock" /\ lock = NoClient
    /\ IF port
       THEN /\ lock' = c
            /\ sent' = sent + 1
            /\ asked' = [asked EXCEPT ![c].id = sent + 1]
            /\ toDev' = Append(toDev, Packet(asked[c].kind, sent + 1))
            /\ Go(c, "answer")
            /\ UNCHANGED told
       ELSE /\ told' = [told EXCEPT ![c] = "failure"]
            /\ Go(c, "reply")
            /\ UNCHANGED <<lock, sent, asked, toDev>>
    /\ UNCHANGED <<fromDev, devVars, clientVars, got, running, port, main, history>>

(* recv_from_esp32 returns item (an answer), or nothing (failure).          *)
Received(c, item, type) ==
    /\ got' = [got EXCEPT ![c] = item]
    /\ told' = [told EXCEPT ![c] = Reply(asked[c].kind, type)]
    /\ lock' = NoClient
    /\ Go(c, "reply")
    /\ UNCHANGED <<toDev, devVars, clientVars, asked, running, port, main, sent>>

Receiving(c) == pc[c] = "answer"

SkipText(c) ==
    /\ Receiving(c) /\ port
    /\ Skip
    /\ UNCHANGED <<toDev, devVars, bridgeVars>>

(* The one answer a thread waits for: a second answer to a request (to an    *)
(* oversized packet) is none of its own.                                     *)
TakeAnswer(c) ==
    /\ Receiving(c) /\ port
    /\ Take
    /\ LET answer == Head(fromDev)
       IN  /\ Received(c, answer, answer.type)
           /\ last' = answer.id
           /\ missed' = IF answer.id = last THEN missed + 1 ELSE missed
           /\ acked' = IF /\ asked[c].kind = "lock" /\ answer.id = asked[c].id
                         /\ answer.type = "success"
                      THEN answer.id ELSE acked

NoAnswer(c, item, type) ==
    /\ Received(c, item, type)
    /\ missed' = missed + 1
    /\ UNCHANGED <<last, acked>>

MisreadRest(c) ==
    /\ Receiving(c) /\ port
    /\ Misread
    /\ \E type \in AnswerTypes : NoAnswer(c, Rest, type)

(* Mutant of GiveUp: the deadline is looked at only when bytes arrive.      *)
GiveUp_NoDeadline(c) ==
    /\ Receiving(c) /\ port /\ fromDev # << >>
    /\ Abandon
    /\ NoAnswer(c, Text, "failure")

GiveUp(c) ==
    /\ Receiving(c) /\ port
    /\ Abandon
    /\ NoAnswer(c, Text, "failure")

(* The signal handler has closed the port: the read raises.                 *)
ReadFails(c) ==
    /\ Receiving(c) /\ ~port
    /\ NoAnswer(c, Text, "failure")
    /\ UNCHANGED fromDev

--------------------------------------------------------------------------------
(***************************************************************************)
(* shutdown, the handler of SIGINT and SIGTERM, in the main thread         *)
(***************************************************************************)

Shutdown ==
    /\ \/ main = "accept"  /\ main' = "closing"   /\ running' = FALSE /\ UNCHANGED port
       \/ main = "closing" /\ main' = "unlinking" /\ port' = FALSE    /\ UNCHANGED running
    /\ UNCHANGED <<lineVars, devVars, clientVars, threadVars, lock, sent, history>>

(* sys.exit ends the process: its daemon threads end with it, and the       *)
(* system closes its sockets.                                               *)
Exit ==
    /\ main = "unlinking" /\ main' = "exited"
    /\ pc' = [c \in Clients |-> "closed"]
    /\ stream' = [c \in Clients |-> << >>]
    /\ owes' = [c \in Clients |-> "gone"]
    /\ asked' = [c \in Clients |-> Nothing]
    /\ got' = [c \in Clients |-> Text]
    /\ told' = [c \in Clients |-> "failure"]
    /\ lock' = NoClient
    /\ UNCHANGED <<lineVars, devVars, left, running, port, sent, history>>

ThreadStep(c) ==
    \/ ReadLength(c)
    \/ ReadData(c)
    \/ StreamTimeout(c)
    \/ SendReply(c)
    \/ SendToDevice(c)
    \/ SkipText(c)
    \/ TakeAnswer(c)
    \/ MisreadRest(c)
    \/ GiveUp(c)
    \/ ReadFails(c)

Next ==
    \/ \E c \in Clients : ClientStep(c) \/ AcceptClient(c) \/ ThreadStep(c)
    \/ DeviceNext /\ UNCHANGED bridgeVars
    \/ Shutdown
    \/ Exit

Spec == Init /\ [][Next]_vars

(* A thread that can run does, deadlines pass, and a lock that is free is   *)
(* taken by one of the threads that wait for it.  Nothing is asked of the   *)
(* device, of the clients or of the operator who stops the bridge.          *)
FairSpec == Spec /\ \A c \in Clients : WF_vars(ThreadStep(c))

--------------------------------------------------------------------------------
(***************************************************************************)
(* Properties                                                              *)
(***************************************************************************)

(* Answers carry no number: a thread takes the first one it finds.  While    *)
(* every exchange has taken an answer of its own, that is the answer to the  *)
(* thread's own request, however the exchanges of the threads, debug output  *)
(* and restarts of the device interleave.  From the k-th exchange that has   *)
(* not - its deadline passed, the answer had been cut in two, or an          *)
(* oversized packet was answered twice - answers may come up to k requests   *)
(* late; they never come later, and never for a request not sent yet.        *)
(* bridge:84-137, 156-269.                                                   *)
AnswersMatch ==
    \A c \in Clients :
        pc[c] = "reply" /\ asked[c].id # 0 =>
            /\ got[c].part = "frame" => asked[c].id - got[c].id \in 0 .. missed
            /\ got[c].part = "rest" => missed > 1

(* Once a lock has been acknowledged by its own answer the key stays locked, *)
(* whatever the device, the clients and the deadlines do, until a request    *)
(* sent after the lock unlocks it.  bridge:173-186, main.cpp:443-458.        *)
LockHolds == acked # 0 => IsLocked \/ unlockedBy > acked

(* A client that is told "Agent locked" (bridge:184) finds the key locked,   *)
(* unless a later request has unlocked it.                                   *)
LockReported ==
    \A c \in Clients :
        pc[c] = "reply" /\ asked[c].kind = "lock" /\ told[c] = "success" =>
            IsLocked \/ unlockedBy > asked[c].id

(* Every message that reached the bridge is answered or its connection is   *)
(* closed, whatever the device and the other clients do.  bridge:336-366.   *)
Answered ==
    \A c \in Clients :
        pc[c] \in {"data", "lock", "answer", "reply"}
            ~> pc[c] \in {"length", "closed"}
================================================================================
