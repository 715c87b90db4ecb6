-------------------------------- MODULE KeyTool --------------------------------
(***************************************************************************)
(* The key tool (src/wrapper/esp32_keytool.py) at the serial line of the   *)
(* device: commands that generate a key, show it, unlock or lock it and    *)
(* sign with it.  Each is a process of its own that opens the port, sleeps *)
(* for two seconds, empties the input buffer, sends one packet and reads   *)
(* one.  The commands are run one after another, the bridge is not up.     *)
(***************************************************************************)
EXTENDS KeyDevice

CONSTANT MaxRuns    (* bound: how many times the tool is run                *)

ASSUME RunsAssumption == MaxRuns \in Nat

(* "generate" stands for --generate with a password, "generateplain" for    *)
(* --generate without one.                                                  *)
Operations == {"generate", "generateplain", "pubkey", "unlock", "lock", "sign"}

VARIABLES
    at,      (* where the tool is                                           *)
    op,      (* the command it runs                                         *)
    secret,  (* the password on its command line                            *)
    result,  (* its exit status                                             *)
    taken,   (* the item it took for the answer                             *)
    runs,    (* how many times it was started                               *)
    before,  (* history: how many keys there were when it was started       *)
    quiet,   (* history: the device had nothing else in hand when it sent   *)
    restarted (* history: the device has restarted since                    *)

toolVars == <<at, op, secret, result, taken, runs, before, quiet, restarted>>
vars == <<lineVars, devVars, toolVars>>

ToolTypeOK ==
    /\ KeyTypeOK
    /\ at \in {"off", "opened", "answer", "listening", "done"}
    /\ op \in Operations
    /\ secret \in Passwords \cup {NoPassword}
    /\ result \in {"none", "ok", "fail"}
    /\ taken \in Item
    /\ runs \in 0 .. MaxRuns
    /\ before \in 0 .. MaxKeys
    /\ quiet \in BOOLEAN
    /\ restarted \in BOOLEAN

Init ==
    /\ DeviceInit
    /\ at = "off" /\ op = "pubkey" /\ secret = NoPassword /\ result = "none"
    /\ taken = Text
    /\ runs = 0 /\ before = 0 /\ quiet = FALSE /\ restarted = FALSE

--------------------------------------------------------------------------------
(* main: the arguments are checked, then the command opens the port and     *)
(* empties the input buffer, maybe while an answer is coming in.  The port  *)
(* may be missing (the tool fails).                                         *)
Start(o, pw) ==
    /\ at = "off" /\ runs < MaxRuns
    /\ o \in {"generate", "unlock"} \/ pw = NoPassword
    /\ o = "generate" => pw # NoPassword
    /\ op' = o /\ secret' = pw
    /\ runs' = runs + 1
    /\ before' = keys
    /\ \/ /\ ~(o = "unlock" /\ pw = NoPassword)
          /\ \/ fromDev' = << >>
             \/ fromDev # << >> /\ fromDev' = <<Rest>>
          /\ at' = "opened"
          /\ UNCHANGED result
       \/ /\ at' = "done" /\ result' = "fail"
          /\ UNCHANGED fromDev
    /\ UNCHANGED <<toDev, devVars, taken, quiet, restarted>>

(* send_packet, for all commands but one: generate_key without a password   *)
(* sends nothing.                                                           *)
Send ==
    /\ at = "opened"
    /\ quiet' = (step = 0 /\ toDev = << >> /\ fromDev = << >>)
    /\ IF op = "generateplain"
       THEN /\ at' = "listening"
            /\ UNCHANGED toDev
       ELSE /\ at' = "answer"
            /\ toDev' = Append(toDev, [id |-> runs, kind |-> op, pw |-> secret, key |-> 0])
    /\ UNCHANGED <<fromDev, devVars, op, secret, result, taken, runs, before, restarted>>

(* The answer each command takes for a success.                             *)
Wanted(o) ==
    CASE o = "pubkey" -> "pubkey"
      [] o = "sign"   -> "signature"
      [] OTHER        -> "success"

Finish(item, ok) ==
    /\ at' = "done"
    /\ taken' = item
    /\ result' = IF ok THEN "ok" ELSE "fail"
    /\ UNCHANGED <<toDev, devVars, op, secret, runs, before, quiet, restarted>>

(* read_packet                                                              *)
SkipText ==
    /\ at = "answer"
    /\ Skip
    /\ UNCHANGED <<toDev, devVars, toolVars>>

(* Mutant of TakeAnswer: any answer counts as a success.                    *)
TakeAnswer_AnyType ==
    /\ at = "answer"
    /\ Take
    /\ Finish(Head(fromDev), TRUE)

TakeAnswer ==
    /\ at = "answer"
    /\ Take
    /\ Finish(Head(fromDev), Head(fromDev).type = Wanted(op))

MisreadRest ==
    /\ at = "answer"
    /\ Misread
    /\ \E ok \in BOOLEAN : Finish(Rest, ok)

(* Mutant of GiveUp: the deadline is looked at only when bytes arrive.      *)
GiveUp_NoDeadline ==
    /\ at = "answer" /\ fromDev # << >>
    /\ Abandon
    /\ Finish(Text, FALSE)

GiveUp ==
    /\ at = "answer"
    /\ Abandon
    /\ Finish(Text, FALSE)

(* generate_key without a password reads lines for thirty seconds, for a    *)
(* text that the firmware never prints, and then reports success.           *)
ReadLine ==
    /\ at = "listening"
    /\ fromDev # << >> /\ fromDev' = Tail(fromDev)
    /\ UNCHANGED <<toDev, devVars, toolVars>>

StopListening ==
    /\ at = "listening"
    /\ UNCHANGED fromDev
    /\ Finish(Text, TRUE)

(* The port fails: an exception of the serial library is reported.          *)
PortFails ==
    /\ at \in {"opened", "answer", "listening"}
    /\ UNCHANGED fromDev
    /\ Finish(Text, FALSE)

(* The process exits with its status.                                       *)
Exit ==
    /\ at = "done"
    /\ at' = "off" /\ result' = "none" /\ taken' = Text
    /\ quiet' = FALSE /\ restarted' = FALSE
    /\ op' = "pubkey" /\ secret' = NoPassword
    /\ UNCHANGED <<lineVars, devVars, runs, before>>

ToolStep ==
    \/ Send \/ SkipText \/ TakeAnswer \/ MisreadRest \/ GiveUp
    \/ ReadLine \/ StopListening \/ Exit

Next ==
    \/ \E o \in Operations, pw \in Passwords \cup {NoPassword} : Start(o, pw)
    \/ ToolStep
    \/ PortFails
    \/ DeviceStep /\ UNCHANGED toolVars
    \/ /\ Reset
       /\ restarted' = (at \in {"answer", "done"})
       /\ UNCHANGED <<at, op, secret, result, taken, runs, before, quiet>>

Spec == Init /\ [][Next]_vars

(* The tool's own steps happen and its deadlines pass; the device may be    *)
(* dead, and the port need not fail for the tool to end.                    *)
FairSpec == Spec /\ WF_vars(ToolStep)

--------------------------------------------------------------------------------
(***************************************************************************)
(* Properties                                                              *)
(***************************************************************************)

(* The parts in NVS belong to one key, encrypted with password pw.          *)
Stored(k, pw) ==
    /\ nvs = [pub |-> k, seed |-> k, salt |-> k, iv |-> k, priv |-> 0, enc |-> TRUE]
    /\ pwOf[k] = pw

(* A run that takes the device's answer to its own request and reports       *)
(* success has had its effect: a generated key is stored whole under the     *)
(* given password, whatever the power does afterwards; and until the device  *)
(* restarts a locked key is locked, an unlocked one is unlocked, and the key *)
(* that signs is the one shown, if no loss of power and no wrong password    *)
(* has spoiled it.  The answer is the run's own if nothing was on its way    *)
(* when it sent its request; the tool cannot tell otherwise.                 *)
(* keytool:69-218 and main.cpp:152-193, 404-474.                             *)
SuccessIsReal ==
    at = "done" /\ taken.part = "frame" =>
        /\ quiet => taken.id = runs
        /\ result = "ok" /\ taken.id = runs =>
             CASE op = "generate" -> keys > before /\ Stored(keys, secret)
               [] op = "lock"     -> restarted \/ IsLocked
               [] op = "unlock"   -> restarted \/ ram.unlocked
               [] op = "pubkey"   -> restarted \/ taken.key = ram.pub
               [] op = "sign"     -> restarted \/ ~(spoiled \subseteq {"failed"})
                                       \/ taken.key = ram.pub

(* The password a key was made with opens it: the device refuses it only if  *)
(* its crypto library failed before the password was tried, or if the record *)
(* or the memory is a mixture of two keys, for power was lost among the      *)
(* writes of a generation or a generation failed since the last restart.     *)
(* And whatever became of the record, no other password brings out the key   *)
(* that the device shows.  main.cpp:97-134, 404-441.                         *)
RightPasswordUnlocks ==
    at = "done" /\ op = "unlock" /\ taken.part = "frame" /\ taken.id = runs /\ ~restarted =>
        /\ /\ untried # runs /\ spoiled \cap {"torn", "failed"} = {}
           /\ nvs.enc /\ secret = pwOf[nvs.pub]
           => result = "ok"
        /\ unlockedBy = runs /\ ram.priv = ram.pub => secret = pwOf[ram.pub]

(* Every command of the tool ends, with the device dead or alive.           *)
CommandEnds == at # "off" ~> at = "off"
================================================================================
