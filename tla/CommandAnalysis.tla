---------------------------- MODULE CommandAnalysis ----------------------------
(***************************************************************************)
(* The command analysis (src/src/ai/command_analysis.py): for an anomaly   *)
(* report it opens the encrypted homes of the user's containers one after  *)
(* the other, reads the shell history, asks the model and stores a report. *)
(* It does so beside the manager, which opens and closes the same images   *)
(* under another device name at the same mount point.                      *)
(*                                                                         *)
(* A step is what the program does up to the return of its next command or *)
(* call.  Each may fail, whether the code looks at the result or not.      *)
(***************************************************************************)
EXTENDS Sanitizer, FiniteSets, SequencesExt

CONSTANTS
    Containers,   (* the containers of the user                            *)
    Homes,        (* what a home may hold: its own history and the one in  *)
                  (* the directory the program looks into                  *)
    Tests,        (* what the test directory may hold                      *)
    Responses,    (* what the model may answer                             *)
    MaxRuns,      (* bound: how many times the program is run              *)
    MaxOpens      (* bound: how often the manager opens a home             *)

(* The history files of a directory, by shell; an absent one is empty.      *)
Files == [{"ash", "bash", "zsh"} -> Seq(Line)]

ASSUME AnalysisAssumption ==
    /\ Homes \subseteq [own : Seq(Line), sub : Files]
    /\ Tests \subseteq Files
    /\ Responses \subseteq {r \in Response : Plausible(r)}
    /\ MaxRuns \in Nat /\ MaxOpens \in Nat

NoContainer == "none"

ASSUME NoContainerAssumption == NoContainer \notin Containers

VARIABLES
    (* The host                                                            *)
    image,     (* homes/<c>.img                                            *)
    home,      (* what is in the image                                     *)
    test,      (* test_<user>: {} or one Files                             *)
    mounts,    (* mounts[c]: the devices mounted on homes/<c>_mnt, top last *)
    mapper,    (* the open devices, by owner and container                 *)
    loops,     (* loops[c]: how many loop devices the program has attached *)
               (* to the image; the manager's come and go with its device  *)
    keyfiles,  (* the temporary key files                                  *)
    (* The manager                                                         *)
    mgr,       (* mgr[c]: how far it is with c's home                      *)
    opens,     (* how many more homes it opens                             *)
    (* The program                                                         *)
    pc,        (* where it is                                              *)
    todo,      (* the containers still to be analysed                      *)
    cur,       (* the one in hand                                          *)
    needs,     (* needs_unmount                                            *)
    commands,  (* the lines read                                           *)
    answer,    (* what the model answered: {} or one Response              *)
    failing,   (* an exception is on its way out                           *)
    reports,   (* the rows of command_reports                              *)
    runs,      (* how many times it was started                            *)
    status,    (* its exit status                                          *)
    due,       (* history: the containers whose history it has to report   *)
    busy,      (* history: the homes whose last umount failed              *)
    left,      (* history: the homes at which closing the device or        *)
               (* detaching the loop device once came to nothing           *)
    crossed    (* history: the homes which the manager mounted or          *)
               (* unmounted while the program's mount was on them          *)

hostVars == <<image, home, test, mounts, mapper, loops, keyfiles>>
managerVars == <<mgr, opens>>
progVars == <<pc, todo, cur, needs, commands, answer, failing, reports, runs, status, due>>
marks == <<busy, left, crossed>>
vars == <<hostVars, managerVars, progVars, marks>>

Owners == {"manager", "analysis"}

AnalysisTypeOK ==
    /\ image \subseteq Containers
    /\ home \in [Containers -> Homes]
    /\ test \subseteq Tests
    /\ mounts \in [Containers -> Seq(Owners)]
    /\ mapper \subseteq Owners \X Containers
    /\ loops \in [Containers -> Nat]
    /\ keyfiles \subseteq Containers
    /\ mgr \in [Containers -> {"closed", "opened", "mounted", "unmounted"}]
    /\ opens \in 0 .. MaxOpens
    /\ pc \in {"off", "next", "image", "losetup", "open", "mount", "close", "detach",
               "fallback", "read", "ask", "save", "json", "umount", "uclose", "udetach"}
    /\ todo \subseteq Containers /\ cur \in Containers \cup {NoContainer}
    /\ needs \in BOOLEAN
    /\ commands \in Seq(Line)
    /\ answer \subseteq Responses
    /\ failing \in BOOLEAN
    /\ reports \in Seq([run : Nat, container : Containers,
                        risk : {"benign", "suspicious", "malicious"}])
    /\ runs \in 0 .. MaxRuns
    /\ status \in {"none", "ok", "fail"}
    /\ due \subseteq Containers
    /\ busy \subseteq Containers /\ left \subseteq Containers /\ crossed \subseteq Containers

Init ==
    /\ image \in SUBSET Containers
    /\ home \in [Containers -> Homes]
    /\ test \in {{}} \cup {{t} : t \in Tests}
    /\ mounts = [c \in Containers |-> << >>]
    /\ mapper = {} /\ keyfiles = {}
    /\ loops = [c \in Containers |-> 0]
    /\ mgr = [c \in Containers |-> "closed"]
    /\ opens = MaxOpens
    /\ pc = "off" /\ todo = {} /\ cur = NoContainer /\ needs = FALSE
    /\ commands = << >> /\ answer = {} /\ failing = FALSE
    /\ reports = << >> /\ runs = 0 /\ status = "none" /\ due = {}
    /\ busy = {} /\ left = {} /\ crossed = {}

--------------------------------------------------------------------------------
(***************************************************************************)
(* The kernel                                                              *)
(***************************************************************************)

(* Whether umount would get at something, and what it leaves.               *)
Umounted(c) == IF mounts[c] = << >> THEN mounts ELSE [mounts EXCEPT ![c] = Front(@)]

InUse(owner, c) == owner \in ToSet(mounts[c])

Closed(owner, c) == IF InUse(owner, c) THEN mapper ELSE mapper \ {<<owner, c>>}

--------------------------------------------------------------------------------
(***************************************************************************)
(* The manager (volume.c), as far as the program can meet it: its openings *)
(* and closings, all of which succeed.                                     *)
(***************************************************************************)

(* umount takes the topmost mount, whosever it is.                          *)
Crosses(c) == crossed' = IF InUse("analysis", c) THEN crossed \cup {c} ELSE crossed

(* cleanup_stale_mapper does not see the program's device.                  *)
ManagerOpens(c) ==
    /\ mgr[c] = "closed" /\ opens > 0 /\ c \in image
    /\ <<"manager", c>> \notin mapper
    /\ mapper' = mapper \cup {<<"manager", c>>}
    /\ mgr' = [mgr EXCEPT ![c] = "opened"] /\ opens' = opens - 1
    /\ UNCHANGED <<image, home, test, mounts, loops, keyfiles, crossed>>

ManagerMounts(c) ==
    /\ mgr[c] = "opened"
    /\ mounts' = [mounts EXCEPT ![c] = Append(@, "manager")]
    /\ mgr' = [mgr EXCEPT ![c] = "mounted"]
    /\ Crosses(c)
    /\ UNCHANGED <<image, home, test, mapper, loops, keyfiles, opens>>

ManagerUnmounts(c) ==
    /\ mgr[c] = "mounted"
    /\ mounts' = Umounted(c)
    /\ mgr' = [mgr EXCEPT ![c] = "unmounted"]
    /\ Crosses(c)
    /\ UNCHANGED <<image, home, test, mapper, loops, keyfiles, opens>>

ManagerCloses(c) ==
    /\ mgr[c] = "unmounted"
    /\ mapper' = Closed("manager", c)
    /\ mgr' = [mgr EXCEPT ![c] = "closed"]
    /\ UNCHANGED <<image, home, test, mounts, loops, keyfiles, opens, crossed>>

ManagerStep(c) ==
    /\ \/ ManagerOpens(c)
       \/ ManagerMounts(c)
       \/ ManagerUnmounts(c)
       \/ ManagerCloses(c)
    /\ UNCHANGED <<progVars, busy, left>>

--------------------------------------------------------------------------------
(***************************************************************************)
(* analyze_anomaly: the loop over the containers                           *)
(***************************************************************************)

Keeps(kept) == UNCHANGED <<kept, image, home, test, managerVars, marks>>

(* The report is looked up, and the containers of the user's connections.   *)
(* There may be neither.                                                    *)
Start ==
    /\ pc = "off" /\ runs < MaxRuns
    /\ runs' = runs + 1
    /\ due' = {} /\ failing' = FALSE
    /\ \/ \E cs \in SUBSET Containers \ {{}} :
             todo' = cs /\ pc' = "next" /\ status' = "none"
       \/ status' = "fail" /\ todo' = {} /\ UNCHANGED pc
    /\ Keeps(<<mounts, mapper, loops, keyfiles, cur, needs, commands, answer, reports>>)

(* What the database may say of a container's key.                          *)
get_container_key == {"key", "None", "raises"}

(* set() gives the containers in any order; one without a key is skipped.   *)
NextContainer(c) ==
    /\ pc = "next" /\ c \in todo
    /\ \E key \in get_container_key :
         /\ pc' = IF key = "key" THEN "image" ELSE IF key = "None" THEN "next" ELSE "off"
         /\ cur' = IF key = "key" THEN c ELSE cur
         /\ todo' = IF key = "raises" THEN {} ELSE todo \ {c}
         /\ status' = IF key = "raises" THEN "fail" ELSE status
    /\ Keeps(<<mounts, mapper, loops, keyfiles, needs, commands, answer, failing, reports,
               runs, due>>)

Finish ==
    /\ pc = "next" /\ todo = {}
    /\ pc' = "off" /\ status' = "ok"
    /\ Keeps(<<mounts, mapper, loops, keyfiles, todo, cur, needs, commands, answer, failing,
               reports, runs, due>>)

Goes(place) ==
    /\ pc' = place
    /\ UNCHANGED <<todo, cur, commands, answer, failing, reports, runs, status, due>>

--------------------------------------------------------------------------------
(* mount_volume.  Until it returns a mount point, needs is FALSE.           *)

CheckImage ==
    /\ pc = "image"
    /\ IF cur \notin image
       THEN Goes("fallback") /\ UNCHANGED <<keyfiles, needs>>
       ELSE IF mounts[cur] # << >>
       THEN Goes("read") /\ needs' = TRUE /\ UNCHANGED keyfiles
       ELSE Goes("losetup") /\ keyfiles' = keyfiles \cup {cur} /\ UNCHANGED needs
    /\ Keeps(<<mounts, mapper, loops>>)

Unlink == keyfiles' = keyfiles \ {cur}

(* Mutant of Losetup: the key file stays when losetup fails.                *)
Losetup_KeepsKey ==
    /\ pc = "losetup"
    /\ \/ loops' = [loops EXCEPT ![cur] = @ + 1] /\ Goes("open")
       \/ Goes("fallback") /\ UNCHANGED loops
    /\ Keeps(<<mounts, mapper, needs, keyfiles>>)

Losetup ==
    /\ pc = "losetup"
    /\ \/ /\ loops' = [loops EXCEPT ![cur] = @ + 1]
          /\ Goes("open") /\ UNCHANGED keyfiles
       \/ Goes("fallback") /\ Unlink /\ UNCHANGED loops
    /\ Keeps(<<mounts, mapper, needs>>)

OpenDevice ==
    /\ pc = "open"
    /\ \/ /\ <<"analysis", cur>> \notin mapper
          /\ mapper' = mapper \cup {<<"analysis", cur>>}
          /\ Goes("mount")
       \/ Goes("detach") /\ UNCHANGED mapper
    /\ Keeps(<<mounts, loops, keyfiles, needs>>)

MountDevice ==
    /\ pc = "mount"
    /\ \/ /\ mounts' = [mounts EXCEPT ![cur] = Append(@, "analysis")]
          /\ Goes("read") /\ Unlink /\ needs' = TRUE
       \/ Goes("close") /\ UNCHANGED <<mounts, keyfiles, needs>>
    /\ Keeps(<<mapper, loops>>)

(* Clean-up whose result nobody looks at.                                   *)
CleansUp(kept) == UNCHANGED <<kept, image, home, test, keyfiles, managerVars, crossed>>

(* cryptsetup close: a device in use stays open, another does if it fails.  *)
CloseOrLeave ==
    \/ mapper' = Closed("analysis", cur) /\ UNCHANGED left
    \/ /\ <<"analysis", cur>> \in mapper /\ ~InUse("analysis", cur)
       /\ left' = left \cup {cur} /\ UNCHANGED mapper

Attached(c) == loops[c] > (IF <<"analysis", c>> \in mapper THEN 1 ELSE 0)

CloseDevice ==
    /\ pc = "close"
    /\ CloseOrLeave
    /\ Goes("detach")
    /\ CleansUp(<<mounts, loops, needs, busy>>)

(* losetup -d: a loop device in use stays, another does if it fails.        *)
Detach ==
    /\ pc = "detach"
    /\ \/ /\ Attached(cur)
          /\ loops' = [loops EXCEPT ![cur] = @ - 1] /\ UNCHANGED left
       \/ UNCHANGED loops /\ left' = left \cup {cur}
    /\ Goes("fallback") /\ Unlink
    /\ UNCHANGED <<mounts, mapper, needs, image, home, test, managerVars, busy, crossed>>

(* No volume: the test directory, if there is one.                          *)
Fallback ==
    /\ pc = "fallback"
    /\ Goes(IF test # {} THEN "read" ELSE "next")
    /\ Keeps(<<mounts, mapper, loops, keyfiles, needs>>)

--------------------------------------------------------------------------------
(* read_shell_history looks below the mount point for a directory named     *)
(* after the user.  Nobody makes one: the volume is the home itself.        *)
read_shell_history(files) == files["ash"] \o files["bash"] \o files["zsh"]

HistoryFiles ==
    IF needs THEN (IF mounts[cur] = << >> THEN {} ELSE {home[cur].sub}) ELSE test

Found == IF HistoryFiles = {} THEN << >> ELSE read_shell_history(CHOOSE f \in HistoryFiles : TRUE)

(* The end of the try block: the finally clause unmounts.                   *)
Leaves == IF needs THEN "umount" ELSE IF failing' THEN "off" ELSE "next"

(* What has the name of a history file may not be one that can be read.     *)
ReadHistory ==
    /\ pc = "read"
    /\ \/ /\ commands' = Found
          /\ due' = IF Found # << >> THEN due \cup {cur} ELSE due
          /\ failing' = FALSE
          /\ pc' = IF Found = << >> THEN Leaves ELSE "ask"
          /\ UNCHANGED status
       \/ /\ HistoryFiles # {}
          /\ failing' = TRUE /\ pc' = Leaves /\ status' = "fail"
          /\ UNCHANGED <<commands, due>>
    /\ Keeps(<<mounts, mapper, loops, keyfiles, needs, todo, cur, answer, reports, runs>>)

(* What the model gets to see.                                              *)
Prompt == sanitize_commands(commands).formatted

(* Mutant of AskModel: an exception is swallowed.                           *)
AskModel_Swallows ==
    /\ pc = "ask"
    /\ \/ /\ \E r \in Responses : answer' = {r}
          /\ failing' = FALSE /\ pc' = "save"
          /\ UNCHANGED <<commands, status>>
       \/ /\ failing' = FALSE /\ pc' = Leaves /\ commands' = << >>
          /\ UNCHANGED <<answer, status>>
    /\ Keeps(<<mounts, mapper, loops, keyfiles, needs, todo, cur, reports, runs, due>>)

(* call_llm; no requests package, no connection, an HTTP error or an answer *)
(* of another shape raise.                                                  *)
AskModel ==
    /\ pc = "ask"
    /\ \/ /\ \E r \in Responses : answer' = {r}
          /\ failing' = FALSE /\ pc' = "save"
          /\ UNCHANGED <<commands, status>>
       \/ /\ failing' = TRUE /\ pc' = Leaves /\ commands' = << >> /\ status' = "fail"
          /\ UNCHANGED answer
    /\ Keeps(<<mounts, mapper, loops, keyfiles, needs, todo, cur, reports, runs, due>>)

(* Mutant of Rating: what fails validation is rated "nothing".              *)
Rating_Raw(r) == IF validate_llm_response(r) = "verdict" THEN r.risk ELSE "nothing"

Rating(r) == IF validate_llm_response(r) = "verdict" THEN r.risk ELSE "suspicious"

insert_command_report(risk) ==
    reports' = Append(reports, [run |-> runs, container |-> cur, risk |-> risk])

(* The verdict is validated and stored in the database, ...                 *)
SaveReport ==
    /\ pc = "save"
    /\ \E r \in answer :
         \/ /\ validate_llm_response(r) # "raises"
            /\ insert_command_report(Rating(r))
            /\ pc' = "json" /\ failing' = FALSE
            /\ UNCHANGED <<commands, answer, status>>
         \/ (* the validation raises, or the database does                   *)
            /\ failing' = TRUE /\ pc' = Leaves
            /\ commands' = << >> /\ answer' = {} /\ status' = "fail"
            /\ UNCHANGED reports
    /\ Keeps(<<mounts, mapper, loops, keyfiles, needs, todo, cur, runs, due>>)

(* ... and then in a file, which may raise.                                 *)
SaveJson ==
    /\ pc = "json"
    /\ failing' \in BOOLEAN
    /\ status' = IF failing' THEN "fail" ELSE status
    /\ pc' = Leaves
    /\ commands' = << >> /\ answer' = {}
    /\ Keeps(<<mounts, mapper, loops, keyfiles, needs, todo, cur, reports, runs, due>>)

--------------------------------------------------------------------------------
(* unmount_volume; no result is looked at                                   *)

UnmountVolume ==
    /\ pc = "umount"
    /\ \/ mounts' = Umounted(cur) /\ busy' = busy \ {cur}
       \/ mounts[cur] # << >> /\ UNCHANGED mounts /\ busy' = busy \cup {cur}
    /\ Goes("uclose")
    /\ CleansUp(<<mapper, loops, needs, left>>)

(* Mutant of CloseVolume: the device is not closed.                         *)
CloseVolume_Forgets ==
    /\ pc = "uclose"
    /\ Goes("udetach")
    /\ CleansUp(<<mapper, mounts, loops, needs, busy, left>>)

CloseVolume ==
    /\ pc = "uclose"
    /\ CloseOrLeave
    /\ Goes("udetach")
    /\ CleansUp(<<mounts, loops, needs, busy>>)

(* The first loop device that losetup -j lists is detached.  It may be the  *)
(* manager's, which goes with its device.                                   *)
DetachVolume ==
    /\ pc = "udetach"
    /\ \/ /\ Attached(cur)
          /\ loops' = [loops EXCEPT ![cur] = @ - 1] /\ UNCHANGED left
       \/ /\ left' = IF Attached(cur) THEN left \cup {cur} ELSE left
          /\ UNCHANGED loops
    /\ needs' = FALSE /\ failing' = FALSE
    /\ pc' = IF failing THEN "off" ELSE "next"
    /\ todo' = IF failing THEN {} ELSE todo
    /\ CleansUp(<<mounts, mapper, cur, commands, answer, reports, runs, status, due, busy>>)

AnalysisStep ==
    \/ \E c \in Containers : NextContainer(c)
    \/ CheckImage \/ Losetup \/ OpenDevice \/ MountDevice \/ CloseDevice \/ Detach
    \/ Fallback \/ ReadHistory \/ AskModel \/ SaveReport \/ SaveJson
    \/ UnmountVolume \/ CloseVolume \/ DetachVolume
    \/ Finish

Next ==
    \/ Start
    \/ AnalysisStep
    \/ \E c \in Containers : ManagerStep(c)

Spec == Init /\ [][Next]_vars

--------------------------------------------------------------------------------
(***************************************************************************)
(* Properties                                                              *)
(***************************************************************************)

(* The container's key is in a file only while its volume is being opened,  *)
(* whatever fails and whatever the manager does.                            *)
(* command_analysis.py:56-89.                                               *)
KeyFileGone ==
    pc \notin {"losetup", "open", "mount", "close", "detach"} => keyfiles = {}

(* What the program has open on home c.                                     *)
Nothing(c) ==
    <<"analysis", c>> \notin mapper /\ ~InUse("analysis", c) /\ loops[c] = 0

Everything(c) ==
    <<"analysis", c>> \in mapper /\ InUse("analysis", c) /\ loops[c] = 1

(* When the program ends, normally or by an exception, nothing it opened,    *)
(* attached or mounted is left, whichever command of an opening failed and   *)
(* whenever the manager opened the home; or everything is left, where the    *)
(* last umount failed, for the next run to find mounted and take down.  Two  *)
(* things spoil this for good: a close or losetup -d that comes to nothing   *)
(* (losetup -d gets hold of the manager's loop device, if that is listed     *)
(* first), and a mount or an umount of the manager's while the program's     *)
(* mount is there, for then each takes down the other's.                     *)
(* command_analysis.py:44-104, 232-234.                                      *)
LeavesNoTrace ==
    pc = "off" =>
        \A c \in Containers \ (left \cup crossed) :
            IF c \in busy THEN Nothing(c) \/ Everything(c) ELSE Nothing(c)

(* A run that ends with status 0 has a row for every history it read: no     *)
(* exception on the way from the model to the database is lost in the        *)
(* clean-up, and none ends with status 0.  A home that could not be opened   *)
(* is skipped, and its history was not read.  command_analysis.py:180-236.   *)
AllReported ==
    pc = "off" /\ status = "ok" =>
        \A c \in due : \E i \in DOMAIN reports :
            reports[i].run = runs /\ reports[i].container = c

(* What the model is asked about is the history cut to the limits, without  *)
(* a line that matches an injection pattern, and every number it may quote  *)
(* names the same line of the history, of the prompt and of the report.     *)
(* sanitizer.py:26-52, 106-113.                                             *)
PromptFaithful ==
    pc = "ask" =>
        /\ Len(Prompt) <= MAX_LINES
        /\ \A k \in DOMAIN Prompt :
             LET line == Prompt[k].line
             IN  /\ Prompt[k].number = k
                 /\ IF line.text = "filtered"
                    THEN line.no = k /\ commands[k].text = "visible"
                    ELSE line.text = "plain" /\ line.cut /\ line.no = commands[k].no
                 /\ sanitize_commands(commands).lines[k] = line

(* The homes' shell history is what the program analyses (README.md:91,     *)
(* "deep analysis of shell history from LUKS-encrypted volumes"): a home    *)
(* that was opened and that has a history has been read.  The code looks    *)
(* for it in a directory of the home named after the user, but the shell    *)
(* writes it to the home itself (lxd.c:63, 147).                            *)
HistoryRead ==
    pc = "umount" /\ mounts[cur] # << >> /\ home[cur].own # << >> => cur \in due
================================================================================
