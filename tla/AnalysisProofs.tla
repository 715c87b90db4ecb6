----------------------------- MODULE AnalysisProofs -----------------------------
(***************************************************************************)
(* The command analysis beside the manager: what it leaves behind, what it *)
(* reports and what it asks the model, for all homes, answers and numbers  *)
(* of runs.                                                                *)
(***************************************************************************)
EXTENDS CommandAnalysis, TLAPS

(* While a home is being opened, and after the reading has begun.           *)
OpeningPCs == {"losetup", "open", "mount", "close", "detach"}
ReadingPCs == {"read", "ask", "save", "json", "umount"}
LeavingPCs == {"umount", "uclose", "udetach"}

(* A container is in hand from its key to its clean-up, and needs says that *)
(* the clean-up is due.                                                     *)
FlowInv ==
    /\ pc \notin {"off", "next"} => cur \in Containers
    /\ needs => pc \in ReadingPCs \cup LeavingPCs
    /\ pc \in LeavingPCs => needs

TypeInv == AnalysisTypeOK /\ FlowInv

--------------------------------------------------------------------------------
(* Sequences                                                               *)

LEMMA FrontType ==
    ASSUME NEW S, NEW s \in Seq(S), s # << >>
    PROVE  Front(s) \in Seq(S)
BY DEF Front

LEMMA NoLines == << >> \in Seq(Line)
OBVIOUS

LEMMA UmountedType ==
    ASSUME mounts \in [Containers -> Seq(Owners)], NEW c \in Containers
    PROVE  Umounted(c) \in [Containers -> Seq(Owners)]
<1>1. CASE mounts[c] = << >>
  BY <1>1 DEF Umounted
<1>2. CASE mounts[c] # << >>
  <2>1. Front(mounts[c]) \in Seq(Owners)
    BY <1>2, FrontType
  <2> QED BY <1>2, <2>1 DEF Umounted
<1> QED BY <1>1, <1>2

LEMMA FoundType ==
    ASSUME TypeInv, pc = "read"
    PROVE  Found \in Seq(Line)
<1>1. \A f \in Files : read_shell_history(f) \in Seq(Line)
  BY DEF Files, read_shell_history
<1>2. HistoryFiles \subseteq Files
  BY AnalysisAssumption DEF TypeInv, FlowInv, AnalysisTypeOK, HistoryFiles
<1> QED BY <1>1, <1>2 DEF Found

--------------------------------------------------------------------------------
(* Types                                                                   *)

LEMMA InitTypes == Init => TypeInv
<1>1. Init => AnalysisTypeOK
  <2> SUFFICES ASSUME Init
               PROVE  AnalysisTypeOK
    OBVIOUS
  <2>1. mounts \in [Containers -> Seq(Owners)] /\ commands \in Seq(Line) /\ test \subseteq Tests
    BY DEF Init
  <2>2. opens \in 0 .. MaxOpens /\ runs \in 0 .. MaxRuns
    BY AnalysisAssumption DEF Init
  <2>3. reports \in Seq([run : Nat, container : Containers,
                         risk : {"benign", "suspicious", "malicious"}])
    BY DEF Init
  <2>4. /\ loops \in [Containers -> Nat]
        /\ mgr \in [Containers -> {"closed", "opened", "mounted", "unmounted"}]
        /\ mapper \subseteq Owners \X Containers
    BY DEF Init
  <2>5. /\ image \subseteq Containers /\ home \in [Containers -> Homes] /\ keyfiles \subseteq Containers
        /\ pc = "off" /\ todo \subseteq Containers /\ cur \in Containers \cup {NoContainer}
        /\ needs \in BOOLEAN /\ answer \subseteq Responses /\ failing \in BOOLEAN
        /\ status = "none" /\ due \subseteq Containers 
        /\ busy \subseteq Containers /\ left \subseteq Containers /\ crossed \subseteq Containers
    BY DEF Init
  <2> QED BY <2>1, <2>2, <2>3, <2>4, <2>5 DEF AnalysisTypeOK
<1>2. Init => FlowInv
  BY DEF Init, FlowInv, OpeningPCs, ReadingPCs, LeavingPCs
<1> QED BY <1>1, <1>2 DEF TypeInv

LEMMA ManagerTypes ==
    ASSUME TypeInv, NEW c \in Containers, ManagerStep(c)
    PROVE  TypeInv'
<1> USE DEF TypeInv, FlowInv, AnalysisTypeOK, progVars, Crosses
<1>1. CASE ManagerOpens(c)
  <2>1. mapper' \subseteq Owners \X Containers /\ opens' \in 0 .. MaxOpens
    BY <1>1, AnalysisAssumption DEF ManagerOpens, Owners
  <2> QED BY <1>1, <2>1 DEF ManagerStep, ManagerOpens
<1>2. CASE ManagerMounts(c)
  <2>1. Append(mounts[c], "manager") \in Seq(Owners)
    BY DEF Owners
  <2> QED BY <1>2, <2>1 DEF ManagerStep, ManagerMounts
<1>3. CASE ManagerUnmounts(c)
  BY <1>3, UmountedType DEF ManagerStep, ManagerUnmounts
<1>4. CASE ManagerCloses(c)
  BY <1>4 DEF ManagerStep, ManagerCloses, Closed
<1> QED BY <1>1, <1>2, <1>3, <1>4 DEF ManagerStep

LEMMA StepTypes ==
    ASSUME TypeInv, Start \/ AnalysisStep
    PROVE  AnalysisTypeOK'
<1> USE DEF TypeInv, FlowInv, AnalysisTypeOK, Keeps, Goes, managerVars, marks, CleansUp
<1>1. CASE Start
  <2>1. runs' \in 0 .. MaxRuns
    BY <1>1, AnalysisAssumption DEF Start
  <2>3. /\ due' = {} /\ failing' = FALSE 
        /\ todo' \subseteq Containers /\ pc' \in {"next", pc} /\ status' \in {"none", "fail"}
    BY <1>1 DEF Start
  <2>2. UNCHANGED <<image, home, test, mounts, mapper, loops, keyfiles, mgr, opens, cur, needs,
                    commands, answer, reports, busy, left, crossed>>
    BY <1>1 DEF Start
  <2> QED BY <2>1, <2>2, <2>3
<1>2. CASE \E c \in Containers : NextContainer(c)
  BY <1>2 DEF NextContainer, get_container_key
<1>3. CASE CheckImage
  <2>1. UNCHANGED <<image, home, test, mounts, mapper, loops, mgr, opens, todo, cur, commands, answer,
                    failing, reports, runs, status, due, busy, left, crossed>>
    BY <1>3 DEF CheckImage
  <2>2. /\ keyfiles' \in {keyfiles, keyfiles \cup {cur}} /\ needs' \in {needs, TRUE}
        /\ pc' \in {"fallback", "read", "losetup"}
    BY <1>3 DEF CheckImage
  <2>3. cur \in Containers
    BY <1>3 DEF CheckImage
  <2> QED BY <2>1, <2>2, <2>3
<1>4. CASE Losetup
  <2>0. cur \in Containers
    BY <1>4 DEF Losetup
  <2>1. loops' \in [Containers -> Nat]
    <3>1. loops[cur] + 1 \in Nat
      BY <2>0
    <3> QED BY <1>4, <3>1 DEF Losetup
  <2>3. keyfiles' \subseteq keyfiles
    BY <1>4 DEF Losetup, Unlink
  <2> QED BY <1>4, <2>1, <2>3 DEF Losetup
<1>5. CASE OpenDevice
  BY <1>5 DEF OpenDevice, Owners
<1>6. CASE MountDevice
  <2>1. Append(mounts[cur], "analysis") \in Seq(Owners)
    BY <1>6 DEF MountDevice, Owners
  <2> QED BY <1>6, <2>1 DEF MountDevice, Unlink
<1>7. CASE CloseDevice
  <2>1. cur \in Containers /\ mapper' \subseteq mapper /\ left' \in {left, left \cup {cur}}
    BY <1>7 DEF CloseDevice, CloseOrLeave, Closed
  <2> QED BY <1>7, <2>1 DEF CloseDevice
<1>8. CASE Detach
  <2>0. cur \in Containers
    BY <1>8 DEF Detach
  <2>1. loops' \in [Containers -> Nat] /\ left' \subseteq Containers
    <3>1. CASE Attached(cur) /\ loops' = [loops EXCEPT ![cur] = @ - 1] /\ UNCHANGED left
      <4>1. loops[cur] - 1 \in Nat
        BY <2>0, <3>1 DEF Attached
      <4> QED BY <3>1, <4>1
    <3>2. CASE UNCHANGED loops /\ left' = left \cup {cur}
      BY <2>0, <3>2
    <3> QED BY <1>8, <3>1, <3>2 DEF Detach
  <2> QED BY <1>8, <2>1 DEF Detach, Unlink
<1>9. CASE Fallback
  BY <1>9 DEF Fallback
<1>10. CASE ReadHistory
  BY <1>10, FoundType DEF ReadHistory, Leaves, Line
<1>11. CASE AskModel
  <2>0. /\ commands' \in {commands, << >>} /\ failing' \in BOOLEAN /\ status' \in {status, "fail"}
        /\ answer' = answer \/ \E r \in Responses : answer' = {r}
    BY <1>11 DEF AskModel
  <2>1. commands' \in Seq(Line)
    BY <2>0, NoLines
  <2>2. pc' \in {"save", "umount", "off", "next"}
    BY <1>11 DEF AskModel, Leaves
  <2>3. answer' \subseteq Responses
    BY <2>0
  <2>4. UNCHANGED <<image, home, test, mounts, mapper, loops, keyfiles, mgr, opens, todo, cur, needs,
                    reports, runs, due, busy, left, crossed>>
    BY <1>11 DEF AskModel
  <2> QED BY <2>0, <2>1, <2>2, <2>3, <2>4
<1>12. CASE SaveReport
  <2>1. \A r \in Responses : Rating(r) \in {"benign", "suspicious", "malicious"}
    BY AnalysisAssumption DEF Rating, Response
  <2>2. /\ UNCHANGED reports \/ \E r \in answer : insert_command_report(Rating(r))
        /\ status' \in {status, "fail"} /\ commands' \in {commands, << >>}
        /\ answer' \in {answer, {}} /\ failing' \in BOOLEAN
        /\ pc' \in {"json", Leaves}
    BY <1>12 DEF SaveReport
  <2>3. reports' \in Seq([run : Nat, container : Containers,
                         risk : {"benign", "suspicious", "malicious"}])
    <3>1. CASE UNCHANGED reports
      BY <3>1
    <3>2. ASSUME NEW r \in answer, insert_command_report(Rating(r))
          PROVE  reports' \in Seq([run : Nat, container : Containers,
                                   risk : {"benign", "suspicious", "malicious"}])
      <4>1. [run |-> runs, container |-> cur, risk |-> Rating(r)] \in
                [run : Nat, container : Containers, risk : {"benign", "suspicious", "malicious"}]
        BY <1>12, <2>1 DEF SaveReport
      <4> QED BY <3>2, <4>1 DEF insert_command_report
    <3> QED BY <2>2, <3>1, <3>2
  <2>5. pc' \in {"json", "umount", "off", "next"}
    BY <2>2 DEF Leaves
  <2>6. commands' \in Seq(Line)
    BY <2>2, NoLines
  <2>7. answer' \subseteq Responses /\ status' \in {"none", "ok", "fail"}
    BY <2>2
  <2>4. UNCHANGED <<image, home, test, mounts, mapper, loops, keyfiles, mgr, opens, todo, cur, needs,
                    runs, due, busy, left, crossed>>
    BY <1>12 DEF SaveReport
  <2> QED BY <2>2, <2>3, <2>4, <2>5, <2>6, <2>7
<1>13. CASE SaveJson
  BY <1>13 DEF SaveJson, Leaves
<1>14. CASE UnmountVolume
  <2>1. mounts' \in [Containers -> Seq(Owners)] /\ busy' \subseteq Containers
    BY <1>14, UmountedType DEF UnmountVolume
  <2> QED BY <1>14, <2>1 DEF UnmountVolume
<1>15. CASE CloseVolume
  <2>1. cur \in Containers /\ mapper' \subseteq mapper /\ left' \in {left, left \cup {cur}}
    BY <1>15 DEF CloseVolume, CloseOrLeave, Closed
  <2> QED BY <1>15, <2>1 DEF CloseVolume
<1>16. CASE DetachVolume
  <2>1. loops' \in [Containers -> Nat]
    <3>1. CASE UNCHANGED loops
      BY <3>1
    <3>2. CASE Attached(cur) /\ loops' = [loops EXCEPT ![cur] = @ - 1]
      <4>1. loops[cur] - 1 \in Nat
        BY <1>16, <3>2 DEF DetachVolume, Attached
      <4> QED BY <3>2, <4>1
    <3> QED BY <1>16, <3>1, <3>2 DEF DetachVolume
  <2>2. /\ needs' = FALSE /\ failing' = FALSE /\ pc' \in {"off", "next"} /\ todo' \subseteq Containers
        /\ left' \in {left, left \cup {cur}} /\ cur \in Containers
        /\ UNCHANGED <<image, home, test, mgr, opens, mounts, mapper, keyfiles, cur, commands, answer,
                       reports, runs, status, due, busy, crossed>>
    BY <1>16 DEF DetachVolume
  <2> QED BY <2>1, <2>2
<1>17. CASE Finish
  BY <1>17 DEF Finish
<1> QED BY <1>1, <1>2, <1>3, <1>4, <1>5, <1>6, <1>7, <1>8, <1>9, <1>10, <1>11, <1>12, <1>13,
           <1>14, <1>15, <1>16, <1>17 DEF AnalysisStep

LEMMA StepFlow ==
    ASSUME TypeInv, Start \/ AnalysisStep
    PROVE  FlowInv'
<1> USE DEF TypeInv, FlowInv, AnalysisTypeOK, Keeps, Goes, managerVars, marks, CleansUp, OpeningPCs,
            ReadingPCs, LeavingPCs
<1>1. CASE Start
  BY <1>1 DEF Start
<1>2. CASE \E c \in Containers : NextContainer(c)
  BY <1>2 DEF NextContainer, get_container_key
<1>3. CASE CheckImage
  BY <1>3 DEF CheckImage
<1>4. CASE Losetup
  BY <1>4 DEF Losetup, Unlink
<1>5. CASE OpenDevice
  BY <1>5 DEF OpenDevice, Owners
<1>6. CASE MountDevice
  BY <1>6 DEF MountDevice
<1>7. CASE CloseDevice
  BY <1>7 DEF CloseDevice
<1>8. CASE Detach
  BY <1>8 DEF Detach
<1>9. CASE Fallback
  BY <1>9 DEF Fallback
<1>10. CASE ReadHistory
  BY <1>10 DEF ReadHistory, Leaves
<1>11. CASE AskModel
  BY <1>11 DEF AskModel, Leaves
<1>12. CASE SaveReport
  BY <1>12 DEF SaveReport, Leaves
<1>13. CASE SaveJson
  BY <1>13 DEF SaveJson, Leaves
<1>14. CASE UnmountVolume
  BY <1>14 DEF UnmountVolume
<1>15. CASE CloseVolume
  BY <1>15 DEF CloseVolume
<1>16. CASE DetachVolume
  BY <1>16 DEF DetachVolume
<1>17. CASE Finish
  BY <1>17 DEF Finish
<1> QED BY <1>1, <1>2, <1>3, <1>4, <1>5, <1>6, <1>7, <1>8, <1>9, <1>10, <1>11, <1>12, <1>13,
           <1>14, <1>15, <1>16, <1>17 DEF AnalysisStep

LEMMA StutterTypes ==
    ASSUME TypeInv, UNCHANGED vars
    PROVE  TypeInv'
BY DEF TypeInv, FlowInv, AnalysisTypeOK, vars, hostVars, managerVars, progVars, marks

LEMMA TypeStep == TypeInv /\ [Next]_vars => TypeInv'
BY ManagerTypes, StepTypes, StepFlow, StutterTypes DEF Next, TypeInv

--------------------------------------------------------------------------------
(* The key file                                                            *)

KeysInv == keyfiles \subseteq {cur} /\ (pc \notin OpeningPCs => keyfiles = {})

LEMMA KeysStep == KeysInv /\ [Next]_vars => KeysInv'
<1> SUFFICES ASSUME KeysInv, [Next]_vars
             PROVE  KeysInv'
  OBVIOUS
<1> USE DEF KeysInv, OpeningPCs, Keeps, Goes, Unlink, CleansUp
<1>1. CASE Start
  BY <1>1 DEF Start
<1>2. CASE \E c \in Containers : NextContainer(c)
  BY <1>2 DEF NextContainer
<1>3. CASE CheckImage \/ Losetup \/ OpenDevice
  BY <1>3 DEF CheckImage, Losetup, OpenDevice
<1>4. CASE MountDevice \/ CloseDevice \/ Detach \/ Fallback
  BY <1>4 DEF MountDevice, CloseDevice, Detach, Fallback
<1>5. CASE ReadHistory \/ AskModel
  BY <1>5 DEF ReadHistory, AskModel, Leaves
<1>6. CASE SaveReport \/ SaveJson
  BY <1>6 DEF SaveReport, SaveJson, Leaves
<1>7. CASE UnmountVolume \/ CloseVolume \/ DetachVolume \/ Finish
  BY <1>7 DEF UnmountVolume, CloseVolume, DetachVolume, Finish
<1>8. CASE \E c \in Containers : ManagerStep(c)
  BY <1>8 DEF ManagerStep, progVars, ManagerOpens, ManagerMounts, ManagerUnmounts, ManagerCloses
<1>9. CASE UNCHANGED vars
  BY <1>9 DEF vars, hostVars, progVars
<1> QED BY <1>1, <1>2, <1>3, <1>4, <1>5, <1>6, <1>7, <1>8, <1>9 DEF Next, AnalysisStep

--------------------------------------------------------------------------------
(* The reports                                                             *)

Reported(c) == \E i \in DOMAIN reports : reports[i].run = runs /\ reports[i].container = c

(* A failure is remembered until the program has ended, and until one       *)
(* happens only the container in hand may still wait for its report.        *)
DueInv ==
    /\ status = "fail" => pc = "off" \/ (failing /\ pc \in LeavingPCs)
    /\ status # "fail" =>
         \A c \in due : Reported(c) \/ (c = cur /\ pc \in {"ask", "save"})

LEMMA ReportedKept ==
    ASSUME NEW c, Reported(c), UNCHANGED <<reports, runs>>
    PROVE  Reported(c)'
BY DEF Reported

LEMMA ReportAdded ==
    ASSUME TypeInv, cur \in Containers, NEW risk, insert_command_report(risk), UNCHANGED <<runs, cur>>
    PROVE  /\ Reported(cur)'
           /\ \A c : Reported(c) => Reported(c)'
<1> DEFINE new == [run |-> runs, container |-> cur, risk |-> risk]
<1>1. reports' = Append(reports, new)
  BY DEF insert_command_report
<1>2. PICK R : reports \in Seq(R)
  BY DEF TypeInv, AnalysisTypeOK
<1>3. /\ Len(reports') = Len(reports) + 1
      /\ DOMAIN reports' = 1 .. Len(reports) + 1
      /\ reports'[Len(reports) + 1] = new
      /\ \A i \in DOMAIN reports : i \in DOMAIN reports' /\ reports'[i] = reports[i]
  <2> HIDE DEF new
  <2> QED BY <1>1, <1>2
<1>4. Len(reports) + 1 \in DOMAIN reports'
  BY <1>2, <1>3
<1>5. Reported(cur)'
  BY <1>3, <1>4 DEF Reported
<1>6. \A c : Reported(c) => Reported(c)'
  BY <1>3 DEF Reported
<1> QED BY <1>5, <1>6

LEMMA DueStep == TypeInv /\ DueInv /\ [Next]_vars => DueInv'
<1> SUFFICES ASSUME TypeInv, DueInv, [Next]_vars
             PROVE  DueInv'
  OBVIOUS
<1> USE DEF DueInv, LeavingPCs, Keeps, Goes, CleansUp
<1>1. CASE Start
  BY <1>1 DEF Start
<1>2. CASE \E c \in Containers : NextContainer(c)
  BY <1>2, ReportedKept DEF NextContainer, get_container_key
<1>3. CASE CheckImage \/ Losetup \/ OpenDevice
  BY <1>3, ReportedKept DEF CheckImage, Losetup, OpenDevice
<1>4. CASE MountDevice \/ CloseDevice \/ Detach \/ Fallback
  BY <1>4, ReportedKept DEF MountDevice, CloseDevice, Detach, Fallback
<1>5. CASE ReadHistory
  BY <1>5, ReportedKept DEF ReadHistory, Leaves, TypeInv, FlowInv
<1>6. CASE AskModel
  BY <1>6, ReportedKept DEF AskModel, Leaves
<1>7. CASE SaveReport
  <2>1. cur \in Containers
    BY <1>7 DEF SaveReport, TypeInv, FlowInv
  <2>2. CASE failing'
    BY <1>7, <2>2 DEF SaveReport, Leaves
  <2>3. CASE ~failing'
    <3>1. PICK risk : insert_command_report(risk)
      BY <1>7, <2>3 DEF SaveReport
    <3>2. UNCHANGED <<runs, cur, due, status>> /\ pc' = "json" /\ pc = "save"
      BY <1>7, <2>3 DEF SaveReport
    <3>3. Reported(cur)' /\ \A c : Reported(c) => Reported(c)'
      BY <2>1, <3>1, <3>2, ReportAdded
    <3> QED BY <3>2, <3>3
  <2> QED BY <2>2, <2>3
<1>8. CASE SaveJson
  BY <1>8, ReportedKept DEF SaveJson, Leaves
<1>9. CASE UnmountVolume \/ CloseVolume \/ DetachVolume \/ Finish
  BY <1>9, ReportedKept DEF UnmountVolume, CloseVolume, DetachVolume, Finish
<1>10. CASE \E c \in Containers : ManagerStep(c)
  BY <1>10, ReportedKept DEF ManagerStep, progVars
<1>11. CASE UNCHANGED vars
  BY <1>11, ReportedKept DEF vars, progVars
<1> QED BY <1>1, <1>2, <1>3, <1>4, <1>5, <1>6, <1>7, <1>8, <1>9, <1>10, <1>11
        DEF Next, AnalysisStep

--------------------------------------------------------------------------------
(* The prompt                                                              *)

LEMMA Sanitized ==
    ASSUME NEW raw \in Seq(Line)
    PROVE  /\ Len(sanitize_commands(raw).formatted) <= MAX_LINES
           /\ \A k \in DOMAIN sanitize_commands(raw).formatted :
                LET item == sanitize_commands(raw).formatted[k]
                IN  /\ item.number = k
                    /\ IF item.line.text = "filtered"
                       THEN item.line.no = k /\ raw[k].text = "visible"
                       ELSE item.line.text = "plain" /\ item.line.cut /\ item.line.no = raw[k].no
                    /\ sanitize_commands(raw).lines[k] = item.line
<1>1. PICK n \in 0 .. Len(raw) :
          /\ n <= MAX_LINES
          /\ n = IF Len(raw) < MAX_LINES THEN Len(raw) ELSE MAX_LINES
  BY LimitAssumption
<1>2. PICK cut : cut = limit_length(raw)
  OBVIOUS
<1>3. /\ Len(cut) = n /\ DOMAIN cut = 1 .. n
      /\ \A k \in 1 .. n : raw[k] \in Line /\ cut[k] = CutLine(raw[k])
  <2>1. cut = [i \in 1 .. n |-> CutLine(raw[i])]
    BY <1>1, <1>2 DEF limit_length
  <2>2. n \in Nat /\ n <= Len(raw)
    BY <1>1
  <2>3. \A k \in 1 .. n : raw[k] \in Line
    BY <2>2
  <2> QED BY <2>1, <2>2, <2>3
<1>4. \A k \in 1 .. n : /\ cut[k].cut /\ cut[k].no = raw[k].no
                        /\ cut[k].text \in {"plain", "visible"}
                        /\ cut[k].text = "visible" => raw[k].text = "visible"
  <2>1. \A line \in Line : /\ CutLine(line).cut /\ CutLine(line).no = line.no
                           /\ CutLine(line).text \in {"plain", "visible"}
                           /\ CutLine(line).text = "visible" => line.text = "visible"
    BY DEF CutLine, Line
  <2> QED BY <1>3, <2>1
<1>5. PICK lines : lines = filter_injection_patterns(cut)
  OBVIOUS
<1>6. /\ Len(lines) = n /\ DOMAIN lines = 1 .. n
      /\ \A k \in 1 .. n :
            lines[k] = IF cut[k].text = "plain" THEN cut[k]
                       ELSE [text |-> "filtered", no |-> k, cut |-> FALSE]
  BY <1>3, <1>5 DEF filter_injection_patterns
<1>7. PICK formatted : formatted = format_numbered_commands(lines)
  OBVIOUS
<1>8. /\ Len(formatted) = n /\ DOMAIN formatted = 1 .. n
      /\ \A k \in 1 .. n : formatted[k].number = k /\ formatted[k].line = lines[k]
  BY <1>6, <1>7 DEF format_numbered_commands
<1>9. sanitize_commands(raw) = [formatted |-> formatted, lines |-> lines]
  BY <1>2, <1>5, <1>7 DEF sanitize_commands
<1>10. \A k \in 1 .. n : IF lines[k].text = "filtered"
                         THEN lines[k].no = k /\ raw[k].text = "visible"
                         ELSE lines[k].text = "plain" /\ lines[k].cut /\ lines[k].no = raw[k].no
  BY <1>4, <1>6
<1> QED BY <1>1, <1>8, <1>9, <1>10

LEMMA PromptNow == TypeInv => PromptFaithful
BY Sanitized DEF TypeInv, AnalysisTypeOK, PromptFaithful, Prompt

--------------------------------------------------------------------------------
(* What is open on the host                                                *)

Device(c) == <<"analysis", c>> \in mapper

(* Nothing is open, or all that an umount once failed to take down.         *)
Rest(c) == Nothing(c) \/ (c \in busy /\ Everything(c))

(* The loop device alone, and the device on it.                             *)
Loose(c) == ~Device(c) /\ ~InUse("analysis", c) /\ loops[c] = 1
Ready(c) == Device(c) /\ ~InUse("analysis", c) /\ loops[c] = 1

(* Nobody mounts anything on the program's mount.                           *)
OnTop(c) == \A i \in DOMAIN mounts[c] : mounts[c][i] = "analysis" => i = Len(mounts[c])

(* How much of home c is open at each place of the program.                 *)
HostOf(c) ==
    /\ OnTop(c)
    /\ c # cur \/ pc \in {"off", "next", "image", "fallback"} => Rest(c)
    /\ c = cur =>
         /\ pc = "losetup" => Nothing(c)
         /\ pc \in {"open", "detach"} => Loose(c)
         /\ pc \in {"mount", "close"} => Ready(c)
         /\ pc \in ReadingPCs =>
              IF needs THEN Nothing(c) \/ Everything(c) ELSE Rest(c)
         /\ pc = "uclose" => Rest(c) \/ Ready(c)
         /\ pc = "udetach" => Rest(c) \/ Loose(c)

HostInv == \A c \in Containers \ (left \cup crossed) : HostOf(c)

LEMMA ToSetDef == ASSUME NEW s PROVE ToSet(s) = {s[i] : i \in DOMAIN s}
BY DEF ToSet

LEMMA AppendOn ==
    ASSUME NEW S, NEW s \in Seq(S), NEW e \in S
    PROVE  /\ DOMAIN Append(s, e) = 1 .. Len(s) + 1 /\ Len(Append(s, e)) = Len(s) + 1
           /\ \A i \in 1 .. Len(s) : Append(s, e)[i] = s[i]
           /\ Append(s, e)[Len(s) + 1] = e
OBVIOUS

LEMMA FrontOf ==
    ASSUME NEW S, NEW s \in Seq(S), s # << >>
    PROVE  /\ Len(s) \in Nat \ {0} /\ DOMAIN s = 1 .. Len(s)
           /\ DOMAIN Front(s) = 1 .. Len(s) - 1 /\ Len(Front(s)) = Len(s) - 1
           /\ \A i \in 1 .. Len(s) - 1 : Front(s)[i] = s[i]
<1>1. Len(s) \in Nat \ {0} /\ DOMAIN s = 1 .. Len(s)
  OBVIOUS
<1>2. Front(s) = SubSeq(s, 1, Len(s) - 1)
  BY DEF Front
<1> QED BY <1>1, <1>2

(* A mount of the manager's on a home without the program's mount, ...      *)
LEMMA ManagerOn ==
    ASSUME NEW c \in Containers, mounts \in [Containers -> Seq(Owners)], ~InUse("analysis", c),
           mounts' = [mounts EXCEPT ![c] = Append(@, "manager")]
    PROVE  ~InUse("analysis", c)' /\ OnTop(c)'
<1>1. mounts'[c] = Append(mounts[c], "manager") /\ mounts[c] \in Seq(Owners) /\ "manager" \in Owners
  BY DEF Owners
<1>2. \A i \in DOMAIN mounts[c] : mounts[c][i] # "analysis"
  BY ToSetDef DEF InUse
<1>3. \A i \in DOMAIN mounts'[c] : mounts'[c][i] # "analysis"
  BY <1>1, <1>2, AppendOn
<1> QED BY <1>3, ToSetDef DEF InUse, OnTop

(* ... a mount of the program's, ...                                        *)
LEMMA AnalysisOn ==
    ASSUME NEW c \in Containers, mounts \in [Containers -> Seq(Owners)], ~InUse("analysis", c),
           mounts' = [mounts EXCEPT ![c] = Append(@, "analysis")]
    PROVE  InUse("analysis", c)' /\ OnTop(c)'
<1>1. mounts'[c] = Append(mounts[c], "analysis") /\ mounts[c] \in Seq(Owners) /\ "analysis" \in Owners
  BY DEF Owners
<1>2. \A i \in DOMAIN mounts[c] : mounts[c][i] # "analysis"
  BY ToSetDef DEF InUse
<1>3. /\ DOMAIN mounts'[c] = 1 .. Len(mounts[c]) + 1 /\ Len(mounts'[c]) = Len(mounts[c]) + 1
      /\ \A i \in 1 .. Len(mounts[c]) : mounts'[c][i] = mounts[c][i]
      /\ mounts'[c][Len(mounts[c]) + 1] = "analysis" /\ Len(mounts[c]) \in Nat
      /\ DOMAIN mounts[c] = 1 .. Len(mounts[c])
  BY <1>1, AppendOn
<1>4. OnTop(c)'
  BY <1>2, <1>3 DEF OnTop
<1>5. Len(mounts[c]) + 1 \in DOMAIN mounts'[c]
  BY <1>3
<1> QED BY <1>3, <1>4, <1>5, ToSetDef DEF InUse

(* ... and an umount, which takes the program's mount if there is one.      *)
LEMMA TopOff ==
    ASSUME NEW c \in Containers, mounts \in [Containers -> Seq(Owners)], OnTop(c), mounts' = Umounted(c)
    PROVE  ~InUse("analysis", c)' /\ OnTop(c)'
<1>1. CASE mounts[c] = << >>
  BY <1>1, ToSetDef DEF Umounted, InUse, OnTop
<1>2. CASE mounts[c] # << >>
  <2>1. mounts'[c] = Front(mounts[c]) /\ mounts[c] \in Seq(Owners)
    BY <1>2 DEF Umounted
  <2>2. /\ Len(mounts[c]) \in Nat \ {0} /\ DOMAIN mounts[c] = 1 .. Len(mounts[c])
        /\ DOMAIN mounts'[c] = 1 .. Len(mounts[c]) - 1
        /\ \A i \in 1 .. Len(mounts[c]) - 1 : mounts'[c][i] = mounts[c][i]
    BY <1>2, <2>1, FrontOf
  <2>3. \A i \in DOMAIN mounts'[c] : mounts'[c][i] # "analysis"
    BY <2>2 DEF OnTop
  <2> QED BY <2>3, ToSetDef DEF InUse, OnTop
<1> QED BY <1>1, <1>2

LEMMA EmptyUse == ASSUME NEW c, mounts[c] = << >> PROVE ~InUse("analysis", c)
BY ToSetDef DEF InUse

(* What a step leaves alone of home c.                                      *)
LEMMA HostKept ==
    ASSUME NEW c, mounts'[c] = mounts[c], loops'[c] = loops[c], Device(c)' <=> Device(c),
           c \in busy' <=> c \in busy
    PROVE  /\ OnTop(c)' <=> OnTop(c)
           /\ Rest(c)' <=> Rest(c)
           /\ Loose(c)' <=> Loose(c)
           /\ Ready(c)' <=> Ready(c)
           /\ Nothing(c)' <=> Nothing(c)
           /\ Everything(c)' <=> Everything(c)
           /\ InUse("analysis", c)' <=> InUse("analysis", c)
BY DEF OnTop, Rest, Loose, Ready, Nothing, Everything, InUse, Device

LEMMA HostManager ==
    ASSUME TypeInv, HostInv, NEW m \in Containers, ManagerStep(m)
    PROVE  HostInv'
<1>1. SUFFICES ASSUME NEW c \in Containers, c \notin left', c \notin crossed'
               PROVE  HostOf(c)'
  BY DEF HostInv
<1>2. /\ UNCHANGED <<pc, cur, needs, loops, busy, left>> /\ crossed \subseteq crossed'
  BY DEF ManagerStep, progVars, ManagerOpens, ManagerMounts, ManagerUnmounts, ManagerCloses, Crosses
<1>3. HostOf(c) /\ mounts \in [Containers -> Seq(Owners)]
  BY <1>1, <1>2 DEF HostInv, TypeInv, AnalysisTypeOK
<1>4. Device(c)' <=> Device(c)
  BY DEF ManagerStep, ManagerOpens, ManagerMounts, ManagerUnmounts, ManagerCloses, Closed, Device
<1>5. CASE mounts'[c] = mounts[c]
  BY <1>2, <1>3, <1>4, <1>5, HostKept DEF HostOf
<1>6. CASE mounts'[c] # mounts[c]
  <2>1. m = c /\ (ManagerMounts(c) \/ ManagerUnmounts(c))
    BY <1>3, <1>6 DEF ManagerStep, ManagerOpens, ManagerMounts, ManagerUnmounts, ManagerCloses, Umounted
  <2>2. ~InUse("analysis", c)
    BY <1>1, <2>1 DEF ManagerMounts, ManagerUnmounts, Crosses
  <2>3. ~InUse("analysis", c)' /\ OnTop(c)'
    BY <1>3, <2>1, <2>2, ManagerOn, TopOff DEF ManagerMounts, ManagerUnmounts, HostOf
  <2> QED BY <1>2, <1>3, <1>4, <2>2, <2>3 DEF HostOf, Rest, Nothing, Everything, Loose, Ready, Device
<1> QED BY <1>5, <1>6

LEMMA HostStep ==
    ASSUME TypeInv, HostInv, Start \/ AnalysisStep
    PROVE  HostInv'
<1>1. SUFFICES ASSUME NEW c \in Containers, c \notin left', c \notin crossed'
               PROVE  HostOf(c)'
  BY DEF HostInv
<1> USE DEF Keeps, Goes, CleansUp, managerVars, marks, ReadingPCs, LeavingPCs
<1>2. left \subseteq left' /\ UNCHANGED crossed
  BY DEF AnalysisStep, Start, NextContainer, CheckImage, Losetup, OpenDevice, MountDevice, CloseDevice,
         CloseOrLeave, Detach, Fallback, ReadHistory, AskModel, SaveReport, SaveJson, UnmountVolume,
         CloseVolume, DetachVolume, Finish
<1>3. HostOf(c) /\ FlowInv
  BY <1>1, <1>2 DEF HostInv, TypeInv
<1>4. /\ mounts \in [Containers -> Seq(Owners)] /\ loops \in [Containers -> Nat]
      /\ cur \in Containers \cup {NoContainer}
  BY DEF TypeInv, AnalysisTypeOK
<1>5. CASE Start \/ Finish
  <2>1. UNCHANGED <<mounts, mapper, loops, busy, cur, needs>> /\ pc \in {"off", "next"} /\ pc' \in {"off", "next"}
    BY <1>5 DEF Start, Finish
  <2> QED BY <1>3, <2>1, HostKept DEF HostOf, Device
<1>6. CASE \E d \in Containers : NextContainer(d)
  <2>1. /\ UNCHANGED <<mounts, mapper, loops, busy, needs>> /\ pc = "next"
        /\ pc' \in {"image", "next", "off"}
    BY <1>6 DEF NextContainer
  <2> QED BY <1>3, <2>1, HostKept DEF HostOf, Device
<1>7. CASE CheckImage
  <2>1. /\ UNCHANGED <<mounts, mapper, loops, busy, cur>> /\ pc = "image"
        /\ \/ pc' = "fallback"
           \/ pc' = "read" /\ needs' = TRUE
           \/ pc' = "losetup" /\ mounts[cur] = << >>
    BY <1>7 DEF CheckImage
  <2>2. c = cur /\ mounts[cur] = << >> => ~InUse("analysis", c)
    BY EmptyUse
  <2>3. Rest(c) /\ (~InUse("analysis", c) => Nothing(c)) /\ (Nothing(c) \/ Everything(c))
    BY <1>3, <2>1 DEF HostOf, Rest, Everything
  <2> QED BY <1>3, <2>1, <2>2, <2>3, HostKept DEF HostOf, Device
<1>8. CASE Losetup
  <2>1. UNCHANGED <<mounts, mapper, busy, cur, needs>> /\ pc = "losetup" /\ cur \in Containers
    BY <1>3, <1>8 DEF Losetup, FlowInv
  <2>2. CASE UNCHANGED loops
    <3>1. pc' = "fallback"
      BY <1>4, <1>8, <2>1, <2>2 DEF Losetup
    <3> QED BY <1>3, <2>1, <2>2, <3>1, HostKept DEF HostOf, Device, Rest
  <2>3. CASE loops' = [loops EXCEPT ![cur] = @ + 1] /\ pc' = "open"
    <3>1. CASE c = cur
      BY <1>3, <1>4, <2>1, <2>3, <3>1 DEF HostOf, OnTop, InUse, Nothing, Loose, Device
    <3>2. CASE c # cur
      BY <1>3, <1>4, <2>1, <2>3, <3>2, HostKept DEF HostOf, Device
    <3> QED BY <3>1, <3>2
  <2> QED BY <1>8, <2>2, <2>3 DEF Losetup
<1>9. CASE OpenDevice
  <2>1. UNCHANGED <<mounts, loops, busy, cur, needs>> /\ pc = "open"
    BY <1>9 DEF OpenDevice
  <2>2. \/ UNCHANGED mapper /\ pc' = "detach"
        \/ mapper' = mapper \cup {<<"analysis", cur>>} /\ pc' = "mount"
    BY <1>9 DEF OpenDevice
  <2>3. CASE c = cur
    BY <1>3, <2>1, <2>2, <2>3 DEF HostOf, OnTop, InUse, Loose, Ready, Device
  <2>4. CASE c # cur
    <3>1. Device(c)' <=> Device(c)
      BY <2>2, <2>4 DEF Device
    <3> QED BY <1>3, <2>1, <2>4, <3>1, HostKept DEF HostOf
  <2> QED BY <2>3, <2>4
<1>10. CASE MountDevice
  <2>1. UNCHANGED <<mapper, loops, busy, cur>> /\ pc = "mount" /\ cur \in Containers
    BY <1>3, <1>10 DEF MountDevice, FlowInv
  <2>2. CASE UNCHANGED mounts /\ pc' = "close"
    BY <1>3, <2>1, <2>2, HostKept DEF HostOf, Device
  <2>3. CASE mounts' = [mounts EXCEPT ![cur] = Append(@, "analysis")] /\ pc' = "read" /\ needs' = TRUE
    <3>1. CASE c = cur
      <4>1. Ready(c)
        BY <1>3, <2>1, <3>1 DEF HostOf
      <4>2. InUse("analysis", c)' /\ OnTop(c)'
        BY <1>4, <2>3, <3>1, <4>1, AnalysisOn DEF Ready
      <4>3. Everything(c)'
        BY <2>1, <4>1, <4>2 DEF Ready, Everything, Device
      <4> QED BY <2>1, <2>3, <3>1, <4>2, <4>3 DEF HostOf
    <3>2. CASE c # cur
      <4>1. mounts'[c] = mounts[c]
        BY <1>4, <2>1, <2>3, <3>2
      <4> QED BY <1>3, <2>1, <3>2, <4>1, HostKept DEF HostOf, Device
    <3> QED BY <3>1, <3>2
  <2> QED BY <1>10, <2>2, <2>3 DEF MountDevice
<1>11. CASE CloseDevice \/ CloseVolume
  <2>1. /\ UNCHANGED <<mounts, loops, busy, cur, needs>> /\ CloseOrLeave
        /\ \/ pc = "close" /\ pc' = "detach"
           \/ pc = "uclose" /\ pc' = "udetach"
    BY <1>11 DEF CloseDevice, CloseVolume
  <2>2. CASE c = cur
    <3>1. mapper' = Closed("analysis", c)
      BY <1>1, <2>1, <2>2 DEF CloseOrLeave
    <3>2. InUse("analysis", c)' <=> InUse("analysis", c)
      BY <2>1 DEF InUse
    <3>3. Device(c)' <=> Device(c) /\ InUse("analysis", c)
      BY <3>1 DEF Closed, Device
    <3>4. OnTop(c)' <=> OnTop(c)
      BY <2>1 DEF OnTop
    <3> QED BY <1>3, <2>1, <2>2, <3>2, <3>3, <3>4
          DEF HostOf, Rest, Nothing, Everything, Loose, Ready, Device
  <2>3. CASE c # cur
    <3>1. Device(c)' <=> Device(c)
      BY <2>1, <2>3 DEF CloseOrLeave, Closed, Device
    <3> QED BY <1>3, <2>1, <2>3, <3>1, HostKept DEF HostOf
  <2> QED BY <2>2, <2>3
<1>12. CASE Detach
  <2>1. /\ UNCHANGED <<mounts, mapper, busy, cur, needs>> /\ pc = "detach" /\ pc' = "fallback"
        /\ cur \in Containers
    BY <1>3, <1>12 DEF Detach, FlowInv
  <2>2. CASE c = cur
    <3>1. loops' = [loops EXCEPT ![cur] = @ - 1]
      BY <1>1, <1>12, <2>2 DEF Detach
    <3> QED BY <1>3, <1>4, <2>1, <2>2, <3>1 DEF HostOf, OnTop, InUse, Rest, Nothing, Loose, Device
  <2>3. CASE c # cur
    <3>1. loops'[c] = loops[c]
      BY <1>4, <1>12, <2>1, <2>3 DEF Detach
    <3> QED BY <1>3, <2>1, <2>3, <3>1, HostKept DEF HostOf, Device
  <2> QED BY <2>2, <2>3
<1>13. CASE Fallback
  <2>1. /\ UNCHANGED <<mounts, mapper, loops, busy, cur, needs>> /\ pc = "fallback"
        /\ pc' \in {"read", "next"} /\ ~needs
    BY <1>3, <1>13 DEF Fallback, FlowInv
  <2> QED BY <1>3, <2>1, HostKept DEF HostOf, Device
<1>14. CASE ReadHistory \/ AskModel \/ SaveReport \/ SaveJson
  <2>1. /\ UNCHANGED <<mounts, mapper, loops, busy, cur, needs>> /\ pc \in {"read", "ask", "save", "json"}
        /\ pc' \in {"ask", "save", "json", Leaves}
    BY <1>14 DEF ReadHistory, AskModel, SaveReport, SaveJson
  <2>2. needs => pc' \in {"ask", "save", "json", "umount"}
    BY <2>1 DEF Leaves
  <2>3. ~needs => pc' \in {"ask", "save", "json", "off", "next"}
    BY <2>1 DEF Leaves
  <2> QED BY <1>3, <2>1, <2>2, <2>3, HostKept DEF HostOf, Device
<1>15. CASE UnmountVolume
  <2>1. /\ UNCHANGED <<mapper, loops, cur, needs>> /\ pc = "umount" /\ pc' = "uclose" /\ needs
        /\ cur \in Containers
    BY <1>3, <1>15 DEF UnmountVolume, FlowInv
  <2>2. CASE c = cur
    <3>1. Nothing(c) \/ Everything(c)
      BY <1>3, <2>1, <2>2 DEF HostOf
    <3>2. CASE mounts' = Umounted(cur)
      <4>1. ~InUse("analysis", c)' /\ OnTop(c)'
        BY <1>3, <1>4, <2>2, <3>2, TopOff DEF HostOf
      <4> QED BY <2>1, <2>2, <3>1, <4>1 DEF HostOf, Rest, Nothing, Everything, Ready, Device
    <3>3. CASE UNCHANGED mounts /\ busy' = busy \cup {cur}
      BY <1>3, <2>1, <2>2, <3>1, <3>3 DEF HostOf, OnTop, InUse, Rest, Nothing, Everything
    <3> QED BY <1>15, <3>2, <3>3 DEF UnmountVolume
  <2>3. CASE c # cur
    <3>1. mounts'[c] = mounts[c] /\ (c \in busy' <=> c \in busy)
      BY <1>4, <1>15, <2>1, <2>3 DEF UnmountVolume, Umounted
    <3> QED BY <1>3, <2>1, <2>3, <3>1, HostKept DEF HostOf, Device
  <2> QED BY <2>2, <2>3
<1>16. CASE DetachVolume
  <2>1. /\ UNCHANGED <<mounts, mapper, busy, cur>> /\ pc = "udetach" /\ pc' \in {"off", "next"}
        /\ cur \in Containers
    BY <1>3, <1>16 DEF DetachVolume, FlowInv
  <2>2. CASE c = cur
    <3>1. CASE Attached(c)
      <4>1. loops' = [loops EXCEPT ![cur] = @ - 1]
        BY <1>1, <1>16, <2>2, <3>1 DEF DetachVolume
      <4>2. Loose(c)
        BY <1>3, <2>1, <2>2, <3>1 DEF HostOf, Rest, Nothing, Everything, Attached
      <4>3. Nothing(c)'
        BY <1>4, <2>1, <2>2, <4>1, <4>2 DEF Loose, Nothing, InUse, Device
      <4> QED BY <1>3, <2>1, <4>3 DEF HostOf, OnTop, Rest
    <3>2. CASE ~Attached(c)
      <4>1. UNCHANGED loops
        BY <1>16, <2>2, <3>2 DEF DetachVolume
      <4>2. Rest(c)
        BY <1>3, <2>1, <2>2, <3>2 DEF HostOf, Loose, Attached, Device
      <4> QED BY <1>3, <2>1, <4>1, <4>2, HostKept DEF HostOf, Device
    <3> QED BY <3>1, <3>2
  <2>3. CASE c # cur
    <3>1. loops'[c] = loops[c]
      BY <1>4, <1>16, <2>1, <2>3 DEF DetachVolume
    <3> QED BY <1>3, <2>1, <2>3, <3>1, HostKept DEF HostOf, Device
  <2> QED BY <2>2, <2>3
<1> QED BY <1>5, <1>6, <1>7, <1>8, <1>9, <1>10, <1>11, <1>12, <1>13, <1>14, <1>15, <1>16
        DEF AnalysisStep

LEMMA HostStutter ==
    ASSUME HostInv, UNCHANGED vars
    PROVE  HostInv'
BY DEF HostInv, HostOf, OnTop, InUse, Rest, Nothing, Everything, Loose, Ready, Device, vars, hostVars,
       managerVars, progVars, marks

--------------------------------------------------------------------------------
(* The theorems                                                            *)

AnalysisInv == TypeInv /\ KeysInv /\ DueInv /\ HostInv

LEMMA AnalysisInvInit == Init => AnalysisInv
<1> SUFFICES ASSUME Init
             PROVE  AnalysisInv
  OBVIOUS
<1>1. KeysInv /\ DueInv
  BY DEF Init, KeysInv, DueInv
<1>2. ASSUME NEW c \in Containers
      PROVE  HostOf(c)
  <2>1. mounts[c] = << >> /\ loops[c] = 0 /\ ~Device(c) /\ pc = "off"
    BY <1>2 DEF Init, Device
  <2> QED BY <2>1, EmptyUse DEF HostOf, OnTop, Rest, Nothing, Device, ReadingPCs
<1> QED BY <1>1, <1>2, InitTypes DEF AnalysisInv, HostInv

LEMMA AnalysisInvStep == AnalysisInv /\ [Next]_vars => AnalysisInv'
BY TypeStep, KeysStep, DueStep, HostManager, HostStep, HostStutter DEF AnalysisInv, Next

(* Every reachable state is well typed: in particular a loop device is      *)
(* never detached that was not attached.                                    *)
THEOREM AnalysisTypeCorrect == Spec => []AnalysisTypeOK
<1>1. AnalysisInv => AnalysisTypeOK
  BY DEF AnalysisInv, TypeInv
<1> QED BY <1>1, AnalysisInvInit, AnalysisInvStep, PTL DEF Spec

(* The finally clause of mount_volume removes the container's key from the  *)
(* disk on every way out, whichever command fails.                          *)
THEOREM KeyFileGoneCorrect == Spec => []KeyFileGone
<1>1. AnalysisInv => KeyFileGone
  BY DEF AnalysisInv, KeysInv, KeyFileGone, OpeningPCs
<1> QED BY <1>1, AnalysisInvInit, AnalysisInvStep, PTL DEF Spec

(* Every command of an opening and the last umount may fail, and the        *)
(* manager may open and close its homes at any time: unless a close or a    *)
(* losetup -d came to nothing at a home, or the manager mounted or          *)
(* unmounted over the program's mount there, the program that has ended     *)
(* has nothing open on it, or all of it, to be found by the next run.       *)
THEOREM LeavesNoTraceCorrect == Spec => []LeavesNoTrace
<1>1. AnalysisInv => LeavesNoTrace
  BY DEF AnalysisInv, HostInv, HostOf, Rest, LeavesNoTrace
<1> QED BY <1>1, AnalysisInvInit, AnalysisInvStep, PTL DEF Spec

(* A run that ends well has a report on every history it found.             *)
THEOREM AllReportedCorrect == Spec => []AllReported
<1>1. AnalysisInv => AllReported
  BY DEF AnalysisInv, DueInv, AllReported, Reported
<1> QED BY <1>1, AnalysisInvInit, AnalysisInvStep, PTL DEF Spec

(* For every limit and every history, what the model is asked about is the  *)
(* history's beginning without the lines that match a pattern, numbered as  *)
(* the report numbers it.                                                   *)
THEOREM PromptFaithfulCorrect == Spec => []PromptFaithful
<1>1. AnalysisInv => PromptFaithful
  BY PromptNow DEF AnalysisInv
<1> QED BY <1>1, AnalysisInvInit, AnalysisInvStep, PTL DEF Spec
================================================================================
