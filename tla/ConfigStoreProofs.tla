-------------------------- MODULE ConfigStoreProofs --------------------------
(***************************************************************************)
(* What TLAPS proves of ConfigStore: the file that any number of unlocked  *)
(* savers leaves behind is never the empty one.                            *)
(***************************************************************************)
EXTENDS ConfigStore, TLAPS

USE WritersAssumption, ValuesAssumption, FileAssumption, BoundsAssumption DEF PcValues

\* A structure whose members all hold the same value.
LEMMA ConstIsConfig ==
    ASSUME NEW v \in AnyValue
    PROVE  Const(v) \in Configs
  BY DEF Const, Configs

LEMMA LoadIsConfig ==
    ASSUME NEW f \in Configs \cup {NoFile, Empty}
    PROVE  LoadOf(f) \in Configs
<1>1. CASE f \in {NoFile, Empty}
  <2>1. Blank \in AnyValue  BY DEF AnyValue
  <2>2. Const(Blank) \in Configs  BY <2>1, ConstIsConfig
  <2> QED  BY <1>1, <2>2 DEF LoadOf
<1>2. CASE f \notin {NoFile, Empty}
  BY <1>2 DEF LoadOf
<1> QED  BY <1>1, <1>2

\* Assign keeps the two structures it changes well typed.
LEMMA AssignType ==
    ASSUME TypeOK, NEW s \in SUBSET Members, NEW v \in AnyValue, Assign(s, v)
    PROVE  /\ g_conf_info' \in Configs
           /\ acked' \in [Members -> AnyValue \cup {None}]
  BY DEF Assign, TypeOK, Configs

LEMMA SetsAreMembers ==
    /\ \A s \in WebSets \cup ClientSets : s \in SUBSET Members
    /\ ReconfigSet \in SUBSET Members
  BY DEF WebSets, ClientSets, ReconfigSet, Members

LEMMA InitType == Init => ConfInv
<1> SUFFICES ASSUME Init PROVE ConfInv  OBVIOUS
<1>1. Const(Blank) \in Configs /\ Const(Default) \in Configs
  BY ConstIsConfig DEF AnyValue
<1>2. NoOp \in Ops
  BY DEF NoOp, Ops
<1>3. TypeOK
  BY <1>1, <1>2 DEF Init, TypeOK, Const, AnyValue
<1>4. EmptyWhileSaving
  BY <1>1 DEF Init, EmptyWhileSaving
<1> QED  BY <1>3, <1>4 DEF ConfInv

LEMMA TypeStep == TypeOK /\ [Next]_vars => TypeOK'
<1> SUFFICES ASSUME TypeOK, [Next]_vars PROVE TypeOK'  OBVIOUS
<1> USE DEF TypeOK
<1>1. CASE MakeDefault
  <2>1. Const(Default) \in Configs  BY ConstIsConfig DEF AnyValue
  <2> QED  BY <1>1, <2>1 DEF MakeDefault, Goto
<1>2. CASE Load
  <2>1. LoadOf(file) \in Configs  BY LoadIsConfig
  <2> QED  BY <1>2, <2>1 DEF Load, Goto
<1>3. CASE ReadMac
  <2>1. g_conf_info' \in Configs  BY <1>3 DEF ReadMac, Configs, AnyValue
  <2> QED  BY <1>3, <2>1 DEF ReadMac, Goto
<1>4. CASE GpioQuery
  <2>1. g_conf_info' \in Configs  BY <1>4 DEF GpioQuery, Configs, AnyValue
  <2>2. acked' \in [Members -> AnyValue \cup {None}]  BY <1>4 DEF GpioQuery
  <2> QED  BY <1>4, <2>1, <2>2 DEF GpioQuery
<1>5. CASE ReportCopy
  <2>1. PICK v \in Values, sn \in {{}, {"con_sys"}} :
          /\ Assign({"con_net", "dev_mac", "con_server"}, v)
          /\ con_sys' = IF sn = {} THEN g_conf_info["con_sys"] ELSE v
          /\ op' = [op EXCEPT !["report"] =
                      [set |-> {"con_net", "dev_mac", "con_server"} \cup sn, val |-> v]]
    BY <1>5 DEF ReportCopy
  <2>2. {"con_net", "dev_mac", "con_server"} \in SUBSET Members  BY DEF Members
  <2>3. v \in AnyValue  BY DEF AnyValue
  <2>4. g_conf_info' \in Configs /\ acked' \in [Members -> AnyValue \cup {None}]
    BY <2>1, <2>2, <2>3, AssignType
  <2>5. con_sys' \in AnyValue
    BY <2>1, <2>3 DEF Configs, Members
  <2>6. {"con_net", "dev_mac", "con_server"} \cup sn \in SUBSET Members  BY DEF Members
  <2>7. op' \in [Writers -> Ops]
    BY <2>1, <2>6 DEF Ops
  <2> QED  BY <1>5, <2>4, <2>5, <2>7 DEF ReportCopy, Request, Goto
<1>6. CASE ReportSys
  <2>1. g_conf_info' \in Configs  BY <1>6 DEF ReportSys, Configs
  <2>2. acked' \in [Members -> AnyValue \cup {None}]  BY <1>6 DEF ReportSys
  <2> QED  BY <1>6, <2>1, <2>2 DEF ReportSys, Goto
<1>7. ASSUME NEW t \in Writers, NextPart(t) PROVE TypeOK'
  <2>1. PICK v \in Values : /\ Assign(op[t].set, v)
                            /\ op' = [op EXCEPT ![t].val = v]
    BY <1>7 DEF NextPart
  <2>2. op[t] \in Ops  OBVIOUS
  <2>3. op[t].set \in SUBSET Members  BY <2>2 DEF Ops
  <2>4. g_conf_info' \in Configs /\ acked' \in [Members -> AnyValue \cup {None}]
    BY <2>1, <2>3, AssignType DEF AnyValue
  <2>5. op' \in [Writers -> Ops]
    BY <2>1, <2>2 DEF Ops
  <2> QED  BY <1>7, <2>4, <2>5 DEF NextPart, Request, Goto
<1>8. CASE UartFail
  BY <1>8 DEF UartFail, Goto
<1>9. CASE Reboot
  <2>1. Const(Blank) \in Configs /\ Blank \in AnyValue  BY ConstIsConfig DEF AnyValue
  <2>2. NoOp \in Ops  BY DEF NoOp, Ops
  <2>3. torn' \in {"yes", "no"}  BY <1>9 DEF Reboot
  <2> QED  BY <1>9, <2>1, <2>2, <2>3 DEF Reboot
<1>10. ASSUME NEW t \in Writers, Set(t) PROVE TypeOK'
  <2>1. PICK s \in WebSets \cup ClientSets, v \in Values :
          /\ Assign(s, v)
          /\ op' = [op EXCEPT ![t] = [set |-> s, val |-> v]]
    BY <1>10 DEF Set
  <2>2. s \in SUBSET Members  BY SetsAreMembers
  <2>3. g_conf_info' \in Configs /\ acked' \in [Members -> AnyValue \cup {None}]
    BY <2>1, <2>2, AssignType DEF AnyValue
  <2>4. op' \in [Writers -> Ops]  BY <2>1, <2>2 DEF Ops
  <2> QED  BY <1>10, <2>3, <2>4 DEF Set, Request, Goto
<1>11. ASSUME NEW t \in Writers, Reconfig(t) PROVE TypeOK'
  <2>1. g_conf_info' \in Configs /\ acked' \in [Members -> AnyValue \cup {None}]
    BY <1>11, SetsAreMembers, AssignType DEF Reconfig, AnyValue
  <2>2. op' \in [Writers -> Ops]  BY <1>11, SetsAreMembers DEF Reconfig, Ops
  <2> QED  BY <1>11, <2>1, <2>2 DEF Reconfig, Request, Goto
<1>12. ASSUME NEW t \in Writers, SaveStep(t) PROVE TypeOK'
  <2>1. CASE Open(t)  BY <2>1 DEF Open, Goto
  <2>2. CASE OpenFails(t)  BY <2>2 DEF OpenFails, Goto
  <2>3. CASE Write(t)  BY <2>3 DEF Write, Goto
  <2>4. CASE Close(t)  BY <2>4 DEF Close, Goto
  <2>5. CASE Saved(t)
    <3>1. op[t] \in Ops  OBVIOUS
    <3>2. acked' \in [Members -> AnyValue \cup {None}]
      BY <2>5, <3>1 DEF Saved, Ops, AnyValue
    <3>3. pc' \in [Writers -> PcValues]
      BY <2>5 DEF Saved, Goto
    <3> QED  BY <2>5, <3>2, <3>3 DEF Saved
  <2> QED  BY <1>12, <2>1, <2>2, <2>3, <2>4, <2>5 DEF SaveStep
<1>13. CASE KeyDown \/ KeyUp
  BY <1>13 DEF KeyDown, KeyUp, Goto
<1>14. CASE UNCHANGED vars
  BY <1>14 DEF vars
<1> QED
  BY <1>1, <1>2, <1>3, <1>4, <1>5, <1>6, <1>7, <1>8, <1>9, <1>10, <1>11, <1>12, <1>13,
     <1>14 DEF Next

\* Only Open empties the file, and it takes its thread into config_save; only
\* Close and Reboot take a thread out.
LEMMA SaveStepInv == ConfInv /\ [Next]_vars => EmptyWhileSaving'
<1> SUFFICES ASSUME ConfInv, [Next]_vars PROVE EmptyWhileSaving'  OBVIOUS
<1> USE DEF ConfInv, EmptyWhileSaving, Saving
<1>a. TypeOK  OBVIOUS
<1>b. pc \in [Writers -> PcValues]
  BY <1>a DEF TypeOK
<1>1. CASE MakeDefault
  BY <1>1, <1>b DEF MakeDefault, Goto
<1>2. CASE Load
  BY <1>2, <1>b DEF Load, Goto
<1>3. CASE ReadMac
  BY <1>3, <1>b DEF ReadMac, Goto
<1>4. CASE GpioQuery
  BY <1>4 DEF GpioQuery
<1>5. CASE ReportCopy
  BY <1>5, <1>b DEF ReportCopy, Goto, Request
<1>6. CASE ReportSys
  BY <1>6, <1>b DEF ReportSys, Goto
<1>7. ASSUME NEW t \in Writers, NextPart(t) PROVE EmptyWhileSaving'
  BY <1>7, <1>b DEF NextPart, PartSaved, Request, Goto
<1>8. CASE UartFail
  BY <1>8, <1>b DEF UartFail, PartSaved, Goto
<1>9. CASE Reboot
  BY <1>9 DEF Reboot
<1>10. ASSUME NEW t \in Writers, Set(t) PROVE EmptyWhileSaving'
  BY <1>10, <1>b DEF Set, Request, Goto
<1>11. ASSUME NEW t \in Writers, Reconfig(t) PROVE EmptyWhileSaving'
  BY <1>11, <1>b DEF Reconfig, Request, Goto
<1>12. ASSUME NEW t \in Writers, SaveStep(t) PROVE EmptyWhileSaving'
  <2>1. CASE Open(t)  BY <2>1, <1>b DEF Open, Goto
  <2>2. CASE OpenFails(t)  BY <2>2, <1>b DEF OpenFails, Goto
  <2>3. CASE Write(t)  BY <2>3, <1>b DEF Write, Goto
  <2>4. CASE Close(t)
    <3>1. buffer[t] \in Configs  BY <1>a DEF TypeOK
    <3>2. file' # Empty  BY <2>4, <3>1 DEF Close
    <3> QED  BY <3>2
  <2>5. CASE Saved(t)
    <3>1. file' = file /\ torn' = torn  BY <2>5 DEF Saved
    <3>2. \E l : Goto(t, l) /\ pc[t] = "saved"  BY <2>5 DEF Saved
    <3> QED  BY <3>1, <3>2, <1>b DEF Goto
  <2> QED  BY <1>12, <2>1, <2>2, <2>3, <2>4, <2>5 DEF SaveStep
<1>13. CASE KeyDown \/ KeyUp
  BY <1>13, <1>b DEF KeyDown, KeyUp, Goto
<1>14. CASE UNCHANGED vars
  BY <1>14 DEF vars
<1> QED
  BY <1>1, <1>2, <1>3, <1>4, <1>5, <1>6, <1>7, <1>8, <1>9, <1>10, <1>11, <1>12, <1>13,
     <1>14 DEF Next

\* The inductive invariant holds in every state, for every set of writers.
THEOREM ConfInvariant == Spec => []ConfInv
<1>1. ConfInv /\ [Next]_vars => ConfInv'
  BY TypeStep, SaveStepInv DEF ConfInv
<1> QED  BY InitType, <1>1, PTL DEF Spec

\* Any number of threads in config_save at once, opens that fail and reboots
\* between saves never leave the empty file of fopen behind.
THEOREM FileIsWhole == Spec => []FileWholeAtRest
<1>1. ConfInv => FileWholeAtRest
  BY DEF ConfInv, EmptyWhileSaving, FileWholeAtRest, AtRest, Saving
<1> QED  BY ConfInvariant, <1>1, PTL

-----------------------------------------------------------------------------
(* The web thread as the only writer *)

LEMMA WholeFileLoads ==
    ASSUME NEW f \in Configs
    PROVE  LoadOf(f) = f
  BY DEF LoadOf

\* With one writer these are the steps there are.
LEMMA SoleSteps ==
    ASSUME Writers = {"web"}, Next
    PROVE  \/ MakeDefault \/ Load \/ ReadMac \/ GpioQuery \/ Reboot
           \/ Set("web") \/ NextPart("web") \/ Reconfig("web") \/ SaveStep("web")
  BY DEF Next, ReportCopy, ReportSys, UartFail, KeyDown, KeyUp

LEMMA AckValuesStep ==
    ASSUME Writers = {"web"}, SoleInv, [Next]_vars
    PROVE  acked' \in [Members -> Values \cup {None}]
<1> USE DEF SoleInv
<1>1. CASE MakeDefault \/ Load \/ ReadMac \/ Reboot
  BY <1>1 DEF MakeDefault, Load, ReadMac, Reboot
<1>2. CASE GpioQuery
  BY <1>2 DEF GpioQuery
<1>3. CASE Set("web") \/ NextPart("web") \/ Reconfig("web")
  BY <1>3 DEF Set, NextPart, PartSaved, Reconfig, Assign
<1>4. CASE SaveStep("web")
  <2>1. CASE Saved("web")
    <3>1. op["web"].val \in Values \cup {Default}
      BY WritersAssumption DEF TypeOK, Ops
    <3>2. acked' = acked \/ op["web"].val # Default
      BY <2>1 DEF Saved
    <3> QED  BY <2>1, <3>1, <3>2 DEF Saved
  <2> QED  BY <1>4, <2>1 DEF SaveStep, Open, OpenFails, Write, Close
<1>5. CASE UNCHANGED vars
  BY <1>5 DEF vars
<1> QED  BY <1>1, <1>2, <1>3, <1>4, <1>5, SoleSteps

LEMMA FileSoleStep ==
    ASSUME Writers = {"web"}, SoleInv, [Next]_vars
    PROVE  FileSole'
<1> USE DEF FileSole
<1>a. TypeOK /\ FileSole  BY DEF SoleInv
<1>b. pc \in [Writers -> PcValues]
  BY <1>a DEF TypeOK
<1>1. CASE MakeDefault
  BY <1>1, <1>b DEF MakeDefault, Goto
<1>2. CASE Load
  BY <1>2, <1>b DEF Load, Goto
<1>3. CASE ReadMac
  <2>1. \A m \in Kept : g_conf_info'[m] = g_conf_info[m]
    BY <1>3, <1>a DEF ReadMac, Kept, TypeOK, Configs
  <2> QED  BY <1>3, <1>a, <1>b, <2>1 DEF ReadMac, Goto
<1>4. CASE GpioQuery
  <2>1. \A m \in Kept : g_conf_info'[m] = g_conf_info[m]
    BY <1>4, <1>a DEF GpioQuery, Kept, TypeOK, Configs
  <2> QED  BY <1>4, <1>a, <1>b, <2>1 DEF GpioQuery
<1>5. CASE Reboot
  BY <1>5 DEF Reboot
<1>6. CASE Set("web") \/ NextPart("web") \/ Reconfig("web")
  BY <1>6, <1>b DEF Set, NextPart, PartSaved, Reconfig, Request, Goto
<1>7. CASE Open("web")
  BY <1>7, <1>b DEF Open, Goto
<1>8. CASE OpenFails("web")
  BY <1>8 DEF OpenFails
<1>9. CASE Write("web")
  <2>1. buffer'["web"] = g_conf_info  BY <1>9, <1>a DEF Write, TypeOK
  <2> QED  BY <1>9, <1>b, <2>1 DEF Write, Goto
<1>10. CASE Close("web")
  <2>1. buffer["web"] \in Configs  BY <1>a DEF TypeOK
  <2>2. LoadOf(file') = buffer["web"]  BY <1>10, <2>1, WholeFileLoads DEF Close
  <2>3. LoadOf(file)' = LoadOf(file')  BY DEF LoadOf, Const
  <2> QED  BY <1>10, <1>a, <1>b, <2>2, <2>3 DEF Close, Goto
<1>11. CASE Saved("web")
  <2>1. /\ pc["web"] = "saved"
        /\ UNCHANGED <<g_conf_info, file, missed>>
        /\ pc'["web"] \in {"mac", "idle", "reboot"}
    BY <1>11, <1>b DEF Saved, Goto
  <2>2. missed = "no" => LoadOf(file) = g_conf_info  BY <1>a, <2>1
  <2> QED  BY <2>1, <2>2
<1>12. CASE UNCHANGED vars
  BY <1>12, <1>a DEF vars
<1> QED
  BY <1>1, <1>2, <1>3, <1>4, <1>5, <1>6, <1>7, <1>8, <1>9, <1>10, <1>11, <1>12,
     SoleSteps DEF SaveStep

LEMMA AckSoleStep ==
    ASSUME Writers = {"web"}, SoleInv, [Next]_vars
    PROVE  AckSole'
<1> USE DEF AckSole, AckedInFile
<1>a. TypeOK /\ FileSole /\ AckSole /\ acked \in [Members -> Values \cup {None}]
  BY DEF SoleInv
<1>b. pc \in [Writers -> PcValues]
  BY <1>a DEF TypeOK
<1>1. CASE MakeDefault
  <2>1. missed = "no" /\ torn = "no" => \A m \in Members : acked[m] = None
    <3>1. pc["web"] \notin Saving  BY <1>1 DEF MakeDefault, Saving
    <3>2. \A m \in Members : LoadOf(file)[m] = Blank
      BY <1>1 DEF MakeDefault, LoadOf, Const
    <3> QED  BY <1>a, <3>1, <3>2
  <2> QED  BY <1>1, <2>1, <1>b DEF MakeDefault, Goto
<1>2. CASE Load
  BY <1>2, <1>a, <1>b DEF Load, Goto, Saving
<1>3. CASE ReadMac
  <2>1. /\ UNCHANGED <<file, acked, torn, missed>>
        /\ pc["web"] = "mac" /\ pc'["web"] = "idle"
    BY <1>3, <1>b DEF ReadMac, Goto
  <2>2. ASSUME NEW m \in Members, g_conf_info[m] # Blank
        PROVE  g_conf_info'[m] = g_conf_info[m]
    BY <1>3, <1>a, <2>2 DEF ReadMac, TypeOK, Configs
  <2>3. \A m \in Members : acked[m] # Blank  BY <1>a
  <2> QED  BY <1>a, <2>1, <2>2, <2>3 DEF Saving
<1>4. CASE GpioQuery
  <2>1. /\ UNCHANGED <<file, pc, torn, missed>>
        /\ pc["web"] = "idle"
        /\ acked'["con_gpio"] = None
    BY <1>4, <1>a DEF GpioQuery, TypeOK, Members
  <2>2. \A m \in Members \ {"con_gpio"} :
          g_conf_info'[m] = g_conf_info[m] /\ acked'[m] = acked[m]
    BY <1>4, <1>a DEF GpioQuery, TypeOK, Configs
  <2> QED  BY <1>a, <2>1, <2>2
<1>5. CASE Reboot
  <2>1. torn' = "no" => torn = "no" /\ pc["web"] \notin Saving
    BY <1>5 DEF Reboot
  <2>2. pc'["web"] = "boot" /\ UNCHANGED <<file, acked, missed>>
    BY <1>5 DEF Reboot
  <2> QED  BY <1>a, <2>1, <2>2
<1>6. CASE Set("web") \/ NextPart("web") \/ Reconfig("web")
  <2>1. PICK s, v : Assign(s, v)  BY <1>6 DEF Set, NextPart, Reconfig
  <2>2. /\ UNCHANGED <<file, torn, missed>>
        /\ pc["web"] \in {"idle", "saved"} /\ pc'["web"] = "open"
    BY <1>6, <1>b DEF Set, NextPart, PartSaved, Reconfig, Request, Goto
  <2>3. \A m \in Members : acked'[m] # None =>
          acked'[m] = acked[m] /\ g_conf_info'[m] = g_conf_info[m]
    BY <2>1 DEF Assign
  <2> QED  BY <1>a, <2>2, <2>3 DEF Saving
<1>7. CASE Open("web")
  <2>1. pc'["web"] \in Saving  BY <1>7, <1>b DEF Open, Goto, Saving
  <2>2. pc["web"] = "open" /\ UNCHANGED <<g_conf_info, acked, torn, missed>>
    BY <1>7 DEF Open
  <2> QED  BY <1>a, <2>1, <2>2
<1>8. CASE OpenFails("web")
  BY <1>8 DEF OpenFails
<1>9. CASE Write("web")
  <2>1. /\ pc'["web"] \in Saving /\ pc["web"] = "write"
        /\ UNCHANGED <<g_conf_info, acked, torn, missed>>
    BY <1>9, <1>b DEF Write, Goto, Saving
  <2> QED  BY <1>a, <2>1
<1>10. CASE Close("web")
  <2>1. buffer["web"] \in Configs  BY <1>a DEF TypeOK
  <2>2. LoadOf(file') = buffer["web"]  BY <1>10, <2>1, WholeFileLoads DEF Close
  <2>3. LoadOf(file)' = LoadOf(file')  BY DEF LoadOf, Const
  <2>4. pc["web"] = "close" /\ UNCHANGED <<g_conf_info, acked, torn, missed>>
    BY <1>10 DEF Close
  <2>5. missed = "no" => buffer["web"] = g_conf_info  BY <1>a, <2>4 DEF FileSole
  <2> QED  BY <1>a, <2>2, <2>3, <2>4, <2>5
<1>11. CASE Saved("web")
  <2>1. /\ pc["web"] = "saved"
        /\ UNCHANGED <<g_conf_info, file, torn, missed>>
    BY <1>11 DEF Saved
  <2>2. missed = "no" => LoadOf(file) = g_conf_info  BY <1>a, <2>1 DEF FileSole
  <2>3. \A m \in Members : acked'[m] = acked[m] \/ acked'[m] = g_conf_info[m]
    BY <1>11 DEF Saved
  <2> QED  BY <1>a, <2>1, <2>2, <2>3 DEF Saving
<1>12. CASE UNCHANGED vars
  BY <1>12, <1>a DEF vars
<1> QED
  BY <1>1, <1>2, <1>3, <1>4, <1>5, <1>6, <1>7, <1>8, <1>9, <1>10, <1>11, <1>12,
     SoleSteps DEF SaveStep

\* The inductive invariant of the single writer.
THEOREM SoleInvariant ==
    ASSUME Writers = {"web"}
    PROVE  Spec => []SoleInv
<1>1. Init => SoleInv
  <2> SUFFICES ASSUME Init PROVE SoleInv  OBVIOUS
  <2>1. TypeOK  BY InitType DEF ConfInv
  <2>2. acked \in [Members -> Values \cup {None}] /\ \A m \in Members : acked[m] = None
    BY DEF Init, Const
  <2>3. pc["web"] = "boot"  BY DEF Init
  <2> QED  BY <2>1, <2>2, <2>3 DEF SoleInv, FileSole, AckSole, AckedInFile
<1>2. SoleInv /\ [Next]_vars => SoleInv'
  BY TypeStep, AckValuesStep, FileSoleStep, AckSoleStep DEF SoleInv
<1> QED  BY <1>1, <1>2, PTL DEF Spec

\* With one writer the file follows memory through any sequence of requests,
\* failed opens apart, and reboots at any moment.
THEOREM FileFollowsMemory ==
    ASSUME Writers = {"web"}
    PROVE  Spec => []FileTracksMemory
<1>1. SoleInv => FileTracksMemory
  BY DEF SoleInv, FileSole, FileTracksMemory, AtRest
<1> QED  BY SoleInvariant, <1>1, PTL

\* With one writer, what was acknowledged survives every reboot that does not
\* cut a config_save off.
THEOREM AcknowledgedSurvives ==
    ASSUME Writers = {"web"}
    PROVE  Spec => []StillAvailable
<1>1. SoleInv => StillAvailable
  BY DEF SoleInv, AckSole, StillAvailable, AtRest, Saving
<1> QED  BY SoleInvariant, <1>1, PTL
=============================================================================
