------------------------------- MODULE MCNode -------------------------------
(***************************************************************************)
(* One run over three parts of a node that share no state: the replay      *)
(* defence, the admission queue and the audit export.  The initial state   *)
(* chooses the part that runs; the others stay where they start.           *)
(***************************************************************************)
EXTENDS PeerReplay, Admission, AuditExport, TLC

VARIABLE focus

nodeVars == <<focus, replayVars, admissionVars, exportVars>>

NodeUse ==
    "w1" :> "write" @@ "w2" :> "write" @@ "o" :> "observe" @@
    "f1" :> "fence" @@ "f2" :> "fence" @@ "c" :> "close"

NodeRestartId == "f1" :> "r1" @@ "f2" :> "r2"

OnReplay(A) == focus = "replay" /\ A /\ UNCHANGED <<focus, admissionVars, exportVars>>
OnAdmission(A) == focus = "admission" /\ A /\ UNCHANGED <<focus, replayVars, exportVars>>
OnExport(A) == focus = "export" /\ A /\ UNCHANGED <<focus, replayVars, admissionVars>>

NodeInit ==
    /\ focus \in {"replay", "admission", "export"}
    /\ ReplayInit /\ AdmissionInit /\ ExportInit
    /\ focus # "replay" => wallClock = 0 /\ replayStore = "core"

NodeNext ==
    \/ OnReplay(ReplayNext) \/ OnAdmission(AdmissionNext) \/ OnExport(ExportNext)

\* The fairness of each part, asked for only where the part runs.
NodeSpec ==
    /\ NodeInit /\ [][NodeNext]_nodeVars
    /\ \A t \in Threads : WF_nodeVars(OnAdmission(Work(t)))
    /\ WF_nodeVars(OnExport(Exporter)) /\ WF_nodeVars(OnExport(SinkAnswers))
    /\ WF_nodeVars(OnExport(SinkAnswersLate))
    /\ WF_nodeVars(OnExport(wedged /\ TimeOut))
============================================================================
