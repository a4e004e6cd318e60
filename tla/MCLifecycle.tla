---------------------------- MODULE MCLifecycle ----------------------------
(***************************************************************************)
(* One run over three parts of a node's life that share no state here:     *)
(* recovery bundles, the schema migration and the observation of a running *)
(* node.  The initial state chooses the part that runs; the others stay    *)
(* where they start.                                                       *)
(***************************************************************************)
EXTENDS Recovery, Migration, Observation

VARIABLE focus

lifecycleVars == <<focus, recoveryVars, migrationVars, observationVars>>

\* A node at work, and one that is drained.
RecoveryStarts == {<<"work">>, <<"drain">>}

\* Every schema that has a migration, under an anchor and without one.
MigrationSites ==
    {[source |-> 1, row |-> "none", anchored |-> a] : a \in BOOLEAN} \cup
    {[source |-> 2, row |-> r, anchored |-> a] :
        r \in {"pristine", "active", "drained"}, a \in BOOLEAN}

\* Changing health and time over a short log; a longer log whose rows decay.
ObservationPlans ==
    {[health |-> TRUE, events |-> 2, decays |-> 0, failures |-> 1, starts |-> 1],
     [health |-> FALSE, events |-> 3, decays |-> 1, failures |-> 1, starts |-> 2]}

LifecycleInit ==
    /\ focus \in {"recovery", "migration", "observation"}
    /\ RecoveryInit /\ MigrationInit /\ ObservationInit
    /\ focus = "recovery" \/ witness = CHOOSE h \in Starts : TRUE
    /\ focus = "migration" \/ site = CHOOSE s \in Sites : TRUE
    /\ focus = "observation" \/ plan = CHOOSE p \in Plans : TRUE

OnRecovery(A) == focus = "recovery" /\ A /\ UNCHANGED <<focus, migrationVars, observationVars>>
OnMigration(A) == focus = "migration" /\ A /\ UNCHANGED <<focus, recoveryVars, observationVars>>
OnObservation(A) == focus = "observation" /\ A /\ UNCHANGED <<focus, recoveryVars, migrationVars>>

LifecycleNext ==
    \/ OnRecovery(RecoveryNext) \/ OnMigration(MigrationNext)
    \/ OnObservation(ObservationNext)

\* The fairness of each part, asked for only where the part runs.
LifecycleSpec ==
    /\ LifecycleInit /\ [][LifecycleNext]_lifecycleVars
    /\ WF_lifecycleVars(OnRecovery(RestoreSteps \/ BackupSteps))
    /\ WF_lifecycleVars(OnRecovery(ControlSteps))
    /\ WF_lifecycleVars(OnRecovery(RestoreRepeated))
    /\ WF_lifecycleVars(OnMigration(ClaimsExpire))
    /\ WF_lifecycleVars(OnMigration(MigrateSteps))
    /\ WF_lifecycleVars(OnMigration(progress # "COMPLETE" /\ (MigrateBegin \/ MigrateResume)))
    /\ WF_lifecycleVars(OnObservation(BeginCapture))
    /\ WF_lifecycleVars(OnObservation(CaptureSteps))
============================================================================
