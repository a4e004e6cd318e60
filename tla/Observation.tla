---------------------------- MODULE Observation ----------------------------
(***************************************************************************)
(* What a production node says about its own health: the publisher of      *)
(* observation snapshots (src/lets/observation.py) beside the writers, the *)
(* restart fence (storage/sqlite.py) and the end of the process (cli.py).  *)
(*                                                                         *)
(* A capture reads one transaction, verifies a page of new audit rows and  *)
(* a page of a sweep over the old ones, and publishes a snapshot, each as  *)
(* a step of its own; the cache is served without any look at the store.   *)
(* The restart fence verifies the audit as well, between any two of them.  *)
(*                                                                         *)
(* A row of the log is its position.  A row may decay on disk after it was *)
(* written: "payload" if its hash no longer fits its contents, "hash" if   *)
(* the stored hash itself changed.  The hash of the head is the anchor's   *)
(* to guard (module Anchor), so a hash decays only below the head.  Times  *)
(* are ages, which stop to grow at MaxAge.                                 *)
(***************************************************************************)
EXTENDS Naturals, FiniteSets

CONSTANTS
    PageSize,        \* audit_page_size
    MaxAge,          \* max_age_ns
    Plans            \* what may happen in a run: whether health changes, and the
                     \* bounds on events, decayed rows, time-outs and processes

ASSUME ObservationConstants == PageSize \in Nat \ {0} /\ MaxAge \in Nat \ {0}

VARIABLES
    plan,            \* the plan of this run
    phase,           \* the process: down, booting, starting, running, stopping
    head,            \* the last audited event
    decay,           \* the decayed rows, with how
    sound,           \* runtime, invariant, clock, key and capacity are healthy
    anchored,        \* the authority anchor is healthy
    fenced,          \* _authority_admission_fenced
    verified,        \* _verified_sequence
    cursor, target,  \* _sweep_cursor_sequence, _sweep_target_sequence
    sticky,          \* _audit_sticky_error
    failed,          \* _last_capture_error
    capture,         \* the capture in progress
    cache,           \* _snapshot_bytes
    failures, starts,
    soundAge,        \* history: how long ago the node was sound
    seen             \* history: the rows this process has verified

observationVars ==
    <<plan, phase, head, decay, sound, anchored, fenced, verified, cursor, target,
      sticky, failed, capture, cache, failures, starts, soundAge, seen>>

NoPage == [after |-> 0, last |-> 0, fits |-> TRUE]
NoCapture == [at |-> "idle", head |-> 0, age |-> 0, sound |-> FALSE,
              page |-> NoPage, sweep |-> NoPage, valid |-> FALSE]
NoSnapshot == [head |-> 0, age |-> MaxAge, published |-> MaxAge, eligible |-> FALSE]

Older(age) == IF age < MaxAge THEN age + 1 ELSE MaxAge

\* verify_audit_rows and verify_audit_head: every row of the range fits its
\* hash, its signature and its predecessor.
Intact(rows) == \A d \in decay : d.row \notin rows

\* The stored hash of the row a page starts after.
Boundary(row) == \A d \in decay : d.row = row => d.how # "hash"

\* The last row of the page after "row" (_audit_page).
PageEnd(row, through) == IF row + PageSize < through THEN row + PageSize ELSE through

\* The page as it is on disk now: where it starts and ends, and whether its
\* boundary and its rows still are what was written.
Page(row, through) ==
    LET last == PageEnd(row, through) IN
    [after |-> row, last |-> last, fits |-> Boundary(row) /\ Intact(row + 1 .. last)]

ObservationInit ==
    /\ plan \in Plans
    /\ phase = "booting" /\ head = 1 /\ decay = {}
    /\ sound = TRUE /\ anchored = TRUE /\ fenced = FALSE
    /\ verified = 0 /\ cursor = 0 /\ target = 0 /\ sticky = FALSE /\ failed = FALSE
    /\ capture = NoCapture /\ cache = NoSnapshot
    /\ failures = 0 /\ starts = 1 /\ soundAge = 0 /\ seen = {}

storeState == <<head, decay, sound, anchored>>
verifierState == <<verified, cursor, target, sticky, seen>>
bounded == <<plan, failures, starts>>

----------------------------------------------------------------------------
\* Plausible mistakes in the definitions below: each breaks a property.
AgeOfPublication == cache.published
ValidWhileCatchingUp(reached) == ~sticky'
SweepFromTarget(reached) == reached
AdvancedByFence(whole) == verified' = head

----------------------------------------------------------------------------
(* The process *)

\* bootstrap_audit: the whole log is verified before anything is started.
Bootstrap ==
    /\ phase = "booting" /\ Intact(1..head)
    /\ phase' = "starting"
    /\ verified' = head /\ cursor' = 0 /\ target' = head /\ seen' = 1..head
    /\ UNCHANGED <<storeState, fenced, sticky, failed, capture, cache, bounded, soundAge>>

\* The node does not come up on a log that does not verify.
BootstrapFails ==
    /\ phase = "booting" /\ ~Intact(1..head)
    /\ phase' = "down"
    /\ UNCHANGED <<storeState, fenced, verifierState, failed, capture, cache, bounded, soundAge>>

\* The server ends and asks the publisher to stop.
BeginStop ==
    /\ phase = "running"
    /\ phase' = "stopping"
    /\ UNCHANGED <<storeState, fenced, verifierState, failed, capture, cache, bounded, soundAge>>

\* stop returns when the publisher's thread has ended, however long that
\* takes, and only then is the store closed.
ThreadEnded == capture.at = "idle"
CloseStore ==
    /\ phase = "stopping" /\ ThreadEnded
    /\ phase' = "down"
    /\ UNCHANGED <<storeState, fenced, verifierState, failed, capture, cache, bounded, soundAge>>

\* Another process, after an orderly end.
StartAgain ==
    /\ phase = "down" /\ capture.at = "idle" /\ starts < plan.starts
    /\ phase' = "booting" /\ starts' = starts + 1
    /\ fenced' = FALSE /\ anchored' = TRUE
    /\ verified' = 0 /\ cursor' = 0 /\ target' = 0 /\ sticky' = FALSE /\ failed' = FALSE
    /\ seen' = {} /\ cache' = NoSnapshot
    /\ UNCHANGED <<plan, head, decay, sound, capture, failures, soundAge>>

----------------------------------------------------------------------------
(* The store and the rest of the node *)

Up == phase \in {"starting", "running"}
Admitted == (Up \/ phase = "stopping") /\ anchored /\ ~fenced

AppendEvent ==
    /\ Admitted /\ head < plan.events
    /\ head' = head + 1
    /\ UNCHANGED <<phase, decay, sound, anchored, fenced, verifierState, failed,
                   capture, cache, bounded, soundAge>>

Decay(row, how) ==
    /\ Cardinality(decay) < plan.decays
    /\ row \in 1..(IF how = "hash" THEN head - 1 ELSE head)
    /\ decay' = decay \cup {[row |-> row, how |-> how]}
    /\ UNCHANGED <<phase, head, sound, anchored, fenced, verifierState, failed,
                   capture, cache, bounded, soundAge>>

\* The mode, the invariant, the clock, the key or the capacity; the transport
\* to the anchor.
HealthChanges ==
    /\ plan.health
    /\ \/ sound' = ~sound /\ UNCHANGED anchored
       \/ anchored' = ~anchored /\ UNCHANGED sound
    /\ soundAge' = IF sound' THEN 0 ELSE soundAge
    /\ UNCHANGED <<phase, head, decay, fenced, verifierState, failed, capture, cache, bounded>>

Tick ==
    /\ plan.health
    /\ soundAge' = IF sound THEN 0 ELSE Older(soundAge)
    /\ capture' = [capture EXCEPT !.age = IF capture.at = "idle" THEN 0 ELSE Older(@)]
    /\ cache' = [cache EXCEPT !.age = Older(@), !.published = Older(@)]
    /\ UNCHANGED <<phase, storeState, fenced, verifierState, failed, bounded>>

----------------------------------------------------------------------------
(* capture_once *)

BeginCapture ==
    /\ Up /\ capture.at = "idle"
    /\ capture' = [NoCapture EXCEPT !.at = "waiting"]
    /\ UNCHANGED <<phase, storeState, fenced, verifierState, failed, cache, bounded, soundAge>>

\* _durable_capture: one transaction of the observation class.
ReadStore ==
    /\ capture.at = "waiting" /\ Admitted /\ Up
    /\ capture' = [at |-> "read", head |-> head, age |-> 0, sound |-> sound,
                   page |-> Page(verified, head), sweep |-> Page(cursor, target),
                   valid |-> FALSE]
    /\ UNCHANGED <<phase, storeState, fenced, verifierState, failed, cache, bounded, soundAge>>

\* The audit is valid when it is verified through the captured head.
Valid(reached) == ~sticky' /\ reached = capture.head

\* A completed sweep starts over from the first row, toward the captured head.
SweepRestart(reached) == 0

\* _advance_audit: the new rows, then the sweep; the first mismatch sticks.
AdvanceAudit ==
    LET new == ~sticky /\ capture.page.fits /\ capture.page.after = verified
        old == new /\ capture.sweep.fits /\ capture.sweep.after = cursor
        reached == IF new THEN capture.page.last ELSE verified
        done == old /\ capture.sweep.last = target
    IN
    /\ capture.at = "read" /\ capture.head >= verified
    /\ verified' = reached
    /\ seen' = seen \cup verified + 1 .. reached
    /\ sticky' = ~old
    /\ cursor' = IF done THEN SweepRestart(capture.sweep.last)
                 ELSE IF old THEN capture.sweep.last ELSE cursor
    /\ target' = IF done THEN capture.head ELSE target
    /\ capture' = [capture EXCEPT !.at = "advanced", !.valid = Valid(reached)]
    /\ UNCHANGED <<phase, storeState, fenced, failed, cache, bounded, soundAge>>

\* The first snapshot lets the node serve.
Publish ==
    /\ capture.at = "advanced" /\ Up
    /\ cache' = [head |-> capture.head, age |-> capture.age, published |-> 0,
                 eligible |-> capture.sound /\ capture.valid]
    /\ failed' = FALSE /\ capture' = NoCapture /\ phase' = "running"
    /\ UNCHANGED <<storeState, fenced, verifierState, bounded, soundAge>>

\* Refused by the store, stopped, or out of time.  Without a first snapshot
\* the node does not start.
CaptureFails ==
    /\ \/ capture.at = "waiting" /\ ~(Admitted /\ Up) /\ UNCHANGED failures
       \/ capture.at = "advanced" /\ ~Up /\ UNCHANGED failures
       \/ /\ capture.at # "idle" /\ Up
          /\ failures < plan.failures /\ failures' = failures + 1
    /\ failed' = TRUE /\ capture' = NoCapture
    /\ phase' = IF phase = "starting" THEN "stopping" ELSE phase
    /\ UNCHANGED <<storeState, fenced, verifierState, cache, plan, starts, soundAge>>

----------------------------------------------------------------------------
(* verify_terminal, under the restart fence *)

\* Where the verification starts: at the first row, or after the verified ones.
TailStart(whole) == IF whole THEN 0 ELSE verified

TerminalPasses(whole) ==
    /\ ~sticky
    /\ TailStart(whole) < head => Boundary(TailStart(whole))
    /\ Intact(TailStart(whole) + 1 .. head)

\* The position of the publisher's own verification is left alone.
AfterFence(whole) == UNCHANGED verified

MayFence == phase = "running" /\ anchored /\ ~fenced

FenceStore(whole) ==
    /\ MayFence /\ TerminalPasses(whole)
    /\ fenced' = TRUE
    /\ AfterFence(whole)
    /\ seen' = seen \cup TailStart(whole) + 1 .. head
    /\ UNCHANGED <<phase, storeState, cursor, target, sticky, failed, capture, cache, bounded,
                   soundAge>>

\* The deadline of the fence passes, under the verification or after it.
FenceTimesOut(whole) ==
    /\ MayFence /\ failures < plan.failures
    /\ failures' = failures + 1
    /\ \/ failed' = TRUE /\ UNCHANGED verified
       \/ TerminalPasses(whole) /\ AfterFence(whole) /\ UNCHANGED failed
    /\ UNCHANGED <<phase, storeState, fenced, cursor, target, sticky, seen, capture, cache,
                   plan, starts, soundAge>>

FenceRefused(whole) ==
    /\ MayFence /\ ~TerminalPasses(whole)
    /\ sticky' = TRUE /\ failed' = TRUE
    /\ UNCHANGED <<phase, storeState, fenced, verified, cursor, target, seen, capture,
                   cache, bounded, soundAge>>

----------------------------------------------------------------------------
CaptureSteps == ReadStore \/ AdvanceAudit \/ Publish \/ CaptureFails
ProcessSteps == Bootstrap \/ BootstrapFails \/ CloseStore

ObservationNext ==
    \/ ProcessSteps \/ BeginStop \/ StartAgain
    \/ AppendEvent \/ HealthChanges \/ Tick
    \/ \E row \in 1..head, how \in {"payload", "hash"} : Decay(row, how)
    \/ BeginCapture \/ CaptureSteps
    \/ \E whole \in BOOLEAN :
          FenceStore(whole) \/ FenceTimesOut(whole) \/ FenceRefused(whole)

ObservationSpec == ObservationInit /\ [][ObservationNext]_observationVars

\* The publisher's thread runs, and every wait in a capture is bounded.
ObservationFairness ==
    WF_observationVars(BeginCapture) /\ WF_observationVars(CaptureSteps)

\* metrics_document and ready: computed at the time of the request, from the
\* cache and from the anchor's status as it is then.
AgeNow == cache.age
Fresh == cache.eligible /\ AgeNow < MaxAge /\ anchored /\ ~fenced /\ ~failed
Ready == phase = "running" /\ Fresh
----------------------------------------------------------------------------

\* A node that answers ready was sound less than MaxAge ago, however long the
\* capture took that says so (metrics_document).
ReadyIsRecentTruth == Fresh => soundAge < MaxAge

\* What the node vouches for it has verified: every audited event up to the head
\* of an eligible snapshot, although a capture verifies one page, and the whole
\* log, which no longer moves, behind the proof of a fence (verify_terminal).
VouchedIsVerified ==
    /\ cache.eligible /\ phase = "running" => 1..cache.head \subseteq seen
    /\ fenced => 1..head \subseteq seen

\* An audit fault is never raised for a log that is as it was written: no order
\* of captures, commits, sweeps and fences that were given up makes the
\* permanent fault of a sound node (_advance_audit_locked).
NoFalseAlarm == sticky => decay # {}

\* A row that decays after it was verified is found by the sweep, and then the
\* node is never again ready.
DecayEndsReadiness == decay # {} ~> [](~Ready)
============================================================================
