-------------------------- MODULE RuntimeActivation --------------------------
(***************************************************************************)
(* The managed runtime of the desktop program (internal/runtime): a        *)
(* release is staged as a candidate while the program runs, and activated  *)
(* by the next start under a durable journal.  Every write, rename or      *)
(* removal of a file is a step of its own and the process may end between  *)
(* any two of them.  An I/O error that ends the start leaves the same      *)
(* files as a crash at that step and is not modelled apart.                *)
(*                                                                         *)
(* Candidates are numbered in the order of their directory names; Content  *)
(* gives the tree each of them holds for each component.  The version of   *)
(* a component is pinned by the manifest of the build, so two candidates   *)
(* share the installed directory of a component.                           *)
(***************************************************************************)
EXTENDS Naturals, FiniteSets, FiniteSetsExt

CONSTANTS
    Candidates,   \* releases the stable feed may offer, as natural numbers
    Components,   \* the managed components
    Content,      \* Content[c][k]: the tree of component k in release c
    MaxCrashes    \* bound on the crashes of a behaviour

None == 0

ASSUME CandidatesAssumption == Candidates \subseteq Nat \ {None}
ASSUME ContentAssumption ==
    \A c \in Candidates : \A k \in Components : Content[c][k] # None

VARIABLES
    audit,      \* candidates/<c>/candidate.json: its status, "bare" while the
                \* directory has no file yet, "none" without a directory
    moved,      \* candidates that were moved to candidates/quarantine
    versions,   \* versions/<k>/<pinned version>: the installed tree or None
    pointer,    \* active.json: the active candidate or None
    journal,    \* the activation journal or NoJournal
    proc,       \* the running process: its next step, the candidate it works
                \* on and the operation that asked for it
    serving,    \* what the process resolved its executables from
    fetched,    \* how often each release was requested from the network
    crashes

disk == <<audit, moved, versions, pointer, journal>>
vars == <<audit, moved, versions, pointer, journal, proc, serving, fetched, crashes>>

CandidateStatuses ==
    {"downloading", "verifying", "pending", "active", "superseded", "quarantined"}

Phases == {"activating", "pointer_swapped", "active"}

NoJournal == [phase |-> "none", candidate |-> None, previous |-> None]

Steps ==
    {"down", "refused", "open", "back", "recover", "verify", "commit", "point",
     "swapped", "audits", "settled", "close", "mark", "move", "resolve", "up",
     "create", "download", "probe"}

Callers == {"open", "back", "recover", "activate", "stage"}

\* Every file holds what the code may have written there.
ActivationTypeOK ==
    /\ audit \in [Candidates -> CandidateStatuses \cup {"none", "bare"}]
    /\ moved \subseteq Candidates
    /\ \A k \in Components : versions[k] \in {None} \cup {Content[c][k] : c \in Candidates}
    /\ pointer \in Candidates \cup {None}
    /\ journal = NoJournal
       \/ journal \in [phase : Phases, candidate : Candidates, previous : Candidates \cup {None}]
    /\ proc \in [at : Steps, cand : Candidates \cup {None}, by : Callers]
    /\ serving \in Candidates \cup {None}
    /\ fetched \in [Candidates -> Nat]
    /\ crashes \in 0..MaxCrashes

Init ==
    /\ audit = [c \in Candidates |-> "none"]
    /\ moved = {}
    /\ versions = [k \in Components |-> None]
    /\ pointer = None
    /\ journal = NoJournal
    /\ proc = [at |-> "down", cand |-> None, by |-> "open"]
    /\ serving = None
    /\ fetched = [c \in Candidates |-> 0]
    /\ crashes = 0

-----------------------------------------------------------------------------
(* Reading the candidates directory. *)

WithStatus(s) == {c \in Candidates : audit[c] = s}

\* loadCandidate fails on a directory without its file and on a candidate
\* whose file says quarantined but which was not moved away.
Unreadable == WithStatus("bare") \cup WithStatus("quarantined")

Interrupted == WithStatus("downloading") \cup WithStatus("verifying")

Pending == WithStatus("pending")

At(step) == proc.at = step

GoTo(step) == proc' = [proc EXCEPT !.at = step]

Work(step, c, caller) == proc' = [at |-> step, cand |-> c, by |-> caller]

\* quarantineCandidate begins by marking the candidate's file.
QuarantineBy(c, caller) == Work("mark", c, caller)

-----------------------------------------------------------------------------
(* Open: reconcileActivationLocked. *)

Start ==
    /\ proc.at \in {"down", "refused"}
    /\ Work("open", None, "open")
    /\ UNCHANGED <<disk, serving, fetched, crashes>>

\* Variant: only an audited candidate is committed forward.
CommitsForwardAudited(c) == audit[c] = "active"

\* commitForwardActivation's checks before its first write.
CommitsForward(c) ==
    /\ audit[c] \in {"pending", "active"}
    /\ \A k \in Components : versions[k] # None

\* A swapped pointer is committed forward, anything else is rolled back.
Reconcile ==
    /\ At("open")
    /\ IF journal = NoJournal THEN GoTo("recover")
       ELSE IF pointer = journal.candidate /\ CommitsForward(pointer)
       THEN GoTo(IF journal.phase = "activating" THEN "swapped" ELSE "audits")
       ELSE GoTo("back")
    /\ UNCHANGED <<disk, serving, fetched, crashes>>

\* What follows the quarantine of a rolled-back candidate.
AfterRejection == IF journal.previous = None THEN "close" ELSE "audits"

\* Variant: a candidate that is gone stops the rollback too.
StopsUnlessRead(c) == journal.previous = None

\* A candidate that cannot be read stops the rollback unless a previous
\* pointer exists; one that is already gone does not.
StopsRollBack(c) == audit[c] = "quarantined" /\ journal.previous = None

RollBack ==
    /\ At("back")
    /\ pointer' = journal.previous
    /\ LET c == journal.candidate IN
       IF c \notin Unreadable /\ audit[c] # "none" THEN QuarantineBy(c, "back")
       ELSE IF StopsRollBack(c) THEN Work("refused", None, "back")
       ELSE Work(AfterRejection, None, "back")
    /\ UNCHANGED <<audit, moved, versions, journal, serving, fetched, crashes>>

-----------------------------------------------------------------------------
(* quarantineCandidate: the status first, then the directory. *)

MarkQuarantined ==
    /\ At("mark")
    /\ audit' = [audit EXCEPT ![proc.cand] = "quarantined"]
    /\ GoTo("move")
    /\ UNCHANGED <<moved, versions, pointer, journal, serving, fetched, crashes>>

MoveToQuarantine ==
    /\ At("move")
    /\ audit' = [audit EXCEPT ![proc.cand] = "none"]
    /\ moved' = moved \cup {proc.cand}
    /\ GoTo(CASE proc.by = "back" -> AfterRejection
              [] proc.by = "recover" -> "recover"
              [] proc.by = "activate" -> "refused"
              [] proc.by = "stage" -> "up")
    /\ UNCHANGED <<versions, pointer, journal, serving, fetched, crashes>>

-----------------------------------------------------------------------------
(* ActivateOnStartup. *)

RecoverInterrupted ==
    /\ At("recover")
    /\ Interrupted # {}
    /\ QuarantineBy(Min(Interrupted), "recover")
    /\ UNCHANGED <<disk, serving, fetched, crashes>>

\* The candidates were inspected: one unreadable or two pending candidates
\* end the start with an error.
ChoosePending ==
    /\ At("recover")
    /\ Interrupted = {}
    /\ IF Unreadable # {} \/ journal # NoJournal \/ Cardinality(Pending) > 1
       THEN GoTo("refused")
       ELSE IF Pending = {} THEN GoTo("resolve")
       ELSE Work("verify", Min(Pending), "activate")
    /\ UNCHANGED <<disk, serving, fetched, crashes>>

\* Payload, signature and tree are checked again; the files may have rotted.
VerifyPending ==
    /\ At("verify")
    /\ GoTo("commit") \/ QuarantineBy(proc.cand, "activate")
    /\ UNCHANGED <<disk, serving, fetched, crashes>>

\* Variant: any installed tree of the pinned version will do.
CommittedUnchecked(c) == \A k \in Components : versions[k] # None

\* Every component of the candidate is installed as the tree it verified.
Committed(c) == \A k \in Components : versions[k] = Content[c][k]

\* An installed version of the component must be the very same tree.
CommitVersion(k) ==
    /\ At("commit")
    /\ \/ /\ versions[k] = None
          /\ versions' = [versions EXCEPT ![k] = Content[proc.cand][k]]
          /\ UNCHANGED proc
       \/ /\ versions[k] \notin {None, Content[proc.cand][k]}
          /\ QuarantineBy(proc.cand, "activate")
          /\ UNCHANGED versions
    /\ UNCHANGED <<audit, moved, pointer, journal, serving, fetched, crashes>>

BeginActivation ==
    /\ At("commit")
    /\ Committed(proc.cand)
    /\ journal' = [phase |-> "activating", candidate |-> proc.cand, previous |-> pointer]
    /\ GoTo("point")
    /\ UNCHANGED <<audit, moved, versions, pointer, serving, fetched, crashes>>

SwapPointer ==
    /\ At("point")
    /\ pointer' = proc.cand
    /\ GoTo("swapped")
    /\ UNCHANGED <<audit, moved, versions, journal, serving, fetched, crashes>>

-----------------------------------------------------------------------------
(* The steps that an activation, a commit forward and a rollback share. *)

AdvanceTo(phase, step) ==
    /\ journal' = [journal EXCEPT !.phase = phase]
    /\ GoTo(step)
    /\ UNCHANGED <<audit, moved, versions, pointer, serving, fetched, crashes>>

AdvanceToSwapped == At("swapped") /\ AdvanceTo("pointer_swapped", "audits")

AuditTarget == IF proc.by = "back" THEN journal.previous ELSE journal.candidate

\* The status normalizeCandidateAudits wants a readable candidate to have.
DesiredAudit(c) ==
    IF c = AuditTarget THEN "active"
    ELSE IF audit[c] = "active" THEN "superseded" ELSE audit[c]

Stale == {c \in Candidates \ Unreadable : audit[c] # "none" /\ audit[c] # DesiredAudit(c)}

\* What makes the pass fail: an unreadable candidate, a target that was
\* never verified or that is missing.
Broken ==
    Unreadable \cup
        {c \in {AuditTarget} : audit[c] \in {"none", "downloading", "verifying"}}

\* One pass in the order of the directory: it saves what has to change and
\* stops at the first candidate that makes it fail.
NormalizeAudit ==
    /\ At("audits")
    /\ Stale # {}
    /\ \A c \in Broken : Min(Stale) < c
    /\ audit' = [audit EXCEPT ![Min(Stale)] = DesiredAudit(Min(Stale))]
    /\ UNCHANGED <<moved, versions, pointer, journal, proc, serving, fetched, crashes>>

AuditsFail ==
    /\ At("audits")
    /\ Broken # {}
    /\ \A c \in Stale : Min(Broken) < c
    /\ IF proc.by = "open" THEN Work("back", None, "back") ELSE GoTo("refused")
    /\ UNCHANGED <<disk, serving, fetched, crashes>>

AuditsDone ==
    /\ At("audits")
    /\ Stale \cup Broken = {}
    /\ GoTo(IF proc.by = "back" \/ journal.phase = "active" THEN "close" ELSE "settled")
    /\ UNCHANGED <<disk, serving, fetched, crashes>>

AdvanceToActive == At("settled") /\ AdvanceTo("active", "close")

RemoveJournal ==
    /\ At("close")
    /\ journal' = NoJournal
    /\ GoTo(IF proc.by = "activate" THEN "resolve" ELSE "recover")
    /\ UNCHANGED <<audit, moved, versions, pointer, serving, fetched, crashes>>

\* ProcessPaths; without a pointer the program opens in setup mode.
ResolveRuntime ==
    /\ At("resolve")
    /\ serving' = pointer
    /\ Work("up", None, "stage")
    /\ UNCHANGED <<disk, fetched, crashes>>

-----------------------------------------------------------------------------
(* CheckIfDue and Stage, while the program runs. *)

\* A release with a candidate or in quarantine is never submitted again.
KnownRelease(c) == audit[c] # "none" \/ c \in moved

CheckForUpdate(c) ==
    /\ At("up")
    /\ Unreadable = {}
    /\ ~KnownRelease(c)
    /\ audit' = [audit EXCEPT ![c] = "bare"]
    /\ Work("create", c, "stage")
    /\ UNCHANGED <<moved, versions, pointer, journal, serving, fetched, crashes>>

Save(status, step) ==
    /\ audit' = [audit EXCEPT ![proc.cand] = status]
    /\ GoTo(step)
    /\ UNCHANGED <<moved, versions, pointer, journal, serving, crashes>>

\* The first save; the artifacts are requested right after it.
CreateCandidate ==
    /\ At("create")
    /\ fetched' = [fetched EXCEPT ![proc.cand] = @ + 1]
    /\ Save("downloading", "download")

DownloadArtifacts == At("download") /\ Save("verifying", "probe") /\ UNCHANGED fetched

ProbeCandidate == At("probe") /\ Save("pending", "up") /\ UNCHANGED fetched

\* A download, signature, extraction or probe error, or the program closing.
StageFails ==
    /\ proc.at \in {"download", "probe"}
    /\ QuarantineBy(proc.cand, "stage")
    /\ UNCHANGED <<disk, serving, fetched, crashes>>

-----------------------------------------------------------------------------
Stop ==
    /\ At("up")
    /\ GoTo("down")
    /\ serving' = None
    /\ UNCHANGED <<disk, fetched, crashes>>

Crash ==
    /\ proc.at \notin {"down", "refused"}
    /\ crashes < MaxCrashes
    /\ crashes' = crashes + 1
    /\ GoTo("down")
    /\ serving' = None
    /\ UNCHANGED <<disk, fetched>>

\* What the process does on its own once it is started.
ProcessStep ==
    \/ Reconcile \/ RollBack \/ MarkQuarantined \/ MoveToQuarantine
    \/ RecoverInterrupted \/ ChoosePending \/ VerifyPending
    \/ (\E k \in Components : CommitVersion(k)) \/ BeginActivation \/ SwapPointer
    \/ AdvanceToSwapped \/ NormalizeAudit \/ AuditsFail \/ AuditsDone
    \/ AdvanceToActive \/ RemoveJournal \/ ResolveRuntime
    \/ CreateCandidate \/ DownloadArtifacts \/ ProbeCandidate \/ StageFails

Next ==
    \/ Start \/ Stop \/ Crash
    \/ ProcessStep
    \/ \E c \in Candidates : CheckForUpdate(c)

Spec == Init /\ [][Next]_vars

\* The user opens the program again, and a running process keeps running.
FairSpec == Spec /\ WF_vars(Start) /\ WF_vars(ProcessStep)

-----------------------------------------------------------------------------
(* Properties. *)

Installed(c) == \A k \in Components : versions[k] = Content[c][k]

InService == proc.at \in {"up", "create", "download", "probe"}

\* What the program runs is the candidate the pointer names, exactly the
\* trees that candidate was verified with, and no activation is under way.
ServedSetIsTheVerifiedOne ==
    InService /\ serving # None =>
        /\ serving = pointer
        /\ journal = NoJournal
        /\ Installed(serving)

\* Once a start has reconciled the files, the audits name the pointer's
\* candidate as the active one and no other.
AuditsNameThePointer ==
    InService \/ At("resolve") => WithStatus("active") = {pointer} \ {None}

\* However starts, crashes and checks follow each other, a release is
\* requested from the network at most once.
ReleaseIsFetchedOnce == \A c \in Candidates : fetched[c] <= 1

\* The promise: see RuntimeSet.  The pointer decides what is launched.
StageOf(c) ==
    CASE c = pointer -> "launched"
      [] c # pointer /\ (c \in moved \/ audit[c] = "quarantined") -> "rejected"
      [] c # pointer /\ c \notin moved /\ audit[c] = "pending" -> "verified"
      [] c # pointer /\ c \notin moved /\ audit[c] \in {"active", "superseded"} -> "retired"
      [] OTHER -> "unknown"

Promise == INSTANCE RuntimeSet WITH stage <- [c \in Candidates |-> StageOf(c)]

\* Every step of the files, crashes included, launches one verified set
\* instead of another, rejects a set that is not launched, or changes nothing.
KeepsPromise == Promise!SetSpec

\* The two states in which every later start is refused.
Blocked == Unreadable # {} \/ Cardinality(Pending) > 1

\* Whatever crashes there were, the program comes up again, unless the
\* candidates directory is in one of the states no start gets past.
StartsUnlessBlocked == []<>At("up") \/ <>[]Blocked

\* A crash of an activation or of a download is resolved by a later start
\* (activation.go:146, manager.go:470, docs/VERIFICATION.md:9).
EveryCrashIsResolved == []<>At("up")
=============================================================================
