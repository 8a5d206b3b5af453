-------------------------- MODULE ToolInvocations --------------------------
(***************************************************************************)
(* Portable project tools (src/internal/toolstudio/portable.go) over their *)
(* tables (src/internal/store/tool_packages.go, tool_installations.go):    *)
(* packages, installations, the grants of a stage and its invocations,     *)
(* with the directory a package is materialized in.                        *)
(*                                                                         *)
(* A call is one MCP request or one click of the user; calls run in        *)
(* parallel, each a sequence of transactions, file operations and native   *)
(* processes, and each may outlive the turn that made it: the App Server   *)
(* gives a tool 120 seconds, a tool may take 600.  The process may end     *)
(* between any two steps, and what it leaves is recovered when it starts.  *)
(*                                                                         *)
(* One run is modelled, with its stage attempts.  Hashes are compared in   *)
(* the code wherever an identity is; here a package is its identity.       *)
(***************************************************************************)
EXTENDS Naturals, Sequences, FiniteSets

CONSTANTS
    Package,      \* tool packages
    NameOf,       \* the name of each package
    Stage,        \* stage attempts of the run
    WorkOf,       \* the stage and logical ordinal each attempt works on
    Request,      \* a tool with its normalized arguments
    Call,         \* calls in progress at once
    NoStage,      \* the stage of a click in the tool studio
    MaxInstalls,  \* bound: installation attempts
    MaxFaults     \* bound: process ends, lost transactions, damaged trees

ASSUME ToolAssumption == NoStage \notin Stage /\ MaxInstalls \in Nat /\ MaxFaults \in Nat

VARIABLES
    run,         \* the run: live, interrupted, uncertain or ended
    stage,       \* its attempts
    package,     \* the state of every package
    install,     \* the rows of portable_tool_installations, oldest first
    grant,       \* the rows of tool_stage_grants
    invocation,  \* the rows of tool_invocations, by their exact identity
    tree,        \* what lies in the directory of a package
    call,        \* the calls
    ran,         \* how often native code ran for an identity
    faults       \* faults so far

runVars   == <<run, stage>>
toolVars  == <<package, install, grant, tree>>
vars == <<run, stage, package, install, grant, invocation, tree, call, ran, faults>>

Identity == Stage \X Package \X Request
Working  == {"downloading", "verifying", "installing", "probing"}
Live     == Working \cup {"ready"}
IdleCall == [at |-> "idle"]

ToolTypeOK ==
    /\ run \in {"live", "interrupted", "uncertain", "ended"}
    /\ stage \in [Stage -> [state : {"absent", "in_progress", "completed", "failed",
                                     "interrupted", "uncertain", "superseded"},
                            external : BOOLEAN]]
    /\ package \in [Package -> {"absent", "pending_approval", "active", "disabled"}]
    /\ install \in Seq([package : Package, state : Live \cup {"failed", "interrupted"}])
    /\ grant \subseteq Stage \X Package \X (1..MaxInstalls)
    /\ invocation \in [Identity -> {"none", "running", "succeeded", "failed", "uncertain"}]
    /\ tree \in [Package -> {"absent", "sound", "damaged"}]
    /\ call \in [Call -> {IdleCall}
            \cup [at : {"fetch", "verify", "clear", "publish", "probe", "complete",
                        "activate", "grant"},
                  stage : Stage \cup {NoStage}, package : Package, inst : 1..MaxInstalls,
                  active : BOOLEAN]
            \cup [at : {"reserve", "check", "running", "record"}, stage : Stage,
                  package : Package, request : Request, inst : 1..MaxInstalls]]
    /\ ran \in [Identity -> Nat]
    /\ faults \in 0..MaxFaults

ToolInit ==
    /\ run = "live"
    /\ stage = [s \in Stage |-> [state |-> "absent", external |-> FALSE]]
    /\ package = [p \in Package |-> "absent"]
    /\ install = <<>> /\ grant = {}
    /\ invocation = [i \in Identity |-> "none"]
    /\ tree = [p \in Package |-> "absent"]
    /\ call = [c \in Call |-> IdleCall]
    /\ ran = [i \in Identity |-> 0]
    /\ faults = 0

-----------------------------------------------------------------------------
(* The run around the tools. *)

\* ValidateStageCapability; core.IsTerminal knows neither of the two statuses
\* a user still has to resolve.
Capable(s) == stage[s].state = "in_progress" /\ run # "ended"

StageBegins(s) ==
    /\ run = "live" /\ stage[s].state = "absent"
    /\ \A o \in Stage \ {s} : WorkOf[o] = WorkOf[s] => stage[o].state \in {"absent", "superseded"}
    /\ stage' = [stage EXCEPT ![s].state = "in_progress"]
    /\ UNCHANGED <<run, toolVars, invocation, call, ran, faults>>

\* The approval of an installation marks its attempt before Codex may go on.
ApproveInstall(s) ==
    /\ run = "live" /\ stage[s].state = "in_progress" /\ ~stage[s].external
    /\ stage' = [stage EXCEPT ![s].external = TRUE]
    /\ UNCHANGED <<run, toolVars, invocation, call, ran, faults>>

\* A turn ends, whatever the calls it made are doing.
StageEnds(s, result) ==
    /\ stage[s].state = "in_progress"
    /\ stage' = [stage EXCEPT ![s].state = result]
    /\ UNCHANGED <<run, toolVars, invocation, call, ran, faults>>

\* quiesceRunTransaction: an incomplete attempt that may have acted outside
\* leaves the run uncertain.
RunCloses ==
    /\ run = "live"
    /\ run' = IF \E s \in Stage : stage[s].external /\ stage[s].state # "completed"
              THEN "uncertain" ELSE "ended"
    /\ UNCHANGED <<stage, toolVars, invocation, call, ran, faults>>

\* PrepareInterruptedRunForResume, after loadCheckpoint accepted the rest.
Resume ==
    /\ run = "interrupted"
    /\ \A s \in Stage : /\ stage[s].state \in {"absent", "completed", "interrupted", "superseded"}
                        /\ stage[s].state = "interrupted" => ~stage[s].external
    /\ run' = "live"
    /\ stage' = [s \in Stage |-> IF stage[s].state = "interrupted"
                                 THEN [stage[s] EXCEPT !.state = "superseded"] ELSE stage[s]]
    /\ UNCHANGED <<toolVars, invocation, call, ran, faults>>

-----------------------------------------------------------------------------
(* Packages. *)

CreateToolPackage(p) ==
    /\ package[p] = "absent"
    /\ package' = [package EXCEPT ![p] = "pending_approval"]
    /\ UNCHANGED <<runVars, install, grant, invocation, tree, call, ran, faults>>

DisableToolPackage(p) ==
    /\ package[p] = "active"
    /\ package' = [package EXCEPT ![p] = "disabled"]
    /\ UNCHANGED <<runVars, install, grant, invocation, tree, call, ran, faults>>

\* One package of a name is active; its installation must be ready.
Activated(p) == [o \in Package |-> IF o = p THEN "active"
                                   ELSE IF NameOf[o] = NameOf[p] /\ package[o] = "active"
                                   THEN "disabled" ELSE package[o]]

-----------------------------------------------------------------------------
(* installPortable. *)

Steps(c, at) == call' = [call EXCEPT ![c].at = at]
Ends(c)      == call' = [call EXCEPT ![c] = IdleCall]
Row(c)       == install[call[c].inst]
SetRow(c, s) == install' = [install EXCEPT ![call[c].inst].state = s]

LiveInstalls(p) == {i \in DOMAIN install : install[i].package = p /\ install[i].state \in Live}

\* BeginToolInstallation: a live attempt is returned instead of a new one, and
\* only a ready one lets the call go on.
InstallBegins(c, s, p) ==
    /\ call[c].at = "idle" /\ package[p] # "absent"
    /\ s # NoStage => Capable(s) /\ stage[s].external
    /\ LET Goes(at, i) == call' = [call EXCEPT ![c] =
              [at |-> at, stage |-> s, package |-> p, inst |-> i, active |-> package[p] = "active"]]
       IN \/ /\ LiveInstalls(p) = {} /\ Len(install) < MaxInstalls
             /\ install' = Append(install, [package |-> p, state |-> "downloading"])
             /\ Goes("fetch", Len(install) + 1)
          \/ \E i \in LiveInstalls(p) :
                install[i].state = "ready" /\ Goes("activate", i) /\ UNCHANGED install
    /\ UNCHANGED <<runVars, package, grant, invocation, tree, ran, faults>>

\* UpdateToolInstallation: exactly one nonterminal state further.
Advance(c, from, to, at) ==
    /\ Row(c).state = from /\ SetRow(c, to) /\ Steps(c, at)
    /\ UNCHANGED <<runVars, package, grant, invocation, tree, ran, faults>>

PayloadIsFetched(c)  == call[c].at = "fetch" /\ Advance(c, "downloading", "verifying", "verify")
PayloadIsVerified(c) == call[c].at = "verify" /\ Advance(c, "verifying", "installing", "clear")

\* materializePortable: what lies at the target is moved to quarantine ...
ClearTarget(c) ==
    /\ call[c].at = "clear"
    /\ tree' = [tree EXCEPT ![call[c].package] = "absent"]
    /\ Steps(c, "publish")
    /\ UNCHANGED <<runVars, package, install, grant, invocation, ran, faults>>

\* ... the payload is unpacked and probed aside, and renamed into place.
PublishTree(c) ==
    /\ call[c].at = "publish" /\ tree[call[c].package] = "absent"
    /\ tree' = [tree EXCEPT ![call[c].package] = "sound"]
    /\ Steps(c, "probe")
    /\ UNCHANGED <<runVars, package, install, grant, invocation, ran, faults>>

ProbeIsRecorded(c)   == call[c].at = "probe" /\ Advance(c, "installing", "probing", "complete")
InstallCompletes(c)  == call[c].at = "complete" /\ Advance(c, "probing", "ready", "activate")

\* FailToolInstallation, deferred; it refuses a row that is ready.
InstallFails(c) ==
    /\ call[c].at \in {"fetch", "verify", "clear", "publish", "probe", "complete"}
    /\ SetRow(c, "failed") /\ Ends(c)
    /\ UNCHANGED <<runVars, package, grant, invocation, tree, ran, faults>>

\* ActivateToolPackage; the error of a package that was active already is
\* forgiven by what the call read when it began.
ActivateToolPackage(c) ==
    /\ call[c].at = "activate"
    /\ LET p == call[c].package IN
       IF package[p] \in {"pending_approval", "disabled"} THEN package' = Activated(p) /\ Steps(c, "grant")
       ELSE UNCHANGED package /\ IF call[c].active THEN Steps(c, "grant") ELSE Ends(c)
    /\ UNCHANGED <<runVars, install, grant, invocation, tree, ran, faults>>

GrantKey(c) == <<call[c].stage, call[c].package, call[c].inst>>

\* CreateToolStageGrant and its trigger.
CreateToolStageGrant(c) ==
    /\ call[c].at = "grant"
    /\ grant' = IF call[c].stage # NoStage /\ Capable(call[c].stage)
                   /\ package[call[c].package] = "active" /\ Row(c).state = "ready"
                THEN grant \cup {GrantKey(c)} ELSE grant
    /\ Ends(c)
    /\ UNCHANGED <<runVars, package, install, invocation, tree, ran, faults>>

-----------------------------------------------------------------------------
(* RunPortableForStage. *)

Key(c) == <<call[c].stage, call[c].package, call[c].request>>

\* attachLatestToolInstallation
Latest(p) == {i \in DOMAIN install :
                install[i].package = p /\ \A j \in DOMAIN install : install[j].package = p => j <= i}

RunBegins(c, s, p, q) ==
    /\ call[c].at = "idle" /\ Capable(s) /\ package[p] = "active"
    /\ \E i \in Latest(p) :
          /\ install[i].state = "ready" /\ <<s, p, i>> \in grant
          /\ call' = [call EXCEPT ![c] = [at |-> "reserve", stage |-> s, package |-> p,
                                          request |-> q, inst |-> i]]
    /\ UNCHANGED <<runVars, toolVars, invocation, ran, faults>>

\* Variant: a failed invocation may be tried again.
ReservableAfterFailure(c) == invocation[Key(c)] \in {"none", "failed"}

\* What was reserved before is answered from its row or refused.
Reservable(c) == invocation[Key(c)] = "none"

\* ReserveToolInvocation: the marker of the attempt and the row, or nothing.
ReserveToolInvocation(c) ==
    /\ call[c].at = "reserve"
    /\ IF /\ Reservable(c) /\ Capable(call[c].stage)
          /\ GrantKey(c) \in grant
          /\ package[call[c].package] = "active" /\ Row(c).state = "ready"
       THEN /\ stage' = [stage EXCEPT ![call[c].stage].external = TRUE]
            /\ invocation' = [invocation EXCEPT ![Key(c)] = "running"]
            /\ Steps(c, "check")
       ELSE UNCHANGED <<stage, invocation>> /\ Ends(c)
    /\ UNCHANGED <<run, toolVars, ran, faults>>

\* The tree is hashed again before anything of it runs.
LaunchTool(c) ==
    /\ call[c].at = "check" /\ tree[call[c].package] = "sound"
    /\ ran' = [ran EXCEPT ![Key(c)] = @ + 1]
    /\ Steps(c, "running")
    /\ UNCHANGED <<runVars, toolVars, invocation, faults>>

ToolExits(c) ==
    /\ call[c].at = "running" /\ Steps(c, "record")
    /\ UNCHANGED <<runVars, toolVars, invocation, ran, faults>>

\* CompleteToolInvocation and FailToolInvocation: only a running row.
Settle(c, result) ==
    /\ invocation' = [invocation EXCEPT ![Key(c)] = IF @ = "running" THEN result ELSE @]
    /\ Ends(c)
    /\ UNCHANGED <<runVars, toolVars, ran, faults>>

ToolSucceeds(c) == call[c].at = "record" /\ Settle(c, "succeeded")
ToolFails(c)    == call[c].at \in {"check", "running", "record"} /\ Settle(c, "failed")

\* The transaction that settles the row fails, and its error is dropped.
OutcomeIsLost(c) ==
    /\ call[c].at \in {"check", "running", "record"} /\ faults < MaxFaults
    /\ faults' = faults + 1 /\ Ends(c)
    /\ UNCHANGED <<runVars, toolVars, invocation, ran>>

-----------------------------------------------------------------------------
(* Faults. *)

DamageTree(p) ==
    /\ tree[p] = "sound" /\ faults < MaxFaults
    /\ faults' = faults + 1 /\ tree' = [tree EXCEPT ![p] = "damaged"]
    /\ UNCHANGED <<runVars, package, install, grant, invocation, call, ran>>

\* RecoverInFlight: what the attempts in flight may have done decides.
Recovered == IF \E s \in Stage : stage[s].state \in {"in_progress", "interrupted"} /\ stage[s].external
             THEN "uncertain" ELSE "interrupted"

\* The process ends, with every helper in its Job Object, and starts again:
\* recoverToolWork runs in the transaction that recovers the run.
Restart ==
    /\ faults < MaxFaults /\ faults' = faults + 1
    /\ call' = [c \in Call |-> IdleCall]
    /\ install' = [i \in DOMAIN install |->
          IF install[i].state \in Working THEN [install[i] EXCEPT !.state = "interrupted"] ELSE install[i]]
    /\ invocation' = [i \in Identity |-> IF invocation[i] = "running" THEN "uncertain" ELSE invocation[i]]
    /\ IF run = "live"
       THEN /\ run' = Recovered
            /\ stage' = [s \in Stage |-> IF stage[s].state = "in_progress"
                                         THEN [stage[s] EXCEPT !.state = Recovered] ELSE stage[s]]
       ELSE UNCHANGED runVars
    /\ UNCHANGED <<package, grant, tree, ran>>

InstallStep(c) ==
    \/ \E s \in Stage \cup {NoStage}, p \in Package : InstallBegins(c, s, p)
    \/ PayloadIsFetched(c) \/ PayloadIsVerified(c) \/ ClearTarget(c) \/ PublishTree(c)
    \/ ProbeIsRecorded(c) \/ InstallCompletes(c) \/ InstallFails(c)
    \/ ActivateToolPackage(c) \/ CreateToolStageGrant(c)

InvocationStep(c) ==
    \/ \E s \in Stage, p \in Package, q \in Request : RunBegins(c, s, p, q)
    \/ ReserveToolInvocation(c) \/ LaunchTool(c) \/ ToolExits(c)
    \/ ToolSucceeds(c) \/ ToolFails(c) \/ OutcomeIsLost(c)

RunStep ==
    \/ \E s \in Stage : \/ StageBegins(s) \/ ApproveInstall(s)
                        \/ \E result \in {"completed", "failed"} : StageEnds(s, result)
    \/ RunCloses \/ Resume

ToolNext ==
    \/ \E c \in Call : InstallStep(c) \/ InvocationStep(c)
    \/ \E p \in Package : CreateToolPackage(p) \/ DisableToolPackage(p) \/ DamageTree(p)
    \/ RunStep \/ Restart

ToolSpec == ToolInit /\ [][ToolNext]_vars

-----------------------------------------------------------------------------
(* Properties. *)

\* Native code is run at most once for a request of a piece of work, whatever
\* fails, is lost or restarts, and however often the run is resumed: an attempt
\* that takes the work over never repeats what its predecessor may have done
\* (portable.go RunPortableForStage, tool_installations.go ReserveToolInvocation).
NativeRunsOnce ==
    \A p \in Package, q \in Request, s, o \in Stage :
        WorkOf[s] = WorkOf[o] =>
            ran[<<s, p, q>>] + (IF s = o THEN 0 ELSE ran[<<o, p, q>>]) <= 1

\* A package that has a ready installation has its directory: no second
\* installation, failed or cut short, ever moves the tree of a ready one away
\* (portable.go materializePortable).
ReadyToolIsInPlace ==
    \A i \in DOMAIN install : install[i].state = "ready" => tree[install[i].package] # "absent"
=============================================================================
