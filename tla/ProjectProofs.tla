----------------------------- MODULE ProjectProofs -----------------------------
(***************************************************************************)
(* What a run uses of its project and of Codex: the theorems of the tools  *)
(* (ToolInvocations), of the memory (ProjectMemory) and of the client of   *)
(* the App Server (CodexClient), each with its own invariant.              *)
(***************************************************************************)
EXTENDS ToolInvocations, ProjectMemory, CodexClient, FiniteSetTheorems, SequenceTheorems,
        TLAPS

(***************************************************************************)
(* Project tools, for every set of packages, attempts, requests and calls  *)
(* and for every bound: native code runs at most once for a request of a   *)
(* piece of work, and the directory of a ready tool is never taken away.   *)
(***************************************************************************)

-----------------------------------------------------------------------------
(* The inductive invariant. *)

RunCall == [at : {"reserve", "check", "running", "record"}, stage : Stage,
            package : Package, request : Request, inst : 1..MaxInstalls]
InstallCall == [at : {"fetch", "verify", "clear", "publish", "probe", "complete",
                      "activate", "grant"},
                stage : Stage \cup {NoStage}, package : Package, inst : 1..MaxInstalls,
                active : BOOLEAN]

Installing(c) ==
    call[c].at \in {"fetch", "verify", "clear", "publish", "probe", "complete"}

\* The state of the row a call is installing for.
StateAt(at) == CASE at = "fetch"    -> "downloading"
                 [] at = "verify"   -> "verifying"
                 [] at = "complete" -> "probing"
                 [] OTHER           -> "installing"

InstallsAreBounded == Len(install) <= MaxInstalls

\* At most one installation of a package is live.
OneLiveInstall ==
    \A i, j \in DOMAIN install :
        install[i].state \in Live /\ install[j].state \in Live
            /\ install[i].package = install[j].package => i = j

\* An installing call has its own row, in the state the call is at.
InstallIsOwned ==
    /\ \A c \in Call : Installing(c) =>
          /\ call[c].inst \in DOMAIN install
          /\ Row(c).package = call[c].package /\ Row(c).state = StateAt(call[c].at)
    /\ \A c, d \in Call : Installing(c) /\ Installing(d) /\ call[c].inst = call[d].inst => c = d

TreeIsPublished ==
    \A c \in Call : call[c].at \in {"probe", "complete"} => tree[call[c].package] # "absent"

InstallInv == OneLiveInstall /\ InstallIsOwned /\ TreeIsPublished /\ ReadyToolIsInPlace

\* An attempt that has not taken its work, or gave it up.
Free(s) == stage[s].state \in {"absent", "superseded"}

\* Of the attempts at one piece of work at most one has taken it ...
WorkHasOneOwner ==
    \A s, o \in Stage : WorkOf[s] = WorkOf[o] /\ ~Free(s) /\ ~Free(o) => s = o

\* ... and an attempt that may have acted outside never gives it up.
FreeIsClean == \A s \in Stage : Free(s) => ~stage[s].external

InvocationIsMarked ==
    \A i \in Identity : invocation[i] # "none" => stage[i[1]].external

RanIsRecorded ==
    \A i \in Identity : ran[i] \in {0, 1} /\ (ran[i] # 0 => invocation[i] # "none")

\* A call about to launch has the only reservation, and nothing ran under it.
LaunchIsFresh ==
    /\ \A c \in Call : call[c].at = "check" =>
          invocation[Key(c)] # "none" /\ ran[Key(c)] = 0
    /\ \A c, d \in Call : call[c].at = "check" /\ call[d].at = "check" /\ Key(c) = Key(d)
          => c = d

RunInv == WorkHasOneOwner /\ FreeIsClean /\ InvocationIsMarked /\ RanIsRecorded /\ LaunchIsFresh

TypeInv == ToolTypeOK /\ InstallsAreBounded

ToolInv == TypeInv /\ InstallInv /\ RunInv

-----------------------------------------------------------------------------
(* Calls and rows. *)

\* The kind of a call is told by where it stands.
LEMMA CallKind ==
    ASSUME ToolTypeOK, NEW c \in Call
    PROVE  /\ call[c].at \in {"fetch", "verify", "clear", "publish", "probe", "complete",
                             "activate", "grant"} => call[c] \in InstallCall
           /\ call[c].at \in {"reserve", "check", "running", "record"} => call[c] \in RunCall
           /\ call[c] = IdleCall \/ call[c] \in InstallCall \/ call[c] \in RunCall
    BY DEF ToolTypeOK, IdleCall, InstallCall, RunCall

\* A call that goes a step further keeps what it is about.
LEMMA StepsLemma ==
    ASSUME ToolTypeOK, NEW c \in Call, NEW at, Steps(c, at),
           \/ call[c] \in InstallCall /\ [call[c] EXCEPT !.at = at] \in InstallCall
           \/ call[c] \in RunCall /\ [call[c] EXCEPT !.at = at] \in RunCall
    PROVE  /\ call' \in [Call -> {IdleCall} \cup InstallCall \cup RunCall]
           /\ call'[c].at = at /\ call'[c].inst = call[c].inst
           /\ call'[c].package = call[c].package /\ call'[c].stage = call[c].stage
           /\ call[c] \in RunCall => Key(c)' = Key(c)
           /\ \A d \in Call \ {c} : call'[d] = call[d]
    BY DEF ToolTypeOK, Steps, InstallCall, RunCall, Key

LEMMA EndsLemma ==
    ASSUME ToolTypeOK, NEW c \in Call, Ends(c)
    PROVE  /\ call' \in [Call -> {IdleCall} \cup InstallCall \cup RunCall]
           /\ call'[c].at = "idle"
           /\ \A d \in Call \ {c} : call'[d] = call[d]
    BY DEF ToolTypeOK, Ends, InstallCall, RunCall, IdleCall

Rows == [package : Package, state : Live \cup {"failed", "interrupted"}]

\* A row is written in place.
LEMMA SetRowLemma ==
    ASSUME install \in Seq(Rows), NEW c, call[c].inst \in DOMAIN install,
           NEW s \in Live \cup {"failed", "interrupted"}, SetRow(c, s)
    PROVE  /\ install' \in Seq(Rows) /\ Len(install') = Len(install)
           /\ DOMAIN install' = DOMAIN install
           /\ \A i \in DOMAIN install :
                /\ install'[i].package = install[i].package
                /\ install'[i].state = IF i = call[c].inst THEN s ELSE install[i].state
<1> DEFINE k == call[c].inst
           row == [install[k] EXCEPT !.state = s]
<1>1. k \in 1..Len(install) /\ DOMAIN install = 1..Len(install)
    BY LenProperties
<1>2. install[k] \in Rows
    BY <1>1, ElementOfSeq
<1>3. row \in Rows /\ row.package = install[k].package /\ row.state = s
    BY <1>2 DEF Rows
<1>4. install' = [install EXCEPT ![k] = row]
    BY DEF SetRow
<1>5. /\ install' \in Seq(Rows) /\ Len(install') = Len(install)
      /\ \A j \in 1..Len(install) : install'[j] = IF j = k THEN row ELSE install[j]
    BY <1>1, <1>3, <1>4, ExceptSeq
<1>6. DOMAIN install' = DOMAIN install
    BY <1>1, <1>5, LenProperties
<1> QED BY <1>1, <1>3, <1>5, <1>6

-----------------------------------------------------------------------------
(* Type correctness. *)

CallTypes == {IdleCall} \cup InstallCall \cup RunCall

LEMMA TypeInit == ToolInit => TypeInv
    BY ToolAssumption, EmptySeq
    DEF ToolInit, TypeInv, ToolTypeOK, InstallsAreBounded, IdleCall

\* The part of the state that only one kind of step touches.
LEMMA TypeOfCall ==
    ASSUME TypeInv, UNCHANGED <<runVars, package, install, grant, invocation, tree, ran, faults>>,
           call' \in [Call -> CallTypes]
    PROVE  TypeInv'
    BY DEF TypeInv, ToolTypeOK, InstallsAreBounded, runVars, CallTypes, InstallCall, RunCall

LEMMA TypeOfAdvance ==
    ASSUME TypeInv, NEW c \in Call, NEW from, NEW to \in Live, NEW at, Advance(c, from, to, at),
           call[c].inst \in DOMAIN install,
           call[c] \in InstallCall, [call[c] EXCEPT !.at = at] \in InstallCall
    PROVE  TypeInv'
<1>1. install \in Seq(Rows)
    BY DEF TypeInv, ToolTypeOK, Rows
<1>2. install' \in Seq(Rows) /\ Len(install') = Len(install)
    BY <1>1, SetRowLemma DEF Advance
<1>3. call' \in [Call -> CallTypes]
    BY StepsLemma DEF Advance, TypeInv, CallTypes
<1> QED BY <1>2, <1>3
    DEF Advance, TypeInv, ToolTypeOK, InstallsAreBounded, Rows, runVars, CallTypes, InstallCall, RunCall

LEMMA InstallTypeStep ==
    ASSUME TypeInv, InstallIsOwned, NEW c \in Call, InstallStep(c) PROVE TypeInv'
<1> USE ToolAssumption
<1>0. call[c] \in CallTypes /\ install \in Seq(Rows)
    BY DEF TypeInv, ToolTypeOK, CallTypes, InstallCall, RunCall, Rows
<1>1. ASSUME NEW s \in Stage \cup {NoStage}, NEW p \in Package, InstallBegins(c, s, p)
      PROVE  TypeInv'
  <2> DEFINE New(at, i) == [at |-> at, stage |-> s, package |-> p, inst |-> i,
                            active |-> package[p] = "active"]
  <2>1. CASE /\ Len(install) < MaxInstalls
             /\ install' = Append(install, [package |-> p, state |-> "downloading"])
             /\ call' = [call EXCEPT ![c] = New("fetch", Len(install) + 1)]
    <3>1. Len(install) \in Nat
        BY <1>0, LenProperties
    <3>2. install' \in Seq(Rows) /\ Len(install') = Len(install) + 1
        BY <1>0, <2>1, AppendProperties DEF Rows, Live, Working
    <3>3. New("fetch", Len(install) + 1) \in InstallCall
        BY <2>1, <3>1 DEF InstallCall
    <3>4. call' \in [Call -> CallTypes]
        BY <2>1, <3>3 DEF CallTypes, TypeInv, ToolTypeOK, InstallCall, RunCall
    <3> QED BY <1>1, <2>1, <3>1, <3>2, <3>4
        DEF InstallBegins, TypeInv, ToolTypeOK, InstallsAreBounded, Rows, runVars, CallTypes,
            InstallCall, RunCall
  <2>2. CASE \E i \in LiveInstalls(p) :
                UNCHANGED install /\ call' = [call EXCEPT ![c] = New("activate", i)]
    <3>1. PICK i \in LiveInstalls(p) :
                UNCHANGED install /\ call' = [call EXCEPT ![c] = New("activate", i)]
        BY <2>2
    <3>2. i \in 1..MaxInstalls
        BY <1>0, <3>1, LenProperties DEF LiveInstalls, TypeInv, InstallsAreBounded
    <3>3. New("activate", i) \in InstallCall
        BY <3>2 DEF InstallCall
    <3>4. call' \in [Call -> CallTypes]
        BY <3>1, <3>3 DEF CallTypes, TypeInv, ToolTypeOK, InstallCall, RunCall
    <3> QED BY <1>1, <3>1, <3>4, TypeOfCall DEF InstallBegins
  <2> QED BY <1>1, <2>1, <2>2 DEF InstallBegins
<1>2. CASE PayloadIsFetched(c) \/ PayloadIsVerified(c) \/ ProbeIsRecorded(c) \/ InstallCompletes(c)
  <2>1. Installing(c) => /\ call[c].inst \in DOMAIN install /\ call[c] \in InstallCall
      BY CallKind DEF InstallIsOwned, Installing, TypeInv
  <2>2. \A at \in {"verify", "clear", "complete", "activate"} :
            call[c] \in InstallCall => [call[c] EXCEPT !.at = at] \in InstallCall
      BY DEF InstallCall
  <2>3. {"verifying", "installing", "probing", "ready"} \subseteq Live
      BY DEF Live, Working
  <2> QED BY <1>2, <2>1, <2>2, <2>3, TypeOfAdvance
      DEF PayloadIsFetched, PayloadIsVerified, ProbeIsRecorded, InstallCompletes, Installing
<1>3. CASE ClearTarget(c) \/ PublishTree(c)
  <2>1. call[c] \in InstallCall
      BY <1>3, CallKind DEF ClearTarget, PublishTree, TypeInv
  <2>2. \A at \in {"publish", "probe"} : [call[c] EXCEPT !.at = at] \in InstallCall
      BY <2>1 DEF InstallCall
  <2>3. call' \in [Call -> CallTypes]
      BY <1>3, <2>1, <2>2, StepsLemma DEF ClearTarget, PublishTree, TypeInv, CallTypes
  <2>4. tree' \in [Package -> {"absent", "sound", "damaged"}]
      BY <1>3 DEF ClearTarget, PublishTree, TypeInv, ToolTypeOK
  <2> QED BY <1>3, <2>3, <2>4
      DEF ClearTarget, PublishTree, TypeInv, ToolTypeOK, InstallsAreBounded, runVars, CallTypes,
          InstallCall, RunCall
<1>4. CASE InstallFails(c)
  <2>1. call[c].inst \in DOMAIN install
      BY <1>4 DEF InstallIsOwned, Installing, InstallFails
  <2>2. install' \in Seq(Rows) /\ Len(install') = Len(install)
      BY <1>0, <1>4, <2>1, SetRowLemma DEF InstallFails
  <2>3. call' \in [Call -> CallTypes]
      BY <1>4, EndsLemma DEF InstallFails, TypeInv, CallTypes
  <2> QED BY <1>4, <2>2, <2>3
      DEF InstallFails, TypeInv, ToolTypeOK, InstallsAreBounded, Rows, runVars, CallTypes,
          InstallCall, RunCall
<1>5. CASE ActivateToolPackage(c)
  <2>1. call[c] \in InstallCall
      BY <1>5, CallKind DEF ActivateToolPackage, TypeInv
  <2>2. [call[c] EXCEPT !.at = "grant"] \in InstallCall
      BY <2>1 DEF InstallCall
  <2>3. call' \in [Call -> CallTypes]
      BY <1>5, <2>1, <2>2, StepsLemma, EndsLemma DEF ActivateToolPackage, TypeInv, CallTypes
  <2>4. package' \in [Package -> {"absent", "pending_approval", "active", "disabled"}]
      BY <1>5 DEF ActivateToolPackage, Activated, TypeInv, ToolTypeOK
  <2> QED BY <1>5, <2>3, <2>4
      DEF ActivateToolPackage, TypeInv, ToolTypeOK, InstallsAreBounded, runVars, CallTypes,
          InstallCall, RunCall
<1>6. CASE CreateToolStageGrant(c)
  <2>1. call[c] \in InstallCall
      BY <1>6, CallKind DEF CreateToolStageGrant, TypeInv
  <2>2. grant' \subseteq Stage \X Package \X (1..MaxInstalls)
      BY <1>6, <2>1 DEF CreateToolStageGrant, GrantKey, TypeInv, ToolTypeOK, InstallCall
  <2>3. call' \in [Call -> CallTypes]
      BY <1>6, EndsLemma DEF CreateToolStageGrant, TypeInv, CallTypes
  <2> QED BY <1>6, <2>2, <2>3
      DEF CreateToolStageGrant, TypeInv, ToolTypeOK, InstallsAreBounded, runVars, CallTypes,
          InstallCall, RunCall
<1> QED BY <1>1, <1>2, <1>3, <1>4, <1>5, <1>6 DEF InstallStep

AttemptStates == {"absent", "in_progress", "completed", "failed",
                  "interrupted", "uncertain", "superseded"}
Attempts == [state : AttemptStates, external : BOOLEAN]

\* Marking an attempt and moving it on keep the table an attempts table.
LEMMA AttemptRows ==
    ASSUME stage \in [Stage -> Attempts], NEW s \in Stage
    PROVE  /\ [stage EXCEPT ![s].external = TRUE] \in [Stage -> Attempts]
           /\ \A state \in AttemptStates :
                /\ [stage EXCEPT ![s].state = state] \in [Stage -> Attempts]
                /\ [stage[s] EXCEPT !.state = state] \in Attempts
<1>1. /\ [stage[s] EXCEPT !.external = TRUE] \in Attempts
      /\ \A state \in AttemptStates : [stage[s] EXCEPT !.state = state] \in Attempts
    BY DEF Attempts
<1> QED BY <1>1

LEMMA InvocationTypeStep ==
    ASSUME TypeInv, NEW c \in Call, InvocationStep(c) PROVE TypeInv'
<1> USE ToolAssumption
<1>1. ASSUME NEW s \in Stage, NEW p \in Package, NEW q \in Request, RunBegins(c, s, p, q)
      PROVE  TypeInv'
  <2>1. PICK i \in Latest(p) :
            call' = [call EXCEPT ![c] = [at |-> "reserve", stage |-> s, package |-> p,
                                         request |-> q, inst |-> i]]
      BY <1>1 DEF RunBegins
  <2>2. i \in 1..MaxInstalls
      BY <2>1, LenProperties DEF Latest, TypeInv, ToolTypeOK, InstallsAreBounded
  <2>3. call' \in [Call -> CallTypes]
      BY <2>1, <2>2 DEF CallTypes, TypeInv, ToolTypeOK, InstallCall, RunCall
  <2> QED BY <1>1, <2>3, TypeOfCall DEF RunBegins, runVars, toolVars
<1>2. CASE ReserveToolInvocation(c)
  <2>1. call[c] \in RunCall
      BY <1>2, CallKind DEF ReserveToolInvocation, TypeInv
  <2>2. [call[c] EXCEPT !.at = "check"] \in RunCall /\ Key(c) \in Identity
      BY <2>1 DEF RunCall, Key, Identity
  <2>3. call' \in [Call -> CallTypes]
      BY <1>2, <2>1, <2>2, StepsLemma, EndsLemma DEF ReserveToolInvocation, TypeInv, CallTypes
  <2>4. invocation' \in [Identity -> {"none", "running", "succeeded", "failed", "uncertain"}]
      BY <1>2, <2>2 DEF ReserveToolInvocation, TypeInv, ToolTypeOK
  <2>5. stage' \in [Stage -> Attempts]
    <3>1. stage \in [Stage -> Attempts] /\ call[c].stage \in Stage
        BY <2>1 DEF TypeInv, ToolTypeOK, Attempts, AttemptStates, RunCall
    <3> QED BY <1>2, <3>1, AttemptRows DEF ReserveToolInvocation
  <2> QED BY <1>2, <2>3, <2>4, <2>5
      DEF ReserveToolInvocation, TypeInv, ToolTypeOK, Attempts, AttemptStates, InstallsAreBounded, toolVars, CallTypes,
          InstallCall, RunCall
<1>3. CASE LaunchTool(c)
  <2>1. call[c] \in RunCall
      BY <1>3, CallKind DEF LaunchTool, TypeInv
  <2>2. [call[c] EXCEPT !.at = "running"] \in RunCall /\ Key(c) \in Identity
      BY <2>1 DEF RunCall, Key, Identity
  <2>3. call' \in [Call -> CallTypes]
      BY <1>3, <2>1, <2>2, StepsLemma DEF LaunchTool, TypeInv, CallTypes
  <2>4. ran' \in [Identity -> Nat]
      BY <1>3, <2>2 DEF LaunchTool, TypeInv, ToolTypeOK
  <2> QED BY <1>3, <2>3, <2>4
      DEF LaunchTool, TypeInv, ToolTypeOK, InstallsAreBounded, runVars, toolVars, CallTypes,
          InstallCall, RunCall
<1>4. CASE ToolExits(c)
  <2>1. call[c] \in RunCall
      BY <1>4, CallKind DEF ToolExits, TypeInv
  <2>2. [call[c] EXCEPT !.at = "record"] \in RunCall
      BY <2>1 DEF RunCall
  <2>3. call' \in [Call -> CallTypes]
      BY <1>4, <2>1, <2>2, StepsLemma DEF ToolExits, TypeInv, CallTypes
  <2> QED BY <1>4, <2>3, TypeOfCall DEF ToolExits, runVars, toolVars
<1>5. ASSUME NEW result \in {"succeeded", "failed"}, Settle(c, result) PROVE TypeInv'
  <2>1. call' \in [Call -> CallTypes]
      BY <1>5, EndsLemma DEF Settle, TypeInv, CallTypes
  <2>2. invocation' \in [Identity -> {"none", "running", "succeeded", "failed", "uncertain"}]
      BY <1>5 DEF Settle, TypeInv, ToolTypeOK
  <2> QED BY <1>5, <2>1, <2>2
      DEF Settle, TypeInv, ToolTypeOK, InstallsAreBounded, runVars, toolVars, CallTypes,
          InstallCall, RunCall
<1>6. CASE OutcomeIsLost(c)
  <2>1. call' \in [Call -> CallTypes]
      BY <1>6, EndsLemma DEF OutcomeIsLost, TypeInv, CallTypes
  <2> QED BY <1>6, <2>1
      DEF OutcomeIsLost, TypeInv, ToolTypeOK, InstallsAreBounded, runVars, toolVars, CallTypes,
          InstallCall, RunCall
<1> QED BY <1>1, <1>2, <1>3, <1>4, <1>5, <1>6 DEF InvocationStep, ToolSucceeds, ToolFails

\* A restart closes the rows in flight and forgets the calls.
LEMMA RestartRows ==
    ASSUME TypeInv, Restart
    PROVE  /\ install' \in Seq(Rows) /\ Len(install') = Len(install)
           /\ DOMAIN install' = DOMAIN install
           /\ \A i \in DOMAIN install :
                /\ install'[i].package = install[i].package
                /\ install'[i].state = IF install[i].state \in Working THEN "interrupted"
                                       ELSE install[i].state
<1>1. /\ install \in Seq(Rows) /\ Len(install) \in Nat /\ DOMAIN install = 1..Len(install)
      /\ \A i \in DOMAIN install : install[i] \in Rows
  <2>1. install \in Seq(Rows)
      BY DEF TypeInv, ToolTypeOK, Rows
  <2> QED BY <2>1, LenProperties, ElementOfSeq
<1>2. \A i \in DOMAIN install :
        /\ install'[i] \in Rows
        /\ install'[i].package = install[i].package
        /\ install'[i].state = IF install[i].state \in Working THEN "interrupted"
                               ELSE install[i].state
    BY <1>1 DEF Restart, Rows
<1>3. install' \in [1..Len(install) -> Rows]
    BY <1>1, <1>2 DEF Restart
<1>4. install' \in Seq(Rows) /\ Len(install') = Len(install)
    BY <1>1, <1>3
<1> QED BY <1>1, <1>2, <1>3, <1>4

LEMMA TypeStep == TypeInv /\ InstallIsOwned /\ [ToolNext]_vars => TypeInv'
<1> SUFFICES ASSUME TypeInv, InstallIsOwned, [ToolNext]_vars PROVE TypeInv'
    OBVIOUS
<1> USE ToolAssumption
<1>1. ASSUME NEW c \in Call, InstallStep(c) \/ InvocationStep(c) PROVE TypeInv'
    BY <1>1, InstallTypeStep, InvocationTypeStep
<1>2. ASSUME NEW p \in Package, CreateToolPackage(p) \/ DisableToolPackage(p) \/ DamageTree(p)
      PROVE  TypeInv'
  <2>1. package' \in [Package -> {"absent", "pending_approval", "active", "disabled"}]
      BY <1>2 DEF CreateToolPackage, DisableToolPackage, DamageTree, TypeInv, ToolTypeOK
  <2>2. tree' \in [Package -> {"absent", "sound", "damaged"}] /\ faults' \in 0..MaxFaults
      BY <1>2 DEF CreateToolPackage, DisableToolPackage, DamageTree, TypeInv, ToolTypeOK
  <2>3. UNCHANGED <<run, stage, install, grant, invocation, call, ran>>
      BY <1>2 DEF CreateToolPackage, DisableToolPackage, DamageTree, runVars
  <2> QED BY <2>1, <2>2, <2>3 DEF TypeInv, ToolTypeOK, InstallsAreBounded
<1>3. CASE RunStep
  <2>0. stage \in [Stage -> Attempts]
      BY DEF TypeInv, ToolTypeOK, Attempts, AttemptStates
  <2>1. run' \in {"live", "interrupted", "uncertain", "ended"}
      BY <1>3 DEF RunStep, StageBegins, ApproveInstall, StageEnds, RunCloses, Resume, TypeInv, ToolTypeOK
  <2>2. stage' \in [Stage -> Attempts]
    <3>1. ASSUME NEW s \in Stage, NEW result \in {"completed", "failed"},
                 StageBegins(s) \/ ApproveInstall(s) \/ StageEnds(s, result)
          PROVE  stage' \in [Stage -> Attempts]
      <4>1. {"in_progress", result} \subseteq AttemptStates
          BY DEF AttemptStates
      <4>2. stage' \in {[stage EXCEPT ![s].state = "in_progress"], [stage EXCEPT ![s].state = result],
                       [stage EXCEPT ![s].external = TRUE]}
          BY <3>1 DEF StageBegins, ApproveInstall, StageEnds
      <4>3. /\ [stage EXCEPT ![s].state = "in_progress"] \in [Stage -> Attempts]
            /\ [stage EXCEPT ![s].state = result] \in [Stage -> Attempts]
            /\ [stage EXCEPT ![s].external = TRUE] \in [Stage -> Attempts]
          BY <2>0, <4>1, AttemptRows
      <4> QED BY <4>2, <4>3
    <3>2. CASE Resume
        BY <2>0, <3>2, AttemptRows DEF Resume, AttemptStates
    <3> QED BY <1>3, <2>0, <3>1, <3>2 DEF RunStep, RunCloses
  <2>3. UNCHANGED <<package, install, grant, tree, invocation, call, ran, faults>>
      BY <1>3 DEF RunStep, StageBegins, ApproveInstall, StageEnds, RunCloses, Resume, toolVars
  <2> QED BY <2>1, <2>2, <2>3
      DEF TypeInv, ToolTypeOK, Attempts, AttemptStates, InstallsAreBounded
<1>4. CASE Restart
  <2>1. Recovered \in {"interrupted", "uncertain"}
      BY DEF Recovered
  <2>2. run' \in {"live", "interrupted", "uncertain", "ended"}
      BY <1>4, <2>1 DEF Restart, runVars, TypeInv, ToolTypeOK
  <2>3. stage' \in [Stage -> Attempts]
    <3> DEFINE r == Recovered
    <3>1. r \in {"interrupted", "uncertain"} 
        BY <2>1
    <3>2. \/ stage' = stage
          \/ stage' = [s \in Stage |-> IF stage[s].state = "in_progress"
                                       THEN [stage[s] EXCEPT !.state = r] ELSE stage[s]]
        BY <1>4 DEF Restart, runVars
    <3> HIDE DEF r
    <3>3. stage \in [Stage -> Attempts] /\ r \in AttemptStates
        BY <3>1 DEF TypeInv, ToolTypeOK, Attempts, AttemptStates
    <3>4. \A s \in Stage : [stage[s] EXCEPT !.state = r] \in Attempts
        BY <3>3, AttemptRows
    <3> QED BY <3>2, <3>3, <3>4
  <2>4. install' \in Seq(Rows) /\ Len(install') = Len(install)
      BY <1>4, RestartRows
  <2>5. call' \in [Call -> CallTypes]
      BY <1>4 DEF Restart, CallTypes
  <2>6. invocation' \in [Identity -> {"none", "running", "succeeded", "failed", "uncertain"}]
      BY <1>4 DEF Restart, TypeInv, ToolTypeOK
  <2> QED BY <1>4, <2>2, <2>3, <2>4, <2>5, <2>6
      DEF Restart, TypeInv, ToolTypeOK, Attempts, AttemptStates, InstallsAreBounded, Rows,
          CallTypes, InstallCall, RunCall
<1>5. CASE UNCHANGED vars
    BY <1>5 DEF vars, TypeInv, ToolTypeOK, InstallsAreBounded
<1> QED BY <1>1, <1>2, <1>3, <1>4, <1>5 DEF ToolNext

-----------------------------------------------------------------------------
(* Installations. *)

\* Steps that leave rows, trees and installing calls alone.
LEMMA InstallFrame ==
    ASSUME InstallInv, UNCHANGED <<install, tree>>,
           \A d \in Call : call'[d] = call[d] \/ ~Installing(d)'
    PROVE  InstallInv'
    BY DEF InstallInv, OneLiveInstall, InstallIsOwned, TreeIsPublished, ReadyToolIsInPlace,
           Installing, Row

\* An installation goes on: its row stays live, and is ready only with its tree.
LEMMA InstallAdvances ==
    ASSUME TypeInv, InstallInv, NEW c \in Call, Installing(c), NEW to \in Live, NEW at,
           SetRow(c, to), Steps(c, at), UNCHANGED tree,
           [call[c] EXCEPT !.at = at] \in InstallCall,
           at \in {"verify", "clear", "complete"} => to = StateAt(at),
           at \notin {"fetch", "publish", "probe"},
           to = "ready" => call[c].at = "complete",
           at = "complete" => call[c].at = "probe"
    PROVE  InstallInv'
<1> DEFINE k == call[c].inst
<1>1. /\ k \in DOMAIN install /\ call[c] \in InstallCall
      /\ install[k].package = call[c].package /\ install[k].state \in Live
    BY CallKind DEF InstallInv, InstallIsOwned, Installing, Row, TypeInv, StateAt, Live, Working
<1>2. /\ DOMAIN install' = DOMAIN install
      /\ \A i \in DOMAIN install :
            /\ install'[i].package = install[i].package
            /\ install'[i].state = IF i = k THEN to ELSE install[i].state
    BY <1>1, SetRowLemma DEF TypeInv, ToolTypeOK, Rows, Live
<1>3. /\ call'[c].at = at /\ call'[c].inst = k /\ call'[c].package = call[c].package
      /\ \A d \in Call \ {c} : call'[d] = call[d]
    BY <1>1, StepsLemma DEF TypeInv
<1> HIDE DEF k
<1>4. OneLiveInstall'
    BY <1>1, <1>2 DEF InstallInv, OneLiveInstall
<1>5. \A d \in Call \ {c} : Installing(d) => call[d].inst # k
    BY DEF k, InstallInv, InstallIsOwned
<1>6. InstallIsOwned'
  <2>1. ASSUME NEW d \in Call, Installing(d)'
        PROVE  /\ call'[d].inst \in DOMAIN install'
               /\ Row(d)'.package = call'[d].package /\ Row(d)'.state = StateAt(call'[d].at)
    <3>1. CASE d = c
        BY <1>1, <1>2, <1>3, <2>1, <3>1 DEF Installing, Row, StateAt
    <3>2. CASE d # c
        BY <1>2, <1>3, <1>5, <2>1, <3>2 DEF Installing, Row, InstallInv, InstallIsOwned
    <3> QED BY <3>1, <3>2
  <2>2. \A d, e \in Call : Installing(d)' /\ Installing(e)' /\ call'[d].inst = call'[e].inst => d = e
      BY <1>3, <1>5 DEF Installing, InstallInv, InstallIsOwned
  <2> QED BY <2>1, <2>2 DEF InstallIsOwned
<1>7. TreeIsPublished'
    BY <1>3 DEF InstallInv, TreeIsPublished
<1>8. ReadyToolIsInPlace'
  <2>1. to = "ready" => tree[install[k].package] # "absent"
      BY <1>1 DEF InstallInv, TreeIsPublished
  <2> QED BY <1>1, <1>2, <2>1 DEF InstallInv, ReadyToolIsInPlace
<1> QED BY <1>4, <1>6, <1>7, <1>8 DEF InstallInv

\* The directory of an installation belongs to its call alone.
LEMMA TreeStep ==
    ASSUME TypeInv, InstallInv, NEW c \in Call, ClearTarget(c) \/ PublishTree(c)
    PROVE  InstallInv'
<1> DEFINE k == call[c].inst
           p == call[c].package
<1>1. /\ k \in DOMAIN install /\ call[c] \in InstallCall /\ p \in Package /\ Installing(c)
      /\ install[k].package = p /\ install[k].state = "installing"
    BY CallKind DEF InstallInv, InstallIsOwned, Installing, Row, TypeInv, StateAt, ClearTarget,
                    PublishTree, InstallCall
<1>2. PICK at \in {"publish", "probe"} :
        /\ Steps(c, at) /\ UNCHANGED install
        /\ tree' = [tree EXCEPT ![p] = IF at = "publish" THEN "absent" ELSE "sound"]
    BY DEF ClearTarget, PublishTree
<1>3. [call[c] EXCEPT !.at = at] \in InstallCall
    BY <1>1 DEF InstallCall
<1>4. /\ call'[c].at = at /\ call'[c].inst = k /\ call'[c].package = p
      /\ \A d \in Call \ {c} : call'[d] = call[d]
    BY <1>1, <1>2, <1>3, StepsLemma DEF TypeInv
<1>5. /\ p \in DOMAIN tree
      /\ \A o \in Package : o # p => tree'[o] = tree[o]
      /\ at = "probe" => tree'[p] = "sound"
    BY <1>1, <1>2 DEF TypeInv, ToolTypeOK
<1> HIDE DEF k, p
<1>6. OneLiveInstall'
    BY <1>2 DEF InstallInv, OneLiveInstall
<1>7. InstallIsOwned'
  <2>1. ASSUME NEW d \in Call, Installing(d)'
        PROVE  /\ call'[d].inst \in DOMAIN install'
               /\ Row(d)'.package = call'[d].package /\ Row(d)'.state = StateAt(call'[d].at)
    <3>1. CASE d = c
        BY <1>1, <1>2, <1>4, <3>1 DEF Row, StateAt
    <3>2. CASE d # c
        BY <1>2, <1>4, <2>1, <3>2 DEF Installing, Row, InstallInv, InstallIsOwned
    <3> QED BY <3>1, <3>2
  <2>2. \A d, e \in Call : Installing(d)' /\ Installing(e)' /\ call'[d].inst = call'[e].inst => d = e
      BY <1>1, <1>4 DEF Installing, InstallInv, InstallIsOwned, k
  <2> QED BY <2>1, <2>2 DEF InstallIsOwned
<1>8. \A i \in DOMAIN install : install[i].package = p /\ install[i].state \in Live => i = k
    BY <1>1 DEF InstallInv, OneLiveInstall, Live, Working
<1>9. TreeIsPublished'
  <2>1. ASSUME NEW d \in Call \ {c}, call[d].at \in {"probe", "complete"}
        PROVE  call[d].package # p /\ call[d].package \in Package
    <3>1. /\ Installing(d) /\ call[d].inst \in DOMAIN install /\ call[d] \in InstallCall
          /\ install[call[d].inst].package = call[d].package
          /\ install[call[d].inst].state \in Live
        BY <2>1, CallKind DEF Installing, InstallInv, InstallIsOwned, Row, StateAt, Live, Working, TypeInv
    <3>2. call[d].inst # k
        BY <1>1, <3>1 DEF InstallInv, InstallIsOwned, k
    <3> QED BY <1>8, <3>1, <3>2 DEF InstallCall
  <2>2. ASSUME NEW d \in Call \ {c}, call'[d].at \in {"probe", "complete"}
        PROVE  tree'[call'[d].package] # "absent"
      BY <1>4, <1>5, <2>1, <2>2 DEF InstallInv, TreeIsPublished
  <2>3. call'[c].at \in {"probe", "complete"} => tree'[call'[c].package] # "absent"
      BY <1>4, <1>5
  <2> QED BY <2>2, <2>3 DEF TreeIsPublished
<1>10. ReadyToolIsInPlace'
  <2>1. ASSUME NEW i \in DOMAIN install, install[i].state = "ready"
        PROVE  install[i].package # p /\ install[i].package \in Package
    <3>1. install[i] \in Rows
      <4>1. install \in Seq(Rows)
          BY DEF TypeInv, ToolTypeOK, Rows
      <4> QED BY <4>1, LenProperties, ElementOfSeq
    <3> QED BY <1>1, <1>8, <2>1, <3>1 DEF Rows, Live
  <2> QED BY <1>2, <1>5, <2>1 DEF InstallInv, ReadyToolIsInPlace
<1> QED BY <1>6, <1>7, <1>9, <1>10 DEF InstallInv

\* A new installation is the only live one of its package.
LEMMA InstallBeginsStep ==
    ASSUME TypeInv, InstallInv, NEW c \in Call, NEW s \in Stage \cup {NoStage}, NEW p \in Package,
           InstallBegins(c, s, p)
    PROVE  InstallInv'
<1> DEFINE New(at, i) == [at |-> at, stage |-> s, package |-> p, inst |-> i,
                          active |-> package[p] = "active"]
           n == Len(install) + 1
<1>1. CASE \E i \in LiveInstalls(p) :
              UNCHANGED install /\ call' = [call EXCEPT ![c] = New("activate", i)]
  <2>1. \A d \in Call : call'[d] = call[d] \/ ~Installing(d)'
      BY <1>1 DEF TypeInv, ToolTypeOK, Installing
  <2> QED BY <1>1, <2>1, InstallFrame DEF InstallBegins
<1>2. CASE /\ LiveInstalls(p) = {}
           /\ install' = Append(install, [package |-> p, state |-> "downloading"])
           /\ call' = [call EXCEPT ![c] = New("fetch", n)]
  <2>1. install \in Seq(Rows) /\ [package |-> p, state |-> "downloading"] \in Rows
      BY DEF TypeInv, ToolTypeOK, Rows, Live, Working
  <2>2. /\ n \in Nat /\ n \notin DOMAIN install /\ DOMAIN install' = DOMAIN install \cup {n}
        /\ install'[n] = [package |-> p, state |-> "downloading"]
        /\ \A i \in DOMAIN install : install'[i] = install[i]
    <3>1. /\ install' \in Seq(Rows) /\ Len(install') = Len(install) + 1
          /\ \A i \in 1..Len(install) : install'[i] = install[i]
          /\ install'[Len(install) + 1] = [package |-> p, state |-> "downloading"]
        BY <1>2, <2>1, AppendProperties
    <3>2. /\ Len(install) \in Nat /\ DOMAIN install = 1..Len(install)
          /\ DOMAIN install' = 1..(Len(install) + 1)
        BY <2>1, <3>1, LenProperties
    <3> QED BY <3>1, <3>2
  <2>3. /\ call'[c] = New("fetch", n)
        /\ \A d \in Call \ {c} : call'[d] = call[d]
      BY <1>2 DEF TypeInv, ToolTypeOK
  <2>4. UNCHANGED tree
      BY DEF InstallBegins
  <2> HIDE DEF n
  <2>5. \A i \in DOMAIN install : ~(install[i].package = p /\ install[i].state \in Live)
      BY <1>2 DEF LiveInstalls
  <2>6. OneLiveInstall'
      BY <2>2, <2>5 DEF InstallInv, OneLiveInstall
  <2>7. \A d \in Call \ {c} : Installing(d)' => Installing(d) /\ call[d].inst # n
      BY <2>2, <2>3 DEF Installing, InstallInv, InstallIsOwned
  <2>8. InstallIsOwned'
    <3>1. ASSUME NEW d \in Call, Installing(d)'
          PROVE  /\ call'[d].inst \in DOMAIN install'
                 /\ Row(d)'.package = call'[d].package /\ Row(d)'.state = StateAt(call'[d].at)
      <4>1. CASE d = c
          BY <2>2, <2>3, <4>1 DEF Row, StateAt
      <4>2. CASE d # c
          BY <2>2, <2>3, <2>7, <3>1, <4>2 DEF Row, InstallInv, InstallIsOwned
      <4> QED BY <4>1, <4>2
    <3>2. \A d, e \in Call : Installing(d)' /\ Installing(e)' /\ call'[d].inst = call'[e].inst => d = e
        BY <2>3, <2>7 DEF InstallInv, InstallIsOwned
    <3> QED BY <3>1, <3>2 DEF InstallIsOwned
  <2>9. TreeIsPublished'
      BY <2>3, <2>4 DEF InstallInv, TreeIsPublished
  <2>10. ReadyToolIsInPlace'
      BY <2>2, <2>4 DEF InstallInv, ReadyToolIsInPlace
  <2> QED BY <2>6, <2>8, <2>9, <2>10 DEF InstallInv
<1> QED BY <1>1, <1>2 DEF InstallBegins

\* No step of an installation, an invocation, the run or a restart leaves a
\* ready tool without its directory, or two installations of it live.
LEMMA InstallInvStep == TypeInv /\ InstallInv /\ [ToolNext]_vars => InstallInv'
<1> SUFFICES ASSUME TypeInv, InstallInv, [ToolNext]_vars PROVE InstallInv'
    OBVIOUS
<1>1. ASSUME NEW c \in Call, InstallStep(c) PROVE InstallInv'
  <2>1. CASE PayloadIsFetched(c) \/ PayloadIsVerified(c) \/ ProbeIsRecorded(c) \/ InstallCompletes(c)
    <3>1. Installing(c) /\ call[c] \in InstallCall /\ UNCHANGED tree
        BY <2>1, CallKind
        DEF PayloadIsFetched, PayloadIsVerified, ProbeIsRecorded, InstallCompletes, Installing,
            Advance, TypeInv
    <3>2. \A at \in {"verify", "clear", "complete", "activate"} :
              [call[c] EXCEPT !.at = at] \in InstallCall
        BY <3>1 DEF InstallCall
    <3>3. {"verifying", "installing", "probing", "ready"} \subseteq Live
        BY DEF Live, Working
    <3>4. CASE PayloadIsFetched(c)
        BY <3>1, <3>2, <3>3, <3>4, InstallAdvances DEF PayloadIsFetched, Advance, StateAt
    <3>5. CASE PayloadIsVerified(c)
        BY <3>1, <3>2, <3>3, <3>5, InstallAdvances DEF PayloadIsVerified, Advance, StateAt
    <3>6. CASE ProbeIsRecorded(c)
        BY <3>1, <3>2, <3>3, <3>6, InstallAdvances DEF ProbeIsRecorded, Advance, StateAt
    <3>7. CASE InstallCompletes(c)
        BY <3>1, <3>2, <3>3, <3>7, InstallAdvances DEF InstallCompletes, Advance, StateAt
    <3> QED BY <2>1, <3>4, <3>5, <3>6, <3>7
  <2>2. CASE InstallFails(c)
    <3> DEFINE k == call[c].inst
    <3>1. k \in DOMAIN install /\ Installing(c)
        BY <2>2 DEF InstallInv, InstallIsOwned, Installing, InstallFails
    <3>2. /\ DOMAIN install' = DOMAIN install
          /\ \A i \in DOMAIN install :
                /\ install'[i].package = install[i].package
                /\ install'[i].state = IF i = k THEN "failed" ELSE install[i].state
      <4>1. install \in Seq(Rows) /\ SetRow(c, "failed")
          BY <2>2 DEF TypeInv, ToolTypeOK, Rows, InstallFails
      <4> QED BY <3>1, <4>1, SetRowLemma
    <3>3. /\ ~Installing(c)' /\ \A d \in Call \ {c} : call'[d] = call[d]
        BY <2>2, EndsLemma DEF TypeInv, InstallFails, Installing
    <3>4. UNCHANGED tree
        BY <2>2 DEF InstallFails
    <3>5. \A d \in Call \ {c} : Installing(d) => call[d].inst # k
        BY <3>1 DEF InstallInv, InstallIsOwned
    <3> HIDE DEF k
    <3>6. OneLiveInstall'
        BY <3>2 DEF InstallInv, OneLiveInstall, Live, Working
    <3>7. InstallIsOwned'
        BY <3>2, <3>3, <3>5 DEF InstallInv, InstallIsOwned, Installing, Row
    <3>8. TreeIsPublished'
        BY <3>3, <3>4 DEF InstallInv, TreeIsPublished, Installing
    <3>9. ReadyToolIsInPlace'
        BY <3>2, <3>4 DEF InstallInv, ReadyToolIsInPlace
    <3> QED BY <3>6, <3>7, <3>8, <3>9 DEF InstallInv
  <2>3. CASE ActivateToolPackage(c) \/ CreateToolStageGrant(c)
    <3>1. call[c] \in InstallCall /\ UNCHANGED <<install, tree>>
        BY <2>3, CallKind DEF ActivateToolPackage, CreateToolStageGrant, TypeInv
    <3>2. [call[c] EXCEPT !.at = "grant"] \in InstallCall
        BY <3>1 DEF InstallCall
    <3>3. Steps(c, "grant") \/ Ends(c)
        BY <2>3 DEF ActivateToolPackage, CreateToolStageGrant
    <3>4. call'[c].at \in {"grant", "idle"} /\ \A d \in Call \ {c} : call'[d] = call[d]
        BY <3>1, <3>2, <3>3, StepsLemma, EndsLemma DEF TypeInv
    <3> QED BY <3>1, <3>4, InstallFrame DEF Installing
  <2> QED BY <1>1, <2>1, <2>2, <2>3, InstallBeginsStep, TreeStep DEF InstallStep
<1>2. ASSUME NEW c \in Call, InvocationStep(c) PROVE InstallInv'
  <2>1. UNCHANGED <<install, tree>>
      BY <1>2
      DEF InvocationStep, RunBegins, ReserveToolInvocation, LaunchTool, ToolExits, ToolSucceeds,
          ToolFails, Settle, OutcomeIsLost, toolVars
  <2>2. \A d \in Call \ {c} : call'[d] = call[d]
      BY <1>2
      DEF InvocationStep, RunBegins, ReserveToolInvocation, LaunchTool, ToolExits, ToolSucceeds,
          ToolFails, Settle, OutcomeIsLost, Steps, Ends, TypeInv, ToolTypeOK
  <2>3. ~Installing(c)'
    <3>1. ASSUME NEW s, NEW p, NEW q, RunBegins(c, s, p, q) PROVE ~Installing(c)'
        BY <3>1 DEF RunBegins, Installing, TypeInv, ToolTypeOK
    <3>2. CASE Ends(c)
        BY <3>2, EndsLemma DEF Installing, TypeInv
    <3>3. ASSUME NEW at \in {"check", "running", "record"}, Steps(c, at),
                 call[c].at \in {"reserve", "check", "running"}
          PROVE  ~Installing(c)'
      <4>1. call[c] \in RunCall
          BY <3>3, CallKind DEF TypeInv
      <4>2. [call[c] EXCEPT !.at = at] \in RunCall
          BY <4>1 DEF RunCall
      <4> QED BY <3>3, <4>1, <4>2, StepsLemma DEF TypeInv, Installing
    <3> QED BY <1>2, <3>1, <3>2, <3>3
        DEF InvocationStep, ReserveToolInvocation, LaunchTool, ToolExits, ToolSucceeds, ToolFails,
            Settle, OutcomeIsLost
  <2> QED BY <2>1, <2>2, <2>3, InstallFrame
<1>3. ASSUME NEW p \in Package, CreateToolPackage(p) \/ DisableToolPackage(p)
      PROVE  InstallInv'
    BY <1>3, InstallFrame DEF CreateToolPackage, DisableToolPackage
<1>4. ASSUME NEW p \in Package, DamageTree(p) PROVE InstallInv'
  <2>1. /\ UNCHANGED <<install, call>>
        /\ \A o \in Package : tree[o] # "absent" => tree'[o] # "absent"
      BY <1>4 DEF DamageTree, TypeInv, ToolTypeOK
  <2>2. OneLiveInstall' /\ InstallIsOwned'
      BY <2>1 DEF InstallInv, OneLiveInstall, InstallIsOwned, Installing, Row
  <2>3. TreeIsPublished'
    <3>1. \A c \in Call : call[c].at \in {"probe", "complete"} => call[c].package \in Package
        BY CallKind DEF TypeInv, InstallCall
    <3> QED BY <2>1, <3>1 DEF InstallInv, TreeIsPublished
  <2>4. ReadyToolIsInPlace'
    <3>1. install \in Seq(Rows)
        BY DEF TypeInv, ToolTypeOK, Rows
    <3>2. \A i \in DOMAIN install : install[i] \in Rows
        BY <3>1, LenProperties, ElementOfSeq
    <3> QED BY <2>1, <3>2 DEF InstallInv, ReadyToolIsInPlace, Rows
  <2> QED BY <2>2, <2>3, <2>4 DEF InstallInv
<1>5. CASE RunStep
    BY <1>5, InstallFrame
    DEF RunStep, StageBegins, ApproveInstall, StageEnds, RunCloses, Resume, toolVars
<1>6. CASE Restart
  <2>1. \A c \in Call : call'[c].at = "idle"
      BY <1>6 DEF Restart, IdleCall
  <2>2. UNCHANGED tree
      BY <1>6 DEF Restart
  <2>3. OneLiveInstall'
      BY <1>6, RestartRows DEF InstallInv, OneLiveInstall, Live, Working
  <2>4. InstallIsOwned' /\ TreeIsPublished'
      BY <2>1 DEF InstallIsOwned, TreeIsPublished, Installing
  <2>5. ReadyToolIsInPlace'
      BY <1>6, <2>2, RestartRows DEF InstallInv, ReadyToolIsInPlace
  <2> QED BY <2>3, <2>4, <2>5 DEF InstallInv
<1>7. CASE UNCHANGED vars
    BY <1>7, InstallFrame DEF vars
<1> QED BY <1>1, <1>2, <1>3, <1>4, <1>5, <1>6, <1>7 DEF ToolNext

-----------------------------------------------------------------------------
(* Invocations. *)

LEMMA RunInit == ToolInit => RunInv
    BY DEF ToolInit, RunInv, WorkHasOneOwner, FreeIsClean, InvocationIsMarked, RanIsRecorded,
           LaunchIsFresh, Free, Identity, IdleCall

\* Steps that reserve and run nothing; calls may come or go, but none of them
\* becomes ready to launch.
LEMMA RunFrame ==
    ASSUME RunInv, UNCHANGED <<stage, invocation, ran>>,
           \A d \in Call : call'[d] = call[d] \/ call'[d].at # "check"
    PROVE  RunInv'
<1>1. \A d \in Call : call'[d].at = "check" => call[d].at = "check" /\ Key(d)' = Key(d)
    BY DEF Key
<1>2. LaunchIsFresh'
    BY <1>1 DEF RunInv, LaunchIsFresh
<1> QED BY <1>2
    DEF RunInv, WorkHasOneOwner, FreeIsClean, InvocationIsMarked, RanIsRecorded, Free

\* Steps of the attempts: work is taken only when nobody holds it, and given
\* up only by an attempt that left no mark.
LEMMA StageFrame ==
    ASSUME RunInv, UNCHANGED <<invocation, ran, call>>,
           \A s \in Stage : stage[s].external => stage'[s].external,
           \A s \in Stage : Free(s)' => ~stage'[s].external,
           WorkHasOneOwner'
    PROVE  RunInv'
<1>1. LaunchIsFresh'
    BY DEF RunInv, LaunchIsFresh, Key
<1>2. InvocationIsMarked'
    BY DEF RunInv, InvocationIsMarked, Identity
<1> QED BY <1>1, <1>2 DEF RunInv, FreeIsClean, RanIsRecorded

LEMMA RunStepStep == ASSUME TypeInv, RunInv, RunStep PROVE RunInv'
<1>0. stage \in [Stage -> Attempts] /\ WorkHasOneOwner /\ FreeIsClean
    BY DEF TypeInv, ToolTypeOK, Attempts, AttemptStates, RunInv
<1>1. ASSUME NEW s \in Stage, StageBegins(s) PROVE RunInv'
  <2>1. /\ stage'[s].state = "in_progress" /\ stage'[s].external = stage[s].external
        /\ \A o \in Stage \ {s} : stage'[o] = stage[o]
      BY <1>0, <1>1 DEF StageBegins, Attempts
  <2>2. \A o \in Stage \ {s} : WorkOf[o] = WorkOf[s] => Free(o)
      BY <1>1 DEF StageBegins, Free
  <2>3. WorkHasOneOwner'
      BY <1>0, <2>1, <2>2 DEF WorkHasOneOwner, Free
  <2>4. UNCHANGED <<invocation, ran, call>>
      BY <1>1 DEF StageBegins
  <2>5. \A o \in Stage : Free(o)' => ~stage'[o].external
      BY <1>0, <2>1 DEF FreeIsClean, Free
  <2> QED BY <2>1, <2>3, <2>4, <2>5, StageFrame
<1>2. ASSUME NEW s \in Stage, NEW result \in {"completed", "failed"},
             ApproveInstall(s) \/ StageEnds(s, result)
      PROVE  RunInv'
  <2>1. /\ stage[s].state = "in_progress" /\ stage'[s].state \in {"in_progress", result}
        /\ stage[s].external => stage'[s].external
        /\ \A o \in Stage \ {s} : stage'[o] = stage[o]
      BY <1>0, <1>2 DEF ApproveInstall, StageEnds, Attempts
  <2>2. WorkHasOneOwner'
      BY <1>0, <2>1 DEF WorkHasOneOwner, Free
  <2>3. UNCHANGED <<invocation, ran, call>>
      BY <1>2 DEF ApproveInstall, StageEnds
  <2>4. \A o \in Stage : Free(o)' => ~stage'[o].external
      BY <1>0, <2>1 DEF FreeIsClean, Free
  <2> QED BY <2>1, <2>2, <2>3, <2>4, StageFrame
<1>3. CASE RunCloses
    BY <1>3, RunFrame DEF RunCloses
<1>4. CASE Resume
  <2>1. \A s \in Stage :
          /\ stage'[s].external = stage[s].external
          /\ stage'[s].state = IF stage[s].state = "interrupted" THEN "superseded" ELSE stage[s].state
          /\ stage[s].state = "interrupted" => ~stage[s].external
      BY <1>0, <1>4 DEF Resume, Attempts
  <2>2. WorkHasOneOwner'
      BY <1>0, <2>1 DEF WorkHasOneOwner, Free
  <2>3. UNCHANGED <<invocation, ran, call>>
      BY <1>4 DEF Resume
  <2>4. \A s \in Stage : Free(s)' => ~stage'[s].external
      BY <1>0, <2>1 DEF FreeIsClean, Free
  <2> QED BY <2>1, <2>2, <2>3, <2>4, StageFrame
<1> QED BY <1>1, <1>2, <1>3, <1>4 DEF RunStep

\* A call reserves its identity, launches under it once and settles it.
LEMMA InvocationRunStep ==
    ASSUME TypeInv, RunInv, NEW c \in Call, InvocationStep(c) PROVE RunInv'
<1>0. /\ stage \in [Stage -> Attempts] /\ ran \in [Identity -> Nat]
      /\ invocation \in [Identity -> {"none", "running", "succeeded", "failed", "uncertain"}]
    BY DEF TypeInv, ToolTypeOK, Attempts, AttemptStates
<1>1. ASSUME NEW s, NEW p, NEW q, RunBegins(c, s, p, q) PROVE RunInv'
  <2>1. \A d \in Call : call'[d] = call[d] \/ call'[d].at # "check"
      BY <1>1 DEF RunBegins, TypeInv, ToolTypeOK
  <2> QED BY <1>1, <2>1, RunFrame DEF RunBegins, runVars
<1>2. CASE ReserveToolInvocation(c)
  <2>1. call[c] \in RunCall
      BY <1>2, CallKind DEF ReserveToolInvocation, TypeInv
  <2>2. [call[c] EXCEPT !.at = "check"] \in RunCall /\ Key(c) \in Identity
      BY <2>1 DEF RunCall, Key, Identity
  <2>3. CASE UNCHANGED <<stage, invocation>> /\ Ends(c)
    <3>1. \A d \in Call : call'[d] = call[d] \/ call'[d].at # "check"
        BY <2>3, EndsLemma DEF TypeInv
    <3> QED BY <1>2, <2>3, <3>1, RunFrame DEF ReserveToolInvocation
  <2>4. CASE ~(UNCHANGED <<stage, invocation>> /\ Ends(c))
    <3> DEFINE k == Key(c)
               s == call[c].stage
    <3>1. /\ invocation[k] = "none" /\ stage[s].state = "in_progress"
          /\ stage' = [stage EXCEPT ![s].external = TRUE]
          /\ invocation' = [invocation EXCEPT ![k] = "running"]
          /\ Steps(c, "check") /\ UNCHANGED ran
        BY <1>2, <2>4 DEF ReserveToolInvocation, Reservable, Capable
    <3>2. s \in Stage /\ k[1] = s /\ k \in Identity
        BY <2>1, <2>2 DEF RunCall, Key
    <3>3. /\ stage'[s].state = "in_progress" /\ stage'[s].external
          /\ \A o \in Stage \ {s} : stage'[o] = stage[o]
        BY <1>0, <3>1, <3>2 DEF Attempts
    <3>4. /\ call'[c].at = "check" /\ Key(c)' = k
          /\ \A d \in Call \ {c} : call'[d] = call[d] /\ Key(d)' = Key(d)
        BY <2>1, <2>2, <3>1, StepsLemma DEF TypeInv, Key
    <3>5. /\ invocation'[k] = "running" /\ ran[k] = 0
          /\ \A i \in Identity : i # k => invocation'[i] = invocation[i]
        BY <1>0, <3>1, <3>2 DEF RunInv, RanIsRecorded
    <3> HIDE DEF k, s
    <3>6. WorkHasOneOwner' /\ FreeIsClean'
        BY <3>1, <3>2, <3>3 DEF RunInv, WorkHasOneOwner, FreeIsClean, Free
    <3>7. InvocationIsMarked'
        BY <3>2, <3>3, <3>5 DEF RunInv, InvocationIsMarked, Identity
    <3>8. RanIsRecorded'
        BY <3>1, <3>5 DEF RunInv, RanIsRecorded
    <3>9. \A d \in Call \ {c} : call[d].at = "check" => Key(d) # k /\ Key(d) \in Identity
        BY <3>1, CallKind DEF RunInv, LaunchIsFresh, TypeInv, RunCall, Key, Identity
    <3>10. LaunchIsFresh'
        BY <3>1, <3>4, <3>5, <3>9 DEF RunInv, LaunchIsFresh
    <3> QED BY <3>6, <3>7, <3>8, <3>10 DEF RunInv
  <2> QED BY <2>3, <2>4
<1>3. CASE LaunchTool(c)
  <2> DEFINE k == Key(c)
  <2>1. call[c] \in RunCall /\ call[c].at = "check"
      BY <1>3, CallKind DEF LaunchTool, TypeInv
  <2>2. [call[c] EXCEPT !.at = "running"] \in RunCall /\ k \in Identity
      BY <2>1 DEF RunCall, Key, Identity
  <2>3. /\ call'[c].at = "running"
        /\ \A d \in Call \ {c} : call'[d] = call[d] /\ Key(d)' = Key(d)
      BY <1>3, <2>1, <2>2, StepsLemma DEF TypeInv, LaunchTool, Key
  <2>4. /\ invocation[k] # "none" /\ ran[k] = 0
        /\ \A d \in Call \ {c} : call[d].at = "check" => Key(d) # k /\ Key(d) \in Identity
      BY <2>1, CallKind DEF RunInv, LaunchIsFresh, TypeInv, RunCall, Key, Identity
  <2>5. /\ ran'[k] = 1 /\ \A i \in Identity : i # k => ran'[i] = ran[i]
        /\ UNCHANGED <<stage, invocation>>
      BY <1>0, <1>3, <2>2, <2>4 DEF LaunchTool, runVars
  <2> HIDE DEF k
  <2>6. RanIsRecorded'
      BY <2>4, <2>5 DEF RunInv, RanIsRecorded
  <2>7. LaunchIsFresh'
      BY <2>3, <2>4, <2>5 DEF RunInv, LaunchIsFresh
  <2> QED BY <2>5, <2>6, <2>7
      DEF RunInv, WorkHasOneOwner, FreeIsClean, InvocationIsMarked, Free
<1>4. CASE ToolExits(c)
  <2>1. call[c] \in RunCall
      BY <1>4, CallKind DEF ToolExits, TypeInv
  <2>2. [call[c] EXCEPT !.at = "record"] \in RunCall
      BY <2>1 DEF RunCall
  <2>3. \A d \in Call : call'[d] = call[d] \/ call'[d].at # "check"
      BY <1>4, <2>1, <2>2, StepsLemma DEF ToolExits, TypeInv
  <2> QED BY <1>4, <2>3, RunFrame DEF ToolExits, runVars
<1>5. ASSUME NEW result \in {"succeeded", "failed"}, Settle(c, result) PROVE RunInv'
  <2>1. /\ \A i \in Identity : invocation[i] # "none" <=> invocation'[i] # "none"
        /\ UNCHANGED <<stage, ran>>
      BY <1>0, <1>5 DEF Settle, runVars
  <2>2. call'[c].at = "idle" /\ \A d \in Call \ {c} : call'[d] = call[d] /\ Key(d)' = Key(d)
      BY <1>5, EndsLemma DEF TypeInv, Settle, Key
  <2>3. \A d \in Call : call[d].at = "check" => Key(d) \in Identity
      BY CallKind DEF TypeInv, RunCall, Key, Identity
  <2>4. LaunchIsFresh'
      BY <2>1, <2>2, <2>3 DEF RunInv, LaunchIsFresh
  <2> QED BY <2>1, <2>4
      DEF RunInv, WorkHasOneOwner, FreeIsClean, InvocationIsMarked, RanIsRecorded, Free
<1>6. CASE OutcomeIsLost(c)
  <2>1. \A d \in Call : call'[d] = call[d] \/ call'[d].at # "check"
      BY <1>6, EndsLemma DEF OutcomeIsLost, TypeInv
  <2> QED BY <1>6, <2>1, RunFrame DEF OutcomeIsLost, runVars
<1> QED BY <1>1, <1>2, <1>3, <1>4, <1>5, <1>6 DEF InvocationStep, ToolSucceeds, ToolFails

\* An installation launches no tool.
LEMMA InstallRunStep ==
    ASSUME TypeInv, RunInv, NEW c \in Call, InstallStep(c) PROVE RunInv'
<1>1. \A d \in Call : call'[d] = call[d] \/ call'[d].at # "check"
  <2>1. ASSUME NEW s, NEW p, InstallBegins(c, s, p)
        PROVE  \A d \in Call : call'[d] = call[d] \/ call'[d].at # "check"
      BY <2>1 DEF InstallBegins, TypeInv, ToolTypeOK
  <2>2. CASE Ends(c)
      BY <2>2, EndsLemma DEF TypeInv
  <2>3. ASSUME NEW at \in {"verify", "clear", "publish", "probe", "complete", "activate", "grant"},
               Steps(c, at),
               call[c].at \in {"fetch", "verify", "clear", "publish", "probe", "complete", "activate"}
        PROVE  \A d \in Call : call'[d] = call[d] \/ call'[d].at # "check"
    <3>1. call[c] \in InstallCall
        BY <2>3, CallKind DEF TypeInv
    <3>2. [call[c] EXCEPT !.at = at] \in InstallCall
        BY <2>3, <3>1 DEF InstallCall
    <3> QED BY <2>3, <3>1, <3>2, StepsLemma DEF TypeInv
  <2> QED BY <2>1, <2>2, <2>3
      DEF InstallStep, PayloadIsFetched, PayloadIsVerified, ProbeIsRecorded, InstallCompletes, Advance,
          ClearTarget, PublishTree, InstallFails, ActivateToolPackage, CreateToolStageGrant
<1>2. UNCHANGED <<stage, invocation, ran>>
    BY DEF InstallStep, InstallBegins, PayloadIsFetched, PayloadIsVerified, ProbeIsRecorded,
           InstallCompletes, Advance, ClearTarget, PublishTree, InstallFails, ActivateToolPackage,
           CreateToolStageGrant, runVars
<1> QED BY <1>1, <1>2, RunFrame

\* A restart keeps every mark: what was reserved stays reserved, and an attempt
\* in flight keeps its work.
LEMMA RestartRunStep == ASSUME TypeInv, RunInv, Restart PROVE RunInv'
<1>0. /\ stage \in [Stage -> Attempts] /\ WorkHasOneOwner /\ FreeIsClean
      /\ invocation \in [Identity -> {"none", "running", "succeeded", "failed", "uncertain"}]
    BY DEF TypeInv, ToolTypeOK, Attempts, AttemptStates, RunInv
<1>1. \A s \in Stage : /\ stage'[s].external = stage[s].external
                       /\ Free(s)' <=> Free(s)
  <2>1. Recovered \in {"interrupted", "uncertain"}
      BY DEF Recovered
  <2> DEFINE r == Recovered
  <2>2. \/ stage' = stage
        \/ stage' = [s \in Stage |-> IF stage[s].state = "in_progress"
                                     THEN [stage[s] EXCEPT !.state = r] ELSE stage[s]]
      BY DEF Restart, runVars
  <2>3. r \in {"interrupted", "uncertain"}
      BY <2>1
  <2> HIDE DEF r
  <2> QED BY <1>0, <2>2, <2>3 DEF Attempts, Free
<1>2. WorkHasOneOwner' /\ FreeIsClean'
    BY <1>0, <1>1 DEF WorkHasOneOwner, FreeIsClean
<1>3. \A i \in Identity : invocation'[i] # "none" <=> invocation[i] # "none"
    BY <1>0 DEF Restart
<1>4. UNCHANGED ran /\ \A c \in Call : call'[c].at = "idle"
    BY DEF Restart, IdleCall
<1>5. InvocationIsMarked'
    BY <1>1, <1>3 DEF RunInv, InvocationIsMarked, Identity
<1>6. RanIsRecorded' /\ LaunchIsFresh'
    BY <1>3, <1>4 DEF RunInv, RanIsRecorded, LaunchIsFresh
<1> QED BY <1>2, <1>5, <1>6 DEF RunInv

LEMMA RunInvStep == TypeInv /\ RunInv /\ [ToolNext]_vars => RunInv'
<1> SUFFICES ASSUME TypeInv, RunInv, [ToolNext]_vars PROVE RunInv'
    OBVIOUS
<1>1. ASSUME NEW p, CreateToolPackage(p) \/ DisableToolPackage(p) \/ DamageTree(p) PROVE RunInv'
    BY <1>1, RunFrame DEF CreateToolPackage, DisableToolPackage, DamageTree, runVars
<1>2. CASE UNCHANGED vars
    BY <1>2, RunFrame DEF vars
<1> QED BY <1>1, <1>2, InstallRunStep, InvocationRunStep, RunStepStep, RestartRunStep DEF ToolNext

-----------------------------------------------------------------------------
(* The theorems. *)

LEMMA InstallInit == ToolInit => InstallInv
    BY EmptySeq
    DEF ToolInit, InstallInv, OneLiveInstall, InstallIsOwned, TreeIsPublished, ReadyToolIsInPlace,
        Installing, IdleCall

\* The invariant holds in every state.
THEOREM ToolInvariant == ToolSpec => []ToolInv
<1>1. ToolInit => ToolInv
    BY TypeInit, InstallInit, RunInit DEF ToolInv
<1>2. ToolInv /\ [ToolNext]_vars => ToolInv'
    BY TypeStep, InstallInvStep, RunInvStep DEF ToolInv, InstallInv
<1> QED BY <1>1, <1>2, PTL DEF ToolSpec

\* Native code is run at most once for a request of a piece of work, whatever
\* fails, is lost or restarts, and however often the run is resumed.
THEOREM NativeCodeRunsOnce == ToolSpec => []NativeRunsOnce
<1>1. ToolInv => NativeRunsOnce
  <2> SUFFICES ASSUME ToolInv, NEW p \in Package, NEW q \in Request, NEW s \in Stage, NEW o \in Stage,
                      WorkOf[s] = WorkOf[o]
               PROVE  ran[<<s, p, q>>] + (IF s = o THEN 0 ELSE ran[<<o, p, q>>]) <= 1
      BY DEF NativeRunsOnce
  <2>1. <<s, p, q>> \in Identity /\ <<o, p, q>> \in Identity
      BY DEF Identity
  <2>2. \A i \in Identity : ran[i] \in {0, 1} /\ (ran[i] # 0 => stage[i[1]].external)
      BY DEF ToolInv, RunInv, RanIsRecorded, InvocationIsMarked
  <2>3. s # o => ran[<<s, p, q>>] = 0 \/ ran[<<o, p, q>>] = 0
    <3> SUFFICES ASSUME ran[<<s, p, q>>] # 0, ran[<<o, p, q>>] # 0 PROVE s = o
        OBVIOUS
    <3>1. stage[s].external /\ stage[o].external
        BY <2>1, <2>2
    <3> QED BY <3>1 DEF ToolInv, RunInv, FreeIsClean, WorkHasOneOwner
  <2> QED BY <2>1, <2>2, <2>3
<1> QED BY <1>1, ToolInvariant, PTL

\* A package that has a ready installation has its directory.
THEOREM ReadyToolsAreInPlace == ToolSpec => []ReadyToolIsInPlace
<1>1. ToolInv => ReadyToolIsInPlace
    BY DEF ToolInv, InstallInv
<1> QED BY <1>1, ToolInvariant, PTL

\* The rows, trees and calls have their types in every state.
THEOREM ToolsTypeCorrect == ToolSpec => []ToolTypeOK
<1>1. ToolInv => ToolTypeOK
    BY DEF ToolInv, TypeInv
<1> QED BY <1>1, ToolInvariant, PTL

-----------------------------------------------------------------------------
(***************************************************************************)
(* Theorems of the project's memory, for any number of documents, contents *)
(* and indexes, any runs, and any number of crashes.                       *)
(*                                                                         *)
(* Two questions with an invariant each.  The index: a reindexing counts   *)
(* vectors and trusts the count, which is sound because the shadow holds   *)
(* vectors of ready documents only and documents stand still meanwhile     *)
(* (ShadowIsClean).  The store: an object may be unlinked at a start only, *)
(* when nothing that is not in a row can still be asked for (WritesSurvive *)
(* and RestIsIdle), and only outside a list that is still the truth        *)
(* (ReachableIsCurrent).                                                   *)
(***************************************************************************)

-----------------------------------------------------------------------------
(* The inductive invariant. *)

\* A shadow index holds vectors of ready documents, an index nobody made none,
\* and the call that fills a shadow fills one that is being built.
ShadowIsClean ==
    /\ \A i \in Indexes : indexes[i] = "none" => vectors[i] = {}
    /\ \A i \in Indexes : indexes[i] = "building" => vectors[i] \subseteq Ready
    /\ reindex.stage # "idle" =>
         reindex.index \in Indexes /\ indexes[reindex.index] = "building"

IndexInv == ActiveIndexIsComplete /\ RunsAndReindexExclude /\ ShadowIsClean

\* Between two processes no call is in flight.
RestIsIdle ==
    phase # "up" => reindex = NoWork /\ \A d \in Docs : pins[d].stage = "idle"

\* What a call or a stage has written is still there when it is registered.
WritesSurvive ==
    /\ \A d \in Docs : pins[d].stage # "idle" => pins[d].blob \in Blobs
    /\ \A d \in Docs : pins[d].stage \in {"stored", "registered"} => pins[d].blob \in files
    /\ \A r \in Runs : runs[r].status = "working" =>
         /\ runs[r].output \in Blobs
         /\ phase = "up" => runs[r].output \in files

\* The list the start hands to the object store is still the truth when the
\* objects are unlinked.
ReachableIsCurrent == phase = "registry" => reachable = Reachable

StoreInv == ReferencedIsStored /\ RestIsIdle /\ WritesSurvive /\ ReachableIsCurrent

MemoryInv == MemoryTypeOK /\ IndexInv /\ StoreInv

-----------------------------------------------------------------------------
(* Types. *)

PinRow   == [stage : {"idle", "allowed", "stored", "registered"},
             blob : Blobs \cup {None}, artifact : BOOLEAN]
DocRow   == [status : {"none", "ready", "forgotten"},
             blob : Blobs \cup {None}, artifact : BOOLEAN]
RunRow   == [status : {"none", "queued", "working", "interrupted"},
             output : Blobs \cup {None}, accepted : BOOLEAN]
HeadRow  == [active : Indexes \cup {None}, shadow : Indexes \cup {None},
             state : {"empty", "ready", "reindexing", "failed"}]
WorkRow  == [stage : {"idle", "begun", "filling"},
             index : Indexes \cup {None}, todo : SUBSET Docs]

LEMMA EmptyRows ==
    NoPin \in PinRow /\ NoDoc \in DocRow /\ NoRun \in RunRow /\ NoWork \in WorkRow
BY DEF NoPin, NoDoc, NoRun, NoWork, PinRow, DocRow, RunRow, WorkRow

\* The head a change of the documents writes is a row of the table.
LEMMA MutatedHeadRow ==
    ASSUME head \in HeadRow, NEW i \in Indexes \cup {None}
    PROVE  /\ MutatedHead(i) \in HeadRow
           /\ MutatedHead(i).active = i
           /\ MutatedHead(i).shadow = IF head.state = "reindexing" THEN head.shadow ELSE None
BY DEF MutatedHead, HeadRow

\* The initial state has the type.
LEMMA MemoryInitTypes == ASSUME MemoryInit PROVE MemoryTypeOK
<1>1. NoPin \in PinRow /\ NoDoc \in DocRow /\ NoRun \in RunRow /\ NoWork \in WorkRow
  BY EmptyRows
<1>2. head \in HeadRow
  BY DEF MemoryInit, HeadRow
<1>3. crashes \in 0..MaxCrashes
  BY MemoryAssumption DEF MemoryInit
<1> QED
  BY <1>1, <1>2, <1>3 DEF MemoryInit, MemoryTypeOK, PinRow, DocRow, RunRow, WorkRow, HeadRow

\* No step takes a row out of its type: the blob a call or a stage stores or
\* registers is one it was given.
LEMMA MemoryTypeStep ==
    ASSUME MemoryTypeOK, WritesSurvive, ShadowIsClean, ReferencedIsStored,
           [MemoryNext]_memoryVars
    PROVE  MemoryTypeOK'
<1> USE DEF MemoryTypeOK
<1> DEFINE PinsOK == pins \in [Docs -> PinRow]
           DocsOK == docs \in [Docs -> DocRow]
           RunsOK == runs \in [Runs -> RunRow]
<1>0. PinsOK /\ DocsOK /\ RunsOK /\ head \in HeadRow /\ reindex \in WorkRow
  BY DEF PinRow, DocRow, RunRow, HeadRow, WorkRow
<1>e. NoPin \in PinRow /\ NoDoc \in DocRow /\ NoRun \in RunRow /\ NoWork \in WorkRow
  BY EmptyRows
<1>1. ASSUME UNCHANGED memoryVars PROVE MemoryTypeOK'
  BY <1>0, <1>1 DEF memoryVars
<1>2. ASSUME NEW d \in Docs, NEW b \in Blobs, BeginPin(d, b) \/ BeginIndexRun(d, b)
      PROVE  MemoryTypeOK'
  <2>1. /\ [stage |-> "allowed", blob |-> b, artifact |-> FALSE] \in PinRow
        /\ [stage |-> "registered", blob |-> b, artifact |-> TRUE] \in PinRow
    BY DEF PinRow
  <2>2. PinsOK'
    BY <1>0, <1>2, <2>1 DEF BeginPin, BeginIndexRun
  <2> QED
    BY <1>0, <1>2, <2>2 DEF BeginPin, BeginIndexRun, storeVars, indexVars, envVars, PinRow
<1>3. ASSUME NEW d \in Docs, PutMaterial(d) \/ RegisterMaterial(d) \/ AbandonPin(d)
      PROVE  MemoryTypeOK'
  <2>1. pins[d] \in PinRow
    BY <1>0
  <2>2. /\ [pins[d] EXCEPT !.stage = "stored"] \in PinRow
        /\ [pins[d] EXCEPT !.stage = "registered"] \in PinRow
    BY <2>1 DEF PinRow
  <2>3. PinsOK'
    BY <1>0, <1>3, <1>e, <2>2 DEF PutMaterial, RegisterMaterial, AbandonPin
  <2>4. pins[d].stage # "idle" => pins[d].blob \in Blobs
    BY DEF WritesSurvive
  <2> QED
    BY <1>0, <1>3, <2>3, <2>4
    DEF PutMaterial, RegisterMaterial, AbandonPin, storeVars, indexVars, envVars, PinRow
<1>4. ASSUME NEW d \in Docs, IndexDocument(d) PROVE MemoryTypeOK'
  <2>1. pins[d] \in PinRow
    BY <1>0
  <2>2. [status |-> "ready", blob |-> pins[d].blob, artifact |-> pins[d].artifact] \in DocRow
    BY <2>1 DEF PinRow, DocRow
  <2>3. PinsOK' /\ DocsOK'
    BY <1>0, <1>4, <1>e, <2>2 DEF IndexDocument
  <2>4. PICK i \in Indexes : /\ indexes' = [indexes EXCEPT ![i] = "active"]
                             /\ vectors' = [vectors EXCEPT ![i] = @ \cup {d}]
                             /\ head' = MutatedHead(i)
    BY <1>4 DEF IndexDocument
  <2>5. head' \in HeadRow
    BY <1>0, <2>4, MutatedHeadRow
  <2> QED
    BY <1>0, <1>4, <2>3, <2>4, <2>5
    DEF IndexDocument, storeVars, envVars, PinRow, DocRow, HeadRow
<1>5. ASSUME NEW d \in Docs, CiteDocument(d) \/ Tombstone(d) \/ DeleteDocument(d)
      PROVE  MemoryTypeOK'
  <2>1. docs[d] \in DocRow /\ head.active \in Indexes \cup {None}
    BY <1>0 DEF HeadRow
  <2>2. [docs[d] EXCEPT !.status = "forgotten"] \in DocRow
    BY <2>1 DEF DocRow
  <2>3. DocsOK'
    BY <1>0, <1>5, <1>e, <2>2 DEF CiteDocument, Tombstone, DeleteDocument
  <2>4. MutatedHead(head.active) \in HeadRow
    BY <1>0, <2>1, MutatedHeadRow
  <2>5. head' \in HeadRow
    BY <1>0, <1>5, <2>4 DEF CiteDocument, Tombstone, DeleteDocument, indexVars
  <2> QED
    BY <1>0, <1>5, <2>3, <2>5
    DEF CiteDocument, Tombstone, DeleteDocument, storeVars, indexVars, envVars, DocRow, HeadRow
<1>6. ASSUME NEW i \in Indexes, BeginShadowIndex(i) PROVE MemoryTypeOK'
  <2>1. /\ [stage |-> "begun", index |-> i, todo |-> {}] \in WorkRow
        /\ [head EXCEPT !.shadow = i, !.state = "reindexing"] \in HeadRow
    BY <1>0 DEF WorkRow, HeadRow
  <2> QED
    BY <1>0, <1>6, <2>1 DEF BeginShadowIndex, storeVars, envVars, HeadRow, WorkRow
<1>7. ASSUME ShadowChunks \/ \E d \in Docs : AddShadowEmbeddings(d) PROVE MemoryTypeOK'
  <2>1. /\ \A d \in Docs : [reindex EXCEPT !.todo = @ \ {d}] \in WorkRow
        /\ [reindex EXCEPT !.stage = "filling",
                           !.todo = Ready \ vectors[reindex.index]] \in WorkRow
    BY <1>0 DEF WorkRow, Ready
  <2>2. reindex' \in WorkRow
    BY <1>7, <2>1 DEF ShadowChunks, AddShadowEmbeddings
  <2>3. vectors' \in [Indexes -> SUBSET Docs]
    BY <1>7 DEF ShadowChunks, AddShadowEmbeddings, indexVars
  <2> QED
    BY <1>0, <1>7, <2>2, <2>3
    DEF ShadowChunks, AddShadowEmbeddings, storeVars, indexVars, envVars, WorkRow
<1>s. ASSUME NEW i \in Indexes \cup {None}, FailShadow(i)
      PROVE  /\ head' \in HeadRow
             /\ indexes' \in [Indexes -> {"none", "building", "active"}]
             /\ vectors' \in [Indexes -> SUBSET Docs]
  <2>1. [head EXCEPT !.shadow = None, !.state = "failed"] \in HeadRow
    BY <1>0 DEF HeadRow
  <2> QED
    BY <1>s, <2>1 DEF FailShadow
<1>t. ASSUME NEW i \in Indexes, Activate(i)
      PROVE  /\ head' \in HeadRow
             /\ indexes' \in [Indexes -> {"none", "building", "active"}]
             /\ vectors' \in [Indexes -> SUBSET Docs]
  <2>1. [active |-> i, shadow |-> None, state |-> "ready"] \in HeadRow
    BY DEF HeadRow
  <2> QED
    BY <1>t, <2>1 DEF Activate
<1>8. ASSUME FinishReindex \/ ReindexFails PROVE MemoryTypeOK'
  <2>1. reindex.index \in Indexes
    BY <1>8 DEF FinishReindex, ReindexFails, ShadowIsClean
  <2>2. /\ head' \in HeadRow
        /\ indexes' \in [Indexes -> {"none", "building", "active"}]
        /\ vectors' \in [Indexes -> SUBSET Docs]
    BY <1>8, <1>s, <1>t, <2>1 DEF FinishReindex, ReindexFails
  <2> QED
    BY <1>0, <1>8, <1>e, <2>2
    DEF FinishReindex, ReindexFails, storeVars, envVars, HeadRow, WorkRow
<1>9. ASSUME NEW r \in Runs,
             \/ CreateRun(r) \/ AcceptOutput(r) \/ \E b \in Blobs : StoreOutput(r, b)
             \/ \E how \in {"succeeded", "ended"} : EndRun(r, how)
      PROVE  MemoryTypeOK'
  <2>1. runs[r] \in RunRow
    BY <1>0
  <2>2. /\ [runs[r] EXCEPT !.status = "queued"] \in RunRow
        /\ [runs[r] EXCEPT !.accepted = TRUE] \in RunRow
        /\ \A b \in Blobs :
             [status |-> "working", output |-> b, accepted |-> FALSE] \in RunRow
    BY <2>1 DEF RunRow
  <2>3. PICK row \in RunRow : runs' = [runs EXCEPT ![r] = row]
    BY <1>9, <1>e, <2>2 DEF CreateRun, AcceptOutput, StoreOutput, EndRun
  <2>p. RunsOK'
    BY <1>0, <2>3
  <2>4. runs[r].status = "working" => runs[r].output \in Blobs
    BY DEF WritesSurvive
  <2>5. registry' \subseteq Blobs /\ files' \subseteq Blobs
    BY <1>9, <2>4 DEF CreateRun, AcceptOutput, StoreOutput, EndRun, storeVars
  <2>6. ASSUME NEW claim \in {"accepted", "succeeded"}
        PROVE  Kept(r, claim) \in [Blobs -> {"none", "accepted", "succeeded"}]
    BY <2>6 DEF Kept
  <2>7. adopted' \in [Blobs -> {"none", "accepted", "succeeded"}]
    BY <1>9, <2>6 DEF CreateRun, AcceptOutput, StoreOutput, EndRun, storeVars
  <2> QED
    BY <1>0, <1>9, <2>p, <2>5, <2>7
    DEF CreateRun, AcceptOutput, StoreOutput, EndRun, storeVars, indexVars, envVars, RunRow
<1>10. ASSUME Crash PROVE MemoryTypeOK'
  <2>1. crashes' \in 0..MaxCrashes
    BY <1>10, MemoryAssumption DEF Crash
  <2> QED
    BY <1>0, <1>10, <1>e, <2>1 DEF Crash, storeVars, indexVars, PinRow, WorkRow
<1>11. ASSUME OpenStore PROVE MemoryTypeOK'
  <2>1. Building \subseteq Indexes
    BY DEF Building
  <2>2. /\ head' \in HeadRow
        /\ indexes' \in [Indexes -> {"none", "building", "active"}]
        /\ vectors' \in [Indexes -> SUBSET Docs]
    BY <1>0, <1>11, <1>s, <1>t, <2>1 DEF OpenStore, indexVars
  <2> QED
    BY <1>0, <1>11, <2>2 DEF OpenStore, storeVars, HeadRow
<1>12. ASSUME ReconcileBlobRegistry PROVE MemoryTypeOK'
  <2>1. Reachable \subseteq Blobs
    BY DEF Reachable, ReferencedIsStored
  <2> QED
    BY <1>0, <1>12, <2>1
    DEF ReconcileBlobRegistry, indexVars
<1>13. ASSUME ReconcileObjects PROVE MemoryTypeOK'
  BY <1>0, <1>13 DEF ReconcileObjects, indexVars
<1>14. ASSUME RecoverRuns PROVE MemoryTypeOK'
  <2>1. ASSUME NEW r \in Runs
        PROVE  [runs[r] EXCEPT !.status = "interrupted"] \in RunRow
    <3>1. runs[r] \in RunRow
      BY <1>0
    <3> QED
      BY <3>1 DEF RunRow
  <2>2. RunsOK'
    BY <1>0, <1>14, <2>1 DEF RecoverRuns
  <2> QED
    BY <1>0, <1>14, <2>2 DEF RecoverRuns, storeVars, indexVars, RunRow
<1> HIDE DEF MemoryTypeOK
<1> QED
  BY <1>1, <1>2, <1>3, <1>4, <1>5, <1>6, <1>7, <1>8, <1>9, <1>10, <1>11, <1>12,
     <1>13, <1>14 DEF MemoryNext

-----------------------------------------------------------------------------
(* The index. *)

\* A step that leaves the documents and the indexes alone keeps the index's
\* invariant, unless it makes a run while a shadow index is being filled.
LEMMA IndexStands ==
    ASSUME IndexInv, UNCHANGED <<docs, indexVars>>,
           \/ reindex' = reindex
           \/ reindex'.stage = "idle"
           \/ reindex'.index = reindex.index /\ reindex.stage # "idle",
           Blocking' \subseteq Blocking \/ Building = {}
    PROVE  IndexInv'
<1>1. Ready' = Ready /\ Building' = Building
  BY DEF Ready, Building, indexVars
<1>2. ActiveIndexIsComplete'
  BY <1>1 DEF IndexInv, ActiveIndexIsComplete, indexVars
<1>3. RunsAndReindexExclude'
  BY <1>1 DEF IndexInv, RunsAndReindexExclude, indexVars
<1>4. ShadowIsClean'
  BY <1>1 DEF IndexInv, ShadowIsClean, indexVars
<1> QED
  BY <1>2, <1>3, <1>4 DEF IndexInv

\* While the documents may change no index is being filled: no call is, and
\* the head has no shadow.
LEMMA MutationMeansNoShadow ==
    ASSUME MemoryTypeOK, IndexInv, MutationAllowed
    PROVE  /\ \A i \in Indexes : indexes[i] # "building"
           /\ head.shadow = None /\ reindex.stage = "idle" /\ Blocking = {}
BY DEF MemoryTypeOK, IndexInv, MutationAllowed, Building, RunsAndReindexExclude, ShadowIsClean

\* IndexDocument keeps it: the document's vector goes where the head points.
LEMMA IndexDocumentKeepsIndex ==
    ASSUME MemoryTypeOK, IndexInv, NEW d \in Docs, IndexDocument(d)
    PROVE  IndexInv'
<1>1. /\ \A i \in Indexes : indexes[i] # "building"
      /\ head.shadow = None /\ reindex.stage = "idle" /\ Blocking = {}
  BY MutationMeansNoShadow DEF IndexDocument
<1>2. PICK i \in Indexes :
        /\ IF head.active = None THEN indexes[i] = "none" ELSE i = head.active
        /\ indexes' = [indexes EXCEPT ![i] = "active"]
        /\ vectors' = [vectors EXCEPT ![i] = @ \cup {d}]
        /\ head' = MutatedHead(i)
  BY DEF IndexDocument
<1>3. head'.active = i /\ head'.shadow = None
  BY <1>1, <1>2, MutatedHeadRow DEF MemoryTypeOK, HeadRow
<1>4. Ready' = Ready \cup {d}
  BY DEF IndexDocument, Ready, MemoryTypeOK
<1>5. i # None
  BY MemoryAssumption
<1>6. ActiveIndexIsComplete'
  <2>1. {j \in Indexes : indexes[j] = "active"} = {head.active} \ {None}
    BY DEF IndexInv, ActiveIndexIsComplete
  <2>2. {j \in Indexes : indexes'[j] = "active"} = {i}
    BY <1>2, <1>5, <2>1 DEF MemoryTypeOK
  <2>3. Ready \subseteq vectors[i]
    BY <1>2 DEF IndexInv, ActiveIndexIsComplete
  <2>4. vectors'[i] = vectors[i] \cup {d}
    BY <1>2 DEF MemoryTypeOK
  <2> QED
    BY <1>3, <1>4, <1>5, <2>2, <2>3, <2>4 DEF ActiveIndexIsComplete
<1>7. Building' = {}
  BY <1>1, <1>2 DEF Building, MemoryTypeOK
<1>8. RunsAndReindexExclude'
  BY <1>3, <1>7 DEF RunsAndReindexExclude
<1>9. ShadowIsClean'
  <2>1. reindex'.stage = "idle"
    BY <1>1 DEF IndexDocument
  <2>2. \A j \in Indexes : indexes'[j] = "none" => vectors'[j] = {}
    BY <1>2 DEF IndexInv, ShadowIsClean, MemoryTypeOK
  <2>3. \A j \in Indexes : indexes'[j] # "building"
    BY <1>1, <1>2 DEF MemoryTypeOK
  <2> QED
    BY <2>1, <2>2, <2>3 DEF ShadowIsClean
<1> QED
  BY <1>6, <1>8, <1>9 DEF IndexInv

\* Forgetting keeps it: a document leaves the ready ones, and at most the
\* vectors lose what it had.
LEMMA ForgettingKeepsIndex ==
    ASSUME MemoryTypeOK, IndexInv, NEW d \in Docs, Tombstone(d) \/ DeleteDocument(d)
    PROVE  IndexInv'
<1>1. /\ \A i \in Indexes : indexes[i] # "building"
      /\ head.shadow = None /\ reindex.stage = "idle" /\ Blocking = {}
  BY MutationMeansNoShadow DEF Tombstone, DeleteDocument
<1>2. head' = MutatedHead(head.active) /\ head.active \in Indexes \cup {None}
  BY DEF Tombstone, DeleteDocument, MemoryTypeOK
<1>3. head'.active = head.active /\ head'.shadow = None
  BY <1>1, <1>2, MutatedHeadRow DEF MemoryTypeOK, HeadRow
<1>4. docs[d] \in DocRow
  BY DEF MemoryTypeOK, DocRow
<1>5. Ready' = Ready \ {d}
  BY <1>4 DEF Tombstone, DeleteDocument, Ready, MemoryTypeOK, NoDoc, DocRow
<1>6. indexes' = indexes /\ reindex' = reindex
  BY DEF Tombstone, DeleteDocument
<1>7. \A i \in Indexes : vectors'[i] \in {vectors[i], vectors[i] \ {d}}
  BY DEF Tombstone, DeleteDocument
<1>8. ActiveIndexIsComplete'
  BY <1>2, <1>3, <1>5, <1>6, <1>7 DEF IndexInv, ActiveIndexIsComplete
<1>9. RunsAndReindexExclude'
  BY <1>1, <1>3, <1>6 DEF RunsAndReindexExclude, Building
<1>10. ShadowIsClean'
  BY <1>1, <1>6, <1>7 DEF IndexInv, ShadowIsClean
<1> QED
  BY <1>8, <1>9, <1>10 DEF IndexInv

\* BeginShadowIndex keeps it: the new index is empty, and is the only one.
LEMMA BeginShadowKeepsIndex ==
    ASSUME MemoryTypeOK, IndexInv, NEW i \in Indexes, BeginShadowIndex(i)
    PROVE  IndexInv'
<1>1. Building' = {i}
  BY DEF BeginShadowIndex, Building, MemoryTypeOK
<1>2. /\ head'.active = head.active /\ head'.shadow = i
      /\ reindex'.index = i /\ i # None
  BY MemoryAssumption DEF BeginShadowIndex, MemoryTypeOK
<1>3. Ready' = Ready /\ Blocking' = {}
  BY DEF BeginShadowIndex, Ready, Blocking
<1>4. {j \in Indexes : indexes'[j] = "active"} = {j \in Indexes : indexes[j] = "active"}
  BY DEF BeginShadowIndex, MemoryTypeOK
<1>5. ActiveIndexIsComplete'
  BY <1>2, <1>3, <1>4 DEF IndexInv, ActiveIndexIsComplete, BeginShadowIndex
<1>6. RunsAndReindexExclude'
  BY <1>1, <1>2, <1>3 DEF RunsAndReindexExclude
<1>7. ShadowIsClean'
  <2>1. \A j \in Indexes : indexes'[j] = IF j = i THEN "building" ELSE indexes[j]
    BY DEF BeginShadowIndex, MemoryTypeOK
  <2>2. vectors' = vectors /\ vectors[i] = {} /\ \A j \in Indexes : indexes[j] # "building"
    BY DEF BeginShadowIndex, IndexInv, ShadowIsClean, Building
  <2> QED
    BY <1>2, <2>1, <2>2 DEF IndexInv, ShadowIsClean
<1> QED
  BY <1>5, <1>6, <1>7 DEF IndexInv

\* AddShadowEmbeddings keeps it: the vector is of a ready document, and the
\* active index is another one.
LEMMA AddShadowKeepsIndex ==
    ASSUME MemoryTypeOK, IndexInv, NEW d \in Docs, AddShadowEmbeddings(d)
    PROVE  IndexInv'
<1> DEFINE i == reindex.index
<1>1. i \in Indexes /\ indexes[i] = "building" /\ d \in Ready
  BY DEF AddShadowEmbeddings, IndexInv, ShadowIsClean
<1>2. /\ Ready' = Ready /\ Building' = Building /\ Blocking' = Blocking
      /\ indexes' = indexes /\ head' = head
  BY DEF AddShadowEmbeddings, Ready, Building, Blocking
<1>3. \A j \in Indexes : vectors'[j] = IF j = i THEN vectors[j] \cup {d} ELSE vectors[j]
  BY <1>1 DEF AddShadowEmbeddings, MemoryTypeOK
<1>4. reindex'.index = i /\ reindex'.stage = reindex.stage
  BY DEF AddShadowEmbeddings, MemoryTypeOK
<1>5. ActiveIndexIsComplete'
  <2>1. head.active \in Indexes \cup {None}
    BY DEF MemoryTypeOK
  <2> QED
    BY <1>2, <1>3, <2>1 DEF IndexInv, ActiveIndexIsComplete
<1>6. RunsAndReindexExclude'
  BY <1>2 DEF IndexInv, RunsAndReindexExclude
<1>7. ShadowIsClean'
  <2> HIDE DEF i
  <2>1. /\ \A j \in Indexes : indexes[j] = "none" => vectors[j] = {}
        /\ \A j \in Indexes : indexes[j] = "building" => vectors[j] \subseteq Ready
    BY DEF IndexInv, ShadowIsClean
  <2>2. \A j \in Indexes : indexes'[j] = "none" => vectors'[j] = {}
    BY ONLY <1>1, <1>2, <1>3, <2>1
  <2>3. \A j \in Indexes : indexes'[j] = "building" => vectors'[j] \subseteq Ready'
    BY ONLY <1>1, <1>2, <1>3, <2>1
  <2>4. reindex'.index \in Indexes /\ indexes'[reindex'.index] = "building"
    BY ONLY <1>1, <1>2, <1>4
  <2> QED
    BY <2>2, <2>3, <2>4 DEF ShadowIsClean
<1> QED
  BY <1>5, <1>6, <1>7 DEF IndexInv

\* As many vectors as ready documents, and of ready documents only: all of
\* them are there.  This is what the count of ActivateShadowIndex rests on.
LEMMA CountIsEnough ==
    ASSUME MemoryTypeOK, IndexInv, NEW i \in Building, CountsMatch(i)
    PROVE  vectors[i] = Ready
<1>1. i \in Indexes /\ vectors[i] \subseteq Ready
  BY DEF Building, IndexInv, ShadowIsClean
<1>2. Ready \subseteq Docs
  BY DEF Ready
<1>3. IsFiniteSet(Ready)
  BY <1>2, MemoryAssumption, FS_Subset
<1>4. Cardinality(vectors[i]) = Cardinality(Ready)
  BY DEF CountsMatch
<1> QED
  BY <1>1, <1>3, <1>4, FS_Subset

\* The shadow that takes the active index's place is complete, and nothing is
\* left beside it.
LEMMA ActivateKeepsIndex ==
    ASSUME MemoryTypeOK, IndexInv, NEW i \in Building, CountsMatch(i), Activate(i),
           docs' = docs, reindex'.stage = "idle"
    PROVE  IndexInv'
<1>1. vectors[i] = Ready /\ i \in Indexes /\ i # None
  BY CountIsEnough, MemoryAssumption DEF Building
<1>2. Ready' = Ready /\ Building' = {}
  BY DEF Ready, Building, Activate
<1>3. {j \in Indexes : indexes'[j] = "active"} = {i} /\ vectors'[i] = vectors[i]
  BY <1>1 DEF Activate
<1>4. head'.active = i /\ head'.shadow = None
  BY DEF Activate
<1>5. ActiveIndexIsComplete'
  BY <1>1, <1>2, <1>3, <1>4 DEF ActiveIndexIsComplete
<1>6. RunsAndReindexExclude'
  BY <1>2, <1>4 DEF RunsAndReindexExclude
<1>7. ShadowIsClean'
  BY DEF Activate, ShadowIsClean
<1> QED
  BY <1>5, <1>6, <1>7 DEF IndexInv

\* The shadow that is given up leaves the active index as it was.
LEMMA FailShadowKeepsIndex ==
    ASSUME MemoryTypeOK, IndexInv, NEW i \in Building, FailShadow(i),
           docs' = docs, reindex'.stage = "idle"
    PROVE  IndexInv'
<1>1. Building = {i} /\ i \in Indexes /\ indexes[i] = "building"
  BY DEF Building, IndexInv, RunsAndReindexExclude
<1>2. \A j \in Indexes : /\ indexes'[j] = IF j = i THEN "none" ELSE indexes[j]
                         /\ vectors'[j] = IF j = i THEN {} ELSE vectors[j]
  BY DEF FailShadow, MemoryTypeOK
<1>3. Ready' = Ready /\ Building' = {}
  BY <1>1, <1>2 DEF Ready, Building
<1>4. head'.active = head.active /\ head'.shadow = None /\ head.active \in Indexes \cup {None}
  BY DEF FailShadow, MemoryTypeOK
<1>5. ActiveIndexIsComplete'
  <2>1. {j \in Indexes : indexes'[j] = "active"} = {j \in Indexes : indexes[j] = "active"}
    BY <1>1, <1>2
  <2>2. head.active # None => indexes[head.active] = "active" /\ head.active # i
    BY <1>1, <1>4 DEF IndexInv, ActiveIndexIsComplete
  <2> QED
    BY <1>2, <1>3, <1>4, <2>1, <2>2 DEF IndexInv, ActiveIndexIsComplete
<1>6. RunsAndReindexExclude'
  BY <1>3, <1>4 DEF RunsAndReindexExclude
<1>7. ShadowIsClean'
  BY <1>2, <1>3 DEF IndexInv, ShadowIsClean
<1> QED
  BY <1>5, <1>6, <1>7 DEF IndexInv

\* Every step keeps the index's invariant.
LEMMA IndexStep ==
    ASSUME MemoryTypeOK, IndexInv, RestIsIdle, [MemoryNext]_memoryVars
    PROVE  IndexInv'
<1>1. ASSUME UNCHANGED memoryVars PROVE IndexInv'
  <2>1. Blocking' = Blocking
    BY <1>1 DEF memoryVars, Blocking
  <2> QED
    BY <1>1, <2>1, IndexStands DEF memoryVars, indexVars
<1>2. ASSUME NEW d \in Docs, NEW b \in Blobs, BeginPin(d, b) \/ BeginIndexRun(d, b)
      PROVE  IndexInv'
  <2>1. Blocking' = Blocking
    BY <1>2 DEF BeginPin, BeginIndexRun, Blocking
  <2> QED
    BY <1>2, <2>1, IndexStands DEF BeginPin, BeginIndexRun
<1>3. ASSUME NEW d \in Docs,
             PutMaterial(d) \/ RegisterMaterial(d) \/ AbandonPin(d) \/ CiteDocument(d)
      PROVE  IndexInv'
  <2>1. Blocking' = Blocking
    BY <1>3 DEF PutMaterial, RegisterMaterial, AbandonPin, CiteDocument, Blocking
  <2> QED
    BY <1>3, <2>1, IndexStands DEF PutMaterial, RegisterMaterial, AbandonPin, CiteDocument
<1>4. ASSUME ShadowChunks PROVE IndexInv'
  <2>1. Blocking' = Blocking
    BY <1>4 DEF ShadowChunks, Blocking
  <2>2. reindex'.index = reindex.index /\ reindex.stage # "idle"
    BY <1>4 DEF ShadowChunks, MemoryTypeOK
  <2> QED
    BY <1>4, <2>1, <2>2, IndexStands DEF ShadowChunks
<1>5. ASSUME FinishReindex \/ ReindexFails PROVE IndexInv'
  <2>1. reindex.index \in Building
    BY <1>5 DEF FinishReindex, ReindexFails, IndexInv, ShadowIsClean, Building
  <2>2. docs' = docs /\ reindex'.stage = "idle"
    BY <1>5 DEF FinishReindex, ReindexFails, NoWork
  <2>3. \/ FailShadow(reindex.index)
        \/ CountsMatch(reindex.index) /\ Activate(reindex.index)
    BY <1>5 DEF FinishReindex, ReindexFails
  <2> QED
    BY <2>1, <2>2, <2>3, FailShadowKeepsIndex, ActivateKeepsIndex
<1>6. ASSUME NEW r \in Runs, CreateRun(r) PROVE IndexInv'
  BY <1>6, IndexStands DEF CreateRun
<1>7. ASSUME NEW r \in Runs,
             \/ AcceptOutput(r) \/ \E b \in Blobs : StoreOutput(r, b)
             \/ \E how \in {"succeeded", "ended"} : EndRun(r, how)
      PROVE  IndexInv'
  <2>1. runs[r].status # "none"
    BY <1>7 DEF AcceptOutput, StoreOutput, EndRun
  <2>2. PICK row : runs' = [runs EXCEPT ![r] = row]
    BY <1>7 DEF AcceptOutput, StoreOutput, EndRun
  <2>3. Blocking' \subseteq Blocking
    BY <2>1, <2>2 DEF Blocking, MemoryTypeOK
  <2> QED
    BY <1>7, <2>3, IndexStands DEF AcceptOutput, StoreOutput, EndRun
<1>8. ASSUME Crash PROVE IndexInv'
  <2>1. Blocking' = Blocking /\ reindex'.stage = "idle"
    BY <1>8 DEF Crash, Blocking, NoWork
  <2> QED
    BY <1>8, <2>1, IndexStands DEF Crash
<1>9. ASSUME OpenStore PROVE IndexInv'
  <2>1. docs' = docs /\ reindex' = reindex /\ reindex.stage = "idle" /\ Blocking' = Blocking
    BY <1>9 DEF OpenStore, RestIsIdle, NoWork, Blocking
  <2>2. CASE Building = {}
    BY <1>9, <2>1, <2>2, IndexStands DEF OpenStore
  <2>3. CASE Building # {}
    <3>1. PICK i \in Building :
            IF Blocking = {} /\ CountsMatch(i) THEN Activate(i) ELSE FailShadow(i)
      BY <1>9, <2>3 DEF OpenStore
    <3> QED
      BY <2>1, <3>1, FailShadowKeepsIndex, ActivateKeepsIndex
  <2> QED
    BY <2>2, <2>3
<1>10. ASSUME ReconcileBlobRegistry \/ ReconcileObjects PROVE IndexInv'
  <2>1. Blocking' = Blocking
    BY <1>10 DEF ReconcileBlobRegistry, ReconcileObjects, Blocking
  <2> QED
    BY <1>10, <2>1, IndexStands DEF ReconcileBlobRegistry, ReconcileObjects
<1>11. ASSUME RecoverRuns PROVE IndexInv'
  <2>1. Blocking' \subseteq Blocking
    BY <1>11 DEF RecoverRuns, Blocking
  <2> QED
    BY <1>11, <2>1, IndexStands DEF RecoverRuns
<1> QED
  BY <1>1, <1>2, <1>3, <1>4, <1>5, <1>6, <1>7, <1>8, <1>9, <1>10, <1>11,
     IndexDocumentKeepsIndex, ForgettingKeepsIndex, BeginShadowKeepsIndex,
     AddShadowKeepsIndex
  DEF MemoryNext

-----------------------------------------------------------------------------
(* The store. *)

\* What a run's rows refer to, as two cases.
LEMMA RunBlobIs ==
    \A b : b \in RunBlobs <=> \/ b \in Blobs /\ adopted[b] # "none"
                              \/ \E r \in Runs : runs[r].accepted /\ runs[r].output = b
BY DEF RunBlobs

\* What a document's row refers to.
LEMMA DocumentBlobIs ==
    \A b : b \in DocumentBlobs(docs) <=>
             \E d \in Docs : docs[d].status # "none" /\ docs[d].blob = b
BY DEF DocumentBlobs

\* A step that adds to the store and leaves the rows alone.
LEMMA ReferencedStands ==
    ASSUME ReferencedIsStored, UNCHANGED <<docs, runs, adopted>>,
           files \subseteq files', registry \subseteq registry'
    PROVE  ReferencedIsStored'
BY DEF ReferencedIsStored, DocumentBlobs, RunBlobs

\* A run that gives up its output leaves it to the rows of artifacts.
LEMMA KeptAddsNothing ==
    ASSUME MemoryTypeOK, NEW r \in Runs, NEW claim \in {"accepted", "succeeded"},
           NEW row \in RunRow, ~row.accepted,
           runs' = [runs EXCEPT ![r] = row], adopted' = Kept(r, claim)
    PROVE  RunBlobs' \subseteq RunBlobs
<1>1. SUFFICES ASSUME NEW b \in RunBlobs' PROVE b \in RunBlobs
  OBVIOUS
<1>2. \A q \in Runs : runs'[q] = IF q = r THEN row ELSE runs[q]
  BY DEF MemoryTypeOK
<1>3. CASE b \in Blobs /\ adopted'[b] # "none"
  BY <1>3, RunBlobIs DEF Kept
<1>4. CASE \E q \in Runs : runs'[q].accepted /\ runs'[q].output = b
  BY <1>2, <1>4, RunBlobIs
<1> QED
  BY <1>3, <1>4 DEF RunBlobs

\* Every step keeps what the rows refer to in the registry and in the store.
LEMMA ReferencedStep ==
    ASSUME MemoryTypeOK, StoreInv, [MemoryNext]_memoryVars
    PROVE  ReferencedIsStored'
<1>0. ReferencedIsStored /\ WritesSurvive /\ ReachableIsCurrent
  BY DEF StoreInv
<1>1. ASSUME \/ UNCHANGED memoryVars
             \/ ShadowChunks \/ FinishReindex \/ ReindexFails \/ Crash \/ OpenStore
             \/ \E i \in Indexes : BeginShadowIndex(i)
      PROVE  ReferencedIsStored'
  BY <1>0, <1>1, ReferencedStands
  DEF ShadowChunks, FinishReindex, ReindexFails, Crash, OpenStore, BeginShadowIndex,
      memoryVars, storeVars
<1>2. ASSUME NEW d \in Docs,
             \/ \E b \in Blobs : BeginPin(d, b) \/ BeginIndexRun(d, b)
             \/ PutMaterial(d) \/ RegisterMaterial(d) \/ AbandonPin(d)
             \/ CiteDocument(d) \/ AddShadowEmbeddings(d)
      PROVE  ReferencedIsStored'
  BY <1>0, <1>2, ReferencedStands
  DEF BeginPin, BeginIndexRun, PutMaterial, RegisterMaterial, AbandonPin, CiteDocument,
      AddShadowEmbeddings, storeVars
<1>3. ASSUME NEW d \in Docs, IndexDocument(d) PROVE ReferencedIsStored'
  <2>1. pins[d].blob \in registry \cap files
    BY <1>0, <1>3 DEF IndexDocument, WritesSurvive
  <2> DEFINE row == [status |-> "ready", blob |-> pins[d].blob, artifact |-> pins[d].artifact]
  <2>2. docs' = [docs EXCEPT ![d] = row] /\ row.blob = pins[d].blob
    BY <1>3 DEF IndexDocument
  <2>3. DocumentBlobs(docs') \subseteq DocumentBlobs(docs) \cup {pins[d].blob}
    <3> HIDE DEF row
    <3> QED
      BY <2>2 DEF DocumentBlobs, MemoryTypeOK
  <2>4. RunBlobs' = RunBlobs /\ files' = files /\ registry' = registry
    BY <1>3 DEF IndexDocument, storeVars, RunBlobs
  <2> QED
    BY <1>0, <2>1, <2>3, <2>4 DEF ReferencedIsStored
<1>4. ASSUME NEW d \in Docs, Tombstone(d) PROVE ReferencedIsStored'
  <2>1. docs[d] \in DocRow /\ docs[d].status = "ready"
    BY <1>4 DEF Tombstone, Ready, MemoryTypeOK, DocRow
  <2>2. \A e \in Docs : /\ docs'[e].blob = docs[e].blob
                        /\ docs'[e].status # "none" => docs[e].status # "none"
    BY <1>4, <2>1 DEF Tombstone, MemoryTypeOK, DocRow
  <2>3. DocumentBlobs(docs') \subseteq DocumentBlobs(docs)
    BY <2>2 DEF DocumentBlobs
  <2>4. RunBlobs' = RunBlobs /\ files' = files /\ registry' = registry
    BY <1>4 DEF Tombstone, storeVars, RunBlobs
  <2> QED
    BY <1>0, <2>3, <2>4 DEF ReferencedIsStored
<1>5. ASSUME NEW d \in Docs, DeleteDocument(d) PROVE ReferencedIsStored'
  <2> DEFINE b == docs[d].blob
             left == [docs EXCEPT ![d] = NoDoc]
  <2>1. \A e \in Docs : left[e].status # "none" => left[e] = docs[e]
    BY DEF MemoryTypeOK, NoDoc
  <2>2. DocumentBlobs(left) \subseteq DocumentBlobs(docs)
    BY <2>1 DEF DocumentBlobs
  <2>3. /\ docs' = left /\ RunBlobs' = RunBlobs /\ files' = files
        /\ registry' = IF StillReferenced(b, left) THEN registry ELSE registry \ {b}
    BY <1>5 DEF DeleteDocument, RunBlobs
  <2> QED
    BY <1>0, <2>2, <2>3 DEF ReferencedIsStored, StillReferenced
<1>6. ASSUME NEW r \in Runs, CreateRun(r) PROVE ReferencedIsStored'
  <2>1. runs[r] \in RunRow
    BY DEF MemoryTypeOK, RunRow
  <2>2. \A q \in Runs : /\ runs'[q].accepted = runs[q].accepted
                        /\ runs'[q].output = runs[q].output
    BY <1>6, <2>1 DEF CreateRun, MemoryTypeOK, RunRow
  <2>3. RunBlobs' \subseteq RunBlobs
    BY <1>6, <2>2 DEF CreateRun, storeVars, RunBlobs
  <2> QED
    BY <1>0, <1>6, <2>3 DEF CreateRun, storeVars, ReferencedIsStored, DocumentBlobs
<1>7. ASSUME NEW r \in Runs, AcceptOutput(r) PROVE ReferencedIsStored'
  <2>1. runs[r].output \in files
    BY <1>0, <1>7 DEF AcceptOutput, WritesSurvive
  <2>2. runs[r] \in RunRow
    BY DEF MemoryTypeOK, RunRow
  <2>3. \A q \in Runs : /\ q # r => runs'[q] = runs[q]
                        /\ runs'[q].output = runs[q].output
    BY <1>7, <2>2 DEF AcceptOutput, MemoryTypeOK, RunRow
  <2>4. RunBlobs' \subseteq RunBlobs \cup {runs[r].output}
    BY <1>7, <2>3 DEF AcceptOutput, RunBlobs
  <2>5. DocumentBlobs(docs') = DocumentBlobs(docs)
    BY <1>7 DEF AcceptOutput
  <2> QED
    BY <1>0, <1>7, <2>1, <2>4, <2>5 DEF AcceptOutput, ReferencedIsStored
<1>8. ASSUME NEW r \in Runs,
             \/ \E b \in Blobs : StoreOutput(r, b)
             \/ \E how \in {"succeeded", "ended"} : EndRun(r, how)
      PROVE  ReferencedIsStored'
  <2>1. /\ \A b \in Blobs : [status |-> "working", output |-> b, accepted |-> FALSE] \in RunRow
        /\ NoRun \in RunRow
    BY EmptyRows DEF RunRow
  <2>2. PICK claim \in {"accepted", "succeeded"}, row \in RunRow :
          ~row.accepted /\ runs' = [runs EXCEPT ![r] = row] /\ adopted' = Kept(r, claim)
    <3>1. CASE \E b \in Blobs : StoreOutput(r, b)
      BY <2>1, <3>1 DEF StoreOutput
    <3>2. CASE \E how \in {"succeeded", "ended"} : EndRun(r, how)
      <4>1. ~NoRun.accepted
        BY DEF NoRun
      <4> QED
        BY <2>1, <3>2, <4>1 DEF EndRun
    <3> QED
      BY <1>8, <3>1, <3>2
  <2>3. RunBlobs' \subseteq RunBlobs
    BY <2>2, KeptAddsNothing
  <2>4. docs' = docs /\ registry' = registry /\ files \subseteq files'
    BY <1>8 DEF StoreOutput, EndRun
  <2> QED
    BY <1>0, <2>3, <2>4 DEF ReferencedIsStored, DocumentBlobs
<1>9. ASSUME ReconcileBlobRegistry PROVE ReferencedIsStored'
  BY <1>0, <1>9
  DEF ReconcileBlobRegistry, ReferencedIsStored, Reachable, DocumentBlobs, RunBlobs
<1>10. ASSUME ReconcileObjects PROVE ReferencedIsStored'
  <2>1. reachable = Reachable
    BY <1>0, <1>10 DEF ReachableIsCurrent, ReconcileObjects
  <2> QED
    BY <1>0, <1>10, <2>1
    DEF ReconcileObjects, ReferencedIsStored, Reachable, DocumentBlobs, RunBlobs
<1>11. ASSUME RecoverRuns PROVE ReferencedIsStored'
  <2>1. ASSUME NEW q \in Runs
        PROVE  /\ runs'[q].accepted = runs[q].accepted
               /\ runs'[q].output = runs[q].output
    <3>1. runs[q] \in RunRow
      BY DEF MemoryTypeOK, RunRow
    <3> QED
      BY <1>11, <3>1 DEF RecoverRuns, RunRow
  <2>2. RunBlobs' \subseteq RunBlobs
    BY <1>11, <2>1 DEF RecoverRuns, storeVars, RunBlobs
  <2> QED
    BY <1>0, <1>11, <2>2 DEF RecoverRuns, storeVars, ReferencedIsStored, DocumentBlobs
<1> QED
  BY <1>1, <1>2, <1>3, <1>4, <1>5, <1>6, <1>7, <1>8, <1>9, <1>10, <1>11 DEF MemoryNext

\* Every step leaves what is written and not yet registered in the store,
\* except the start, when nobody will register it.
LEMMA WritesStep ==
    ASSUME MemoryTypeOK, StoreInv, [MemoryNext]_memoryVars
    PROVE  WritesSurvive'
<1>0. WritesSurvive /\ RestIsIdle
  BY DEF StoreInv
<1>1. ASSUME \/ UNCHANGED memoryVars
             \/ ShadowChunks \/ FinishReindex \/ ReindexFails
             \/ \E i \in Indexes : BeginShadowIndex(i)
             \/ \E d \in Docs : \/ CiteDocument(d) \/ AddShadowEmbeddings(d)
                                \/ Tombstone(d) \/ DeleteDocument(d)
      PROVE  WritesSurvive'
  BY <1>0, <1>1
  DEF ShadowChunks, FinishReindex, ReindexFails, BeginShadowIndex, CiteDocument,
      AddShadowEmbeddings, Tombstone, DeleteDocument, memoryVars, storeVars, envVars,
      WritesSurvive
<1>2. ASSUME NEW d \in Docs,
             \/ \E b \in Blobs : BeginPin(d, b) \/ BeginIndexRun(d, b)
             \/ PutMaterial(d) \/ RegisterMaterial(d) \/ AbandonPin(d) \/ IndexDocument(d)
      PROVE  WritesSurvive'
  <2>1. pins[d] \in PinRow
    BY DEF MemoryTypeOK, PinRow
  <2>2. \A e \in Docs : e # d => pins'[e] = pins[e]
    BY <1>2
    DEF BeginPin, BeginIndexRun, PutMaterial, RegisterMaterial, AbandonPin, IndexDocument,
        MemoryTypeOK
  <2>3. /\ pins'[d].stage # "idle" => pins'[d].blob \in Blobs
        /\ pins'[d].stage \in {"stored", "registered"} => pins'[d].blob \in files'
    <3>1. CASE \E b \in Blobs : BeginPin(d, b) \/ BeginIndexRun(d, b)
      BY <3>1 DEF BeginPin, BeginIndexRun, MemoryTypeOK, storeVars
    <3>2. CASE PutMaterial(d)
      BY <1>0, <2>1, <3>2 DEF PutMaterial, MemoryTypeOK, PinRow, WritesSurvive
    <3>3. CASE RegisterMaterial(d)
      BY <1>0, <2>1, <3>3 DEF RegisterMaterial, MemoryTypeOK, PinRow, WritesSurvive
    <3>4. CASE AbandonPin(d) \/ IndexDocument(d)
      BY <3>4 DEF AbandonPin, IndexDocument, MemoryTypeOK, NoPin
    <3> QED
      BY <1>2, <3>1, <3>2, <3>3, <3>4
  <2>4. files \subseteq files' /\ runs' = runs /\ phase' = phase
    BY <1>2
    DEF BeginPin, BeginIndexRun, PutMaterial, RegisterMaterial, AbandonPin, IndexDocument,
        storeVars, envVars
  <2> QED
    BY <1>0, <2>2, <2>3, <2>4 DEF WritesSurvive
<1>3. ASSUME NEW r \in Runs,
             \/ CreateRun(r) \/ AcceptOutput(r) \/ \E b \in Blobs : StoreOutput(r, b)
             \/ \E how \in {"succeeded", "ended"} : EndRun(r, how)
      PROVE  WritesSurvive'
  <2>1. runs[r] \in RunRow
    BY DEF MemoryTypeOK, RunRow
  <2>2. \A q \in Runs : q # r => runs'[q] = runs[q]
    BY <1>3 DEF CreateRun, AcceptOutput, StoreOutput, EndRun, MemoryTypeOK
  <2>3. runs'[r].status = "working" => runs'[r].output \in Blobs \cap files'
    <3>1. CASE CreateRun(r)
      BY <2>1, <3>1 DEF CreateRun, MemoryTypeOK, RunRow
    <3>2. CASE AcceptOutput(r)
      BY <1>0, <2>1, <3>2 DEF AcceptOutput, MemoryTypeOK, RunRow, WritesSurvive
    <3>3. CASE \E b \in Blobs : StoreOutput(r, b)
      BY <3>3 DEF StoreOutput, MemoryTypeOK
    <3>4. CASE \E how \in {"succeeded", "ended"} : EndRun(r, how)
      BY <3>4 DEF EndRun, MemoryTypeOK, NoRun
    <3> QED
      BY <1>3, <3>1, <3>2, <3>3, <3>4
  <2>4. files \subseteq files' /\ pins' = pins /\ phase' = phase
    BY <1>3 DEF CreateRun, AcceptOutput, StoreOutput, EndRun, storeVars, envVars
  <2> QED
    BY <1>0, <2>2, <2>3, <2>4 DEF WritesSurvive
<1>4. ASSUME Crash PROVE WritesSurvive'
  BY <1>0, <1>4 DEF Crash, NoPin, WritesSurvive
<1>5. ASSUME OpenStore \/ ReconcileBlobRegistry \/ ReconcileObjects PROVE WritesSurvive'
  <2>1. \A d \in Docs : pins[d].stage = "idle"
    BY <1>0, <1>5 DEF OpenStore, ReconcileBlobRegistry, ReconcileObjects, RestIsIdle
  <2>2. pins' = pins /\ runs' = runs /\ phase' # "up"
    BY <1>5 DEF OpenStore, ReconcileBlobRegistry, ReconcileObjects
  <2> QED
    BY <1>0, <2>1, <2>2 DEF WritesSurvive
<1>6. ASSUME RecoverRuns PROVE WritesSurvive'
  <2>1. ASSUME NEW q \in Runs PROVE runs'[q].status # "working"
    <3>1. runs[q] \in RunRow
      BY DEF MemoryTypeOK, RunRow
    <3> QED
      BY <1>6, <3>1 DEF RecoverRuns, RunRow
  <2>2. pins' = pins /\ files' = files
    BY <1>6 DEF RecoverRuns, storeVars
  <2> QED
    BY <1>0, <2>1, <2>2 DEF WritesSurvive
<1> QED
  BY <1>1, <1>2, <1>3, <1>4, <1>5, <1>6 DEF MemoryNext

\* Only a crash ends a process, and it ends its calls; only the registry's
\* reconciliation makes the list, and only the store's uses it.
LEMMA RestStep ==
    ASSUME MemoryTypeOK, StoreInv, [MemoryNext]_memoryVars
    PROVE  RestIsIdle' /\ ReachableIsCurrent'
<1>0. RestIsIdle /\ ReachableIsCurrent
  BY DEF StoreInv
<1>1. ASSUME phase = "up", phase' = "up" PROVE RestIsIdle' /\ ReachableIsCurrent'
  BY <1>1 DEF RestIsIdle, ReachableIsCurrent
<1>2. ASSUME UNCHANGED memoryVars PROVE RestIsIdle' /\ ReachableIsCurrent'
  BY <1>0, <1>2
  DEF RestIsIdle, ReachableIsCurrent, Reachable, DocumentBlobs, RunBlobs, memoryVars
<1>3. ASSUME NEW d \in Docs,
             \/ \E b \in Blobs : BeginPin(d, b) \/ BeginIndexRun(d, b)
             \/ PutMaterial(d) \/ RegisterMaterial(d) \/ IndexDocument(d) \/ AbandonPin(d)
             \/ CiteDocument(d) \/ Tombstone(d) \/ DeleteDocument(d)
             \/ AddShadowEmbeddings(d)
      PROVE  phase = "up" /\ phase' = "up"
  BY <1>3
  DEF BeginPin, BeginIndexRun, PutMaterial, RegisterMaterial, IndexDocument, AbandonPin,
      CiteDocument, Tombstone, DeleteDocument, AddShadowEmbeddings, envVars
<1>4. ASSUME \/ \E i \in Indexes : BeginShadowIndex(i)
             \/ ShadowChunks \/ FinishReindex \/ ReindexFails
      PROVE  phase = "up" /\ phase' = "up"
  BY <1>4 DEF BeginShadowIndex, ShadowChunks, FinishReindex, ReindexFails, envVars
<1>5. ASSUME NEW r \in Runs,
             \/ CreateRun(r) \/ AcceptOutput(r) \/ \E b \in Blobs : StoreOutput(r, b)
             \/ \E how \in {"succeeded", "ended"} : EndRun(r, how)
      PROVE  phase = "up" /\ phase' = "up"
  BY <1>5 DEF CreateRun, AcceptOutput, StoreOutput, EndRun, envVars
<1>6. ASSUME Crash PROVE RestIsIdle' /\ ReachableIsCurrent'
  BY <1>6 DEF Crash, RestIsIdle, ReachableIsCurrent, NoPin
<1>7. ASSUME OpenStore PROVE RestIsIdle' /\ ReachableIsCurrent'
  BY <1>0, <1>7 DEF OpenStore, RestIsIdle, ReachableIsCurrent, NoWork
<1>8. ASSUME ReconcileBlobRegistry PROVE RestIsIdle' /\ ReachableIsCurrent'
  BY <1>0, <1>8
  DEF ReconcileBlobRegistry, RestIsIdle, ReachableIsCurrent, Reachable, DocumentBlobs,
      RunBlobs, NoWork
<1>9. ASSUME ReconcileObjects PROVE RestIsIdle' /\ ReachableIsCurrent'
  BY <1>0, <1>9 DEF ReconcileObjects, RestIsIdle, ReachableIsCurrent, NoWork
<1>10. ASSUME RecoverRuns PROVE RestIsIdle' /\ ReachableIsCurrent'
  BY <1>10 DEF RecoverRuns, RestIsIdle, ReachableIsCurrent
<1> QED
  BY <1>1, <1>2, <1>3, <1>4, <1>5, <1>6, <1>7, <1>8, <1>9, <1>10 DEF MemoryNext

-----------------------------------------------------------------------------
(* The theorems. *)

LEMMA MemoryInitInv == ASSUME MemoryInit PROVE MemoryInv
<1>1. MemoryTypeOK
  BY MemoryInitTypes
<1>2. IndexInv
  BY DEF MemoryInit, IndexInv, ActiveIndexIsComplete, RunsAndReindexExclude, ShadowIsClean,
         Building, Ready, NoDoc, NoWork
<1>3. StoreInv
  BY DEF MemoryInit, StoreInv, ReferencedIsStored, RestIsIdle, WritesSurvive,
         ReachableIsCurrent, DocumentBlobs, RunBlobs, NoDoc, NoRun, NoPin, NoWork
<1> QED
  BY <1>1, <1>2, <1>3 DEF MemoryInv

LEMMA MemoryStep ==
    ASSUME MemoryInv, [MemoryNext]_memoryVars PROVE MemoryInv'
<1>1. MemoryTypeOK'
  BY MemoryTypeStep DEF MemoryInv, StoreInv, IndexInv
<1>2. IndexInv'
  BY IndexStep DEF MemoryInv, StoreInv
<1>3. StoreInv'
  BY ReferencedStep, WritesStep, RestStep DEF MemoryInv, StoreInv
<1> QED
  BY <1>1, <1>2, <1>3 DEF MemoryInv

\* The inductive invariant holds throughout: every step of the memory, of the
\* runs and of the start keeps it.
THEOREM MemoryInvariant == MemorySpec => []MemoryInv
BY MemoryInitInv, MemoryStep, PTL DEF MemorySpec

\* Every variable keeps its type.
THEOREM MemoryTypes == MemorySpec => []MemoryTypeOK
<1>1. MemoryInv => MemoryTypeOK
  BY DEF MemoryInv
<1> QED
  BY <1>1, MemoryInvariant, PTL

\* Retrieval never misses a ready document, whatever is being reindexed,
\* forgotten or restarted, and the index that is read is the one the head
\* names (IndexDocument, ForgetMemoryDocument, ActivateShadowIndex and Open).
THEOREM IndexIsComplete == MemorySpec => []ActiveIndexIsComplete
<1>1. MemoryInv => ActiveIndexIsComplete
  BY DEF MemoryInv, IndexInv
<1> QED
  BY <1>1, MemoryInvariant, PTL

\* What a document, an artifact or an accepted stage refers to is registered
\* and stored, through every deletion and every start that reclaims objects
\* (blobReferenceCount, ReconcileBlobRegistry and the store's Reconcile).
THEOREM ReferencedIsKept == MemorySpec => []ReferencedIsStored
<1>1. MemoryInv => ReferencedIsStored
  BY DEF MemoryInv, StoreInv
<1> QED
  BY <1>1, MemoryInvariant, PTL

\* A run and a reindexing never exist side by side, and a shadow index is
\* never left without the head that will resolve it.
THEOREM RunsAndReindexAreApart == MemorySpec => []RunsAndReindexExclude
<1>1. MemoryInv => RunsAndReindexExclude
  BY DEF MemoryInv, IndexInv
<1> QED
  BY <1>1, MemoryInvariant, PTL

(***************************************************************************)
(* The client of the App Server, for any number of turns, tool calls and   *)
(* requests and any size of the pipes: a turn's caller gets the result of  *)
(* its turn, and an elicitation is shown with the call it is about.  Both  *)
(* rest on what is on its way from the child: TurnInv relates it to the    *)
(* turns, OfferInv to the tool calls.                                      *)
(***************************************************************************)

-----------------------------------------------------------------------------
(* Types. *)

CallIds == Callers \X Nat
ClientRows == [at : {"idle", "turn", "sweep", "returned"} \cup Writing \cup Awaiting,
               nth : Nat, call : {"none", "pending", "ok", "error"},
               phase : {"start", "own", "all"}, target : Turns \cup {Nothing},
               left : SUBSET Turns,
               got : {"nothing", "failed", "quiesced", "hurried"} \cup Statuses,
               text : BOOLEAN]
TurnStates == [known : BOOLEAN, text : BOOLEAN, status : {Nothing} \cup Statuses]
ToChild == [op : {"start", "stop"}, id : CallIds, turn : Turns]
             \cup [op : {"reply"}, id : Requests, turn : {Nothing}]
FromChild == [kind : {"response"}, id : CallIds, ok : BOOLEAN]
               \cup [kind : {"started", "message"}, turn : Turns]
               \cup [kind : {"completed"}, turn : Turns, status : Statuses]
               \cup [kind : {"tool_started", "tool_ended"}, item : Items]
               \cup [kind : {"resolved", "request"}, request : Requests]

ClientTypes ==
    /\ caller \in [Callers -> ClientRows] /\ turns \in [Turns -> TurnStates]
    /\ stdin \in Seq(ToChild) /\ stdout \in Seq(FromChild)
    /\ owed \subseteq [id : CallIds, ok : BOOLEAN] /\ alive \in BOOLEAN /\ done \in BOOLEAN
    /\ served \in [Turns -> {Nothing, "running", "stopping"} \cup Statuses]
    /\ spoken \subseteq Turns
    /\ tracked \in [Items -> {Nothing, "unbound"} \cup Requests]
    /\ offer \in [Requests -> SUBSET Items]
    /\ item \in [Items -> {Nothing, "running", "over"}]
    /\ asked \in [Requests -> {Nothing, "asked", "answered"}]
    /\ replying \in {Nothing} \cup Requests /\ held \subseteq Requests
    /\ input \in Seq(Requests) /\ queue \in Seq(Requests)
    /\ ended \subseteq Turns

-----------------------------------------------------------------------------
(* A turn is started once: until its call is written the App Server does   *)
(* not know it, and no call for it is under way.                           *)
IsStart(m, t) == m.op = "start" /\ m.turn = t
NotAskedYet(t) == caller[t].at \in {"idle", "start"}
StartedOnce ==
    /\ \A a \in Callers : caller[a].at \in Writing => caller[a].target \in Turns
    /\ \A a \in Callers : caller[a].at = "start" => caller[a].target = a
    /\ \A t \in Turns :
          /\ NotAskedYet(t) => served[t] = Nothing
          /\ \A n \in DOMAIN stdin : IsStart(stdin[n], t) =>
                /\ ~NotAskedYet(t) /\ served[t] = Nothing
                /\ \A k \in DOMAIN stdin : IsStart(stdin[k], t) => k = n

(* What the App Server has said of a turn is on its way or recorded, and   *)
(* nothing follows the notification of its end.                            *)
Tells(m, t) == m.kind = "message" /\ m.turn = t
EndsTurn(m, t) == m.kind = "completed" /\ m.turn = t
NewsAreSound ==
    \A t \in Turns :
        /\ \A n \in DOMAIN stdout :
              /\ Tells(stdout[n], t) => t \in spoken
              /\ EndsTurn(stdout[n], t) =>
                    /\ served[t] = stdout[n].status
                    /\ \A k \in DOMAIN stdout : n < k => ~Tells(stdout[k], t)
        /\ turns[t].text => t \in spoken
        /\ t \in spoken => turns[t].text \/ \E n \in DOMAIN stdout : Tells(stdout[n], t)
        /\ turns[t].status # Nothing =>
              /\ served[t] = turns[t].status
              /\ \A n \in DOMAIN stdout : ~Tells(stdout[n], t)

TurnInv == ClientTypes /\ StartedOnce /\ NewsAreSound /\ TurnAnswersItsCaller

-----------------------------------------------------------------------------
(* Elicitations.                                                           *)

\* Codex asks for approval of a call at most once.  The client relies on it:
\* removeRequest stops tracking the call of a request, so that a second one about
\* it could bind to a like call (codex/mcp_elicitation.go removeRequest).  It is
\* a hypothesis of the one theorem that needs it.
OneApprovalPerCall == \A q, r \in Elicitations : AskedFor[q] = AskedFor[r] => q = r

AsksFor(m, r) == m.kind = "request" /\ m.request = r
StartsTool(m, i) == m.kind = "tool_started" /\ m.item = i
EndsCall(m, i) == (m.kind = "tool_ended" /\ m.item = i) \/ EndsTurn(m, TurnOf[i])

(* Item i is tracked when the reader has read all before position n. *)
TrackedAt(i, n) ==
    /\ tracked[i] = "unbound" \/ \E k \in DOMAIN stdout : k < n /\ StartsTool(stdout[k], i)
    /\ \A k \in DOMAIN stdout : k < n => ~EndsCall(stdout[k], i)

RequestsAreAsked ==
    \A r \in Requests : \A n \in DOMAIN stdout : AsksFor(stdout[n], r) =>
        /\ asked[r] # Nothing
        /\ \A k \in DOMAIN stdout : AsksFor(stdout[k], r) => k = n
ToolsAreSound ==
    \A i \in Items :
        /\ item[i] = "running" => served[TurnOf[i]] # Nothing /\ alive
        /\ alive => \A n \in DOMAIN stdout :
              stdout[n].kind = "tool_ended" /\ stdout[n].item = i => item[i] = "over"
RunsUnasked(i) ==
    /\ item[i] = "running" /\ served[TurnOf[i]] = "running"
    /\ \A r \in Requests : AskedFor[r] = i => asked[r] = Nothing
RunningIsTracked == \A i \in Items : RunsUnasked(i) => TrackedAt(i, Len(stdout) + 1)
SubjectIsTracked ==
    \A r \in Elicitations : \A n \in DOMAIN stdout :
        AsksFor(stdout[n], r) => TrackedAt(AskedFor[r], n)

OfferInv ==
    /\ RequestsAreAsked /\ ToolsAreSound /\ RunningIsTracked /\ SubjectIsTracked
    /\ OfferNamesItsCall
ClientInv == TurnInv /\ OfferInv

-----------------------------------------------------------------------------
(* Sequences. *)

LEMMA Appended ==
    ASSUME NEW S, NEW s \in Seq(S), NEW x \in S, NEW t, t = Append(s, x)
    PROVE  /\ t \in Seq(S) /\ Len(s) \in Nat /\ Len(t) = Len(s) + 1
           /\ DOMAIN s = 1..Len(s) /\ DOMAIN t = 1..Len(s) + 1
           /\ t[Len(s) + 1] = x /\ \A n \in 1..Len(s) : t[n] = s[n]
OBVIOUS

LEMMA Tailed ==
    ASSUME NEW S, NEW s \in Seq(S), s # <<>>, NEW t, t = Tail(s)
    PROVE  /\ t \in Seq(S) /\ Len(s) \in Nat /\ Len(s) > 0 /\ Len(t) = Len(s) - 1
           /\ DOMAIN s = 1..Len(s) /\ DOMAIN t = 1..Len(s) - 1
           /\ Head(s) = s[1] /\ s[1] \in S
           /\ \A n \in 1..Len(s) - 1 : t[n] = s[n + 1]
OBVIOUS

LEMMA SubjectTypes ==
    /\ \A r \in Requests : RequestTurn(r) \in Turns
    /\ \A r \in Elicitations : r \in Requests /\ AskedFor[r] \in Items
    /\ \A i \in Items : TurnOf[i] \in Turns
BY ClientAssumption DEF RequestTurn, Elicitations

-----------------------------------------------------------------------------
(* The goroutines that call. *)

\* A step of a caller that is not one to write turn/start keeps what it got.
GoesOn(a, next) ==
    /\ next \in ClientRows /\ next.at \notin {"idle", "start"}
    /\ next.at = "stop" => next.target \in Turns
    /\ next.got \in Statuses => next.got = caller[a].got
    /\ next.text = caller[a].text

LEMMA RowsGoOn ==
    ASSUME ClientTypes, NEW a \in Callers
    PROVE  /\ caller[a] \in ClientRows
           /\ \A aim \in {"start", "own", "all"}, t \in Turns : GoesOn(a, NewCall(a, "stop", aim, t))
           /\ \A aim \in {"start", "own", "all"}, left \in SUBSET Turns :
                 GoesOn(a, Sweeping(a, aim, left))
           /\ \A got \in {"failed", "quiesced", "hurried"} : GoesOn(a, Returned(a, got))
           /\ GoesOn(a, AfterFailure(a)) /\ GoesOn(a, AfterCall(a))
           /\ \A late \in BOOLEAN : GoesOn(a, AfterStop(a, late))
<1> DEFINE row == caller[a]
<1>1. /\ row \in ClientRows /\ row.nth + 1 \in Nat
  BY DEF ClientTypes, ClientRows
<1>2. \A aim \in {"start", "own", "all"}, t \in Turns : GoesOn(a, NewCall(a, "stop", aim, t))
  <2> SUFFICES ASSUME NEW aim \in {"start", "own", "all"}, NEW t \in Turns
               PROVE  GoesOn(a, NewCall(a, "stop", aim, t))
    OBVIOUS
  <2> DEFINE next == NewCall(a, "stop", aim, t)
  <2>1. next = [row EXCEPT !.at = "stop", !.nth = row.nth + 1, !.call = "pending",
                           !.phase = aim, !.target = t]
    BY DEF NewCall
  <2> HIDE DEF next, row
  <2>2. /\ next \in ClientRows /\ next.at = "stop" /\ next.target = t
        /\ next.got = row.got /\ next.text = row.text
    BY <1>1, <2>1 DEF ClientRows, Writing
  <2>3. GoesOn(a, next)
    BY <2>2 DEF GoesOn, row
  <2> QED
    BY <2>3 DEF next
<1>3. \A aim \in {"start", "own", "all"}, left \in SUBSET Turns :
         GoesOn(a, Sweeping(a, aim, left))
  <2> SUFFICES ASSUME NEW aim \in {"start", "own", "all"}, NEW left \in SUBSET Turns
               PROVE  GoesOn(a, Sweeping(a, aim, left))
    OBVIOUS
  <2> DEFINE next == Sweeping(a, aim, left)
  <2>1. next = [row EXCEPT !.at = "sweep", !.call = "none", !.phase = aim,
                           !.target = Nothing, !.left = left]
    BY DEF Sweeping
  <2> HIDE DEF next, row
  <2>2. /\ next \in ClientRows /\ next.at = "sweep" /\ next.got = row.got
        /\ next.text = row.text
    BY <1>1, <2>1 DEF ClientRows
  <2>3. GoesOn(a, next)
    BY <2>2 DEF GoesOn, row
  <2> QED
    BY <2>3 DEF next
<1>4. \A got \in {"failed", "quiesced", "hurried"} : GoesOn(a, Returned(a, got))
  <2> SUFFICES ASSUME NEW got \in {"failed", "quiesced", "hurried"}
               PROVE  GoesOn(a, Returned(a, got))
    OBVIOUS
  <2> DEFINE new == IF row.got = "nothing" THEN got ELSE row.got
             next == Returned(a, got)
  <2>1. next = [row EXCEPT !.at = "returned", !.call = "none", !.target = Nothing,
                           !.left = {}, !.got = new]
    BY DEF Returned
  <2>2. /\ new \in {"nothing", "failed", "quiesced", "hurried"} \cup Statuses
        /\ new \in Statuses => new = row.got
    BY <1>1 DEF ClientRows, Statuses
  <2> HIDE DEF new, row
  <2>3. /\ next \in ClientRows /\ next.at = "returned" /\ next.got = new
        /\ next.text = row.text
    BY <1>1, <2>1, <2>2 DEF ClientRows
  <2> HIDE DEF next
  <2>4. GoesOn(a, next)
    BY <2>2, <2>3 DEF GoesOn, row
  <2> QED
    BY <2>4 DEF next
<1>5. GoesOn(a, AfterFailure(a))
  BY <1>3, <1>4 DEF AfterFailure
<1>6. row.phase \in {"start", "own", "all"} /\ row.left \in SUBSET Turns
  BY <1>1 DEF ClientRows
<1>7. \A late \in BOOLEAN : GoesOn(a, AfterStop(a, late))
  BY <1>3, <1>4, <1>6 DEF AfterStop
<1>8. GoesOn(a, AfterCall(a))
  BY <1>5, <1>7 DEF AfterCall
<1> QED
  BY <1>1, <1>2, <1>3, <1>4, <1>5, <1>7, <1>8

\* What a caller's step may do: ask for its turn, write its call, get the
\* turn's result, or go on with what it has.
CallerMoves(a, next) ==
    /\ caller' = [caller EXCEPT ![a] = next] /\ next \in ClientRows
    /\ \/ /\ GoesOn(a, next) /\ stdin' = stdin
       \/ /\ a \in Turns /\ caller[a].at = "idle" /\ next.at = "start" /\ next.target = a
          /\ next.got = caller[a].got /\ next.text = caller[a].text /\ stdin' = stdin
       \/ /\ GoesOn(a, next) /\ caller[a].at \in Writing
          /\ stdin' = Append(stdin, [op |-> caller[a].at, id |-> <<a, caller[a].nth>>,
                                     turn |-> caller[a].target])
       \/ /\ a \in Turns /\ turns[a].status # Nothing /\ stdin' = stdin
          /\ next.at \notin {"idle", "start", "stop"}
          /\ next.got = turns[a].status /\ next.text = turns[a].text

LEMMA CallersMove ==
    ASSUME TurnInv,
           Begins \/ \E a \in Callers : CallerStep(a)
    PROVE  /\ \/ \E a \in Callers, next \in ClientRows : CallerMoves(a, next)
              \/ UNCHANGED <<caller, stdin>>
           /\ turns' \in [Turns -> TurnStates]
           /\ \A t \in Turns : turns'[t].text = turns[t].text /\ turns'[t].status = turns[t].status
<1> USE DEF TurnInv
<1> DEFINE Moves == \/ \E a \in Callers, next \in ClientRows : CallerMoves(a, next)
                    \/ UNCHANGED <<caller, stdin>>
           SameTurns == /\ turns' \in [Turns -> TurnStates]
                        /\ \A t \in Turns : turns'[t].text = turns[t].text
                                            /\ turns'[t].status = turns[t].status
<1>1. ASSUME turns' = turns PROVE SameTurns
  BY <1>1 DEF ClientTypes
<1>2. ASSUME NEW a \in Callers, NEW next, Becomes(a, next), GoesOn(a, next), stdin' = stdin
      PROVE  Moves
  <2>1. next \in ClientRows /\ CallerMoves(a, next)
    BY <1>2 DEF CallerMoves, Becomes, GoesOn
  <2> QED
    BY <2>1
<1>3. ASSUME NEW t \in Turns PROVE t \in Callers
  BY <1>3 DEF Callers
<1>4. Stopper \in Callers
  BY DEF Callers
<1>5. \A a \in Callers : caller[a] \in ClientRows
  BY RowsGoOn
<1>6. Active \in SUBSET Turns
  BY DEF Active
<1>7. ASSUME NEW t \in Turns, StartTurn(t) PROVE Moves /\ SameTurns
  <2> DEFINE next == NewCall(t, "start", "start", t)
  <2>1. /\ next \in ClientRows /\ next.at = "start" /\ next.target = t
        /\ next.got = caller[t].got /\ next.text = caller[t].text
    <3> DEFINE row == caller[t]
    <3>1. row \in ClientRows /\ row.nth + 1 \in Nat
      BY <1>3, <1>5 DEF ClientRows
    <3>2. next = [row EXCEPT !.at = "start", !.nth = row.nth + 1, !.call = "pending",
                             !.phase = "start", !.target = t]
      BY DEF NewCall
    <3> HIDE DEF row, next
    <3>3. /\ next \in ClientRows /\ next.at = "start" /\ next.target = t
          /\ next.got = row.got /\ next.text = row.text
      BY <3>1, <3>2 DEF ClientRows, Writing
    <3> QED
      BY <3>3 DEF row
  <2>2. CallerMoves(t, next)
    BY <1>7, <2>1 DEF CallerMoves, StartTurn, Becomes
  <2> QED
    BY <1>1, <1>3, <1>7, <2>1, <2>2 DEF StartTurn
<1>8. ASSUME NEW t \in Turns, NeverStarts(t) PROVE Moves /\ SameTurns
  BY <1>1, <1>2, <1>3, <1>8, RowsGoOn DEF NeverStarts
<1>9. ASSUME StopAll PROVE Moves /\ SameTurns
  <2>1. GoesOn(Stopper, Sweeping(Stopper, "all", Active))
    BY <1>4, <1>6, RowsGoOn
  <2> QED
    BY <1>1, <1>2, <1>4, <1>9, <2>1 DEF StopAll
<1>10. ASSUME NEW a \in Callers, WriteCall(a) PROVE Moves /\ SameTurns
  <2> DEFINE next == [caller[a] EXCEPT !.at = IF @ = "start" THEN "starting" ELSE "stopping"]
  <2>1. GoesOn(a, next)
    BY <1>5 DEF GoesOn, ClientRows, Writing, Awaiting
  <2>2. CallerMoves(a, next)
    BY <1>10, <2>1 DEF CallerMoves, WriteCall, Writes, Becomes, GoesOn
  <2>3. Moves
    BY <2>1, <2>2 DEF GoesOn
  <2> QED
    BY <1>1, <1>10, <2>3 DEF WriteCall
<1>11. ASSUME NEW a \in Callers, BlockCall(a) PROVE Moves /\ SameTurns
  BY <1>1, <1>11 DEF BlockCall, Blocks
<1>12. ASSUME NEW a \in Callers, CallFails(a) PROVE Moves /\ SameTurns
  BY <1>1, <1>2, <1>12, RowsGoOn DEF CallFails, WriteFails
<1>13. ASSUME NEW a \in Callers, SweepBegins(a) PROVE Moves /\ SameTurns
  <2>1. GoesOn(a, Sweeping(a, "all", Active))
    BY <1>6, RowsGoOn
  <2> QED
    BY <1>1, <1>2, <1>13, <2>1 DEF SweepBegins
<1>14. ASSUME NEW a \in Callers, SweepEnds(a) PROVE Moves /\ SameTurns
  BY <1>1, <1>2, <1>14, RowsGoOn DEF SweepEnds
<1>15. ASSUME NEW a \in Callers, NEW t \in Turns, SweepCalls(a, t) PROVE Moves /\ SameTurns
  <2> DEFINE mid == IF done THEN caller[a] ELSE NewCall(a, "stop", "all", t)
             next == [mid EXCEPT !.left = @ \ {t}]
  <2>1. mid \in ClientRows /\ GoesOn(a, mid)
    <3>1. GoesOn(a, NewCall(a, "stop", "all", t))
      BY RowsGoOn
    <3>2. GoesOn(a, caller[a])
      BY <1>5, <1>15 DEF SweepCalls, GoesOn
    <3> QED
      BY <3>1, <3>2 DEF GoesOn
  <2> HIDE DEF mid
  <2>2. GoesOn(a, next)
    BY <2>1 DEF GoesOn, ClientRows
  <2>3. Becomes(a, next) /\ stdin' = stdin /\ turns' = turns
    BY <1>15 DEF SweepCalls, mid
  <2> HIDE DEF next
  <2> QED
    BY <1>1, <1>2, <2>2, <2>3
<1>16. ASSUME NEW a \in Callers, NEW late \in BOOLEAN, StopAnswered(a, late)
       PROVE  Moves /\ SameTurns
  BY <1>1, <1>2, <1>16, RowsGoOn DEF StopAnswered
<1>17. ASSUME NEW t \in Turns, StartAnswered(t) PROVE Moves /\ SameTurns
  <2> DEFINE next == [caller[t] EXCEPT !.at = "turn", !.call = "none", !.target = Nothing]
  <2>1. GoesOn(t, next)
    <3> DEFINE row == caller[t]
    <3>1. row \in ClientRows
      BY <1>3, <1>5
    <3>2. next = [row EXCEPT !.at = "turn", !.call = "none", !.target = Nothing]
      OBVIOUS
    <3> HIDE DEF row, next
    <3>3. /\ next \in ClientRows /\ next.at = "turn" /\ next.got = row.got
          /\ next.text = row.text
      BY <3>1, <3>2 DEF ClientRows
    <3> QED
      BY <3>3 DEF GoesOn, row
  <2>2. Becomes(t, next) /\ stdin' = stdin /\ turns' = [turns EXCEPT ![t].known = TRUE]
    BY <1>17 DEF StartAnswered
  <2>3. SameTurns
    BY <2>2 DEF ClientTypes, TurnStates
  <2> HIDE DEF next
  <2> QED
    BY <1>2, <1>3, <2>1, <2>2, <2>3
<1>18. ASSUME NEW t \in Turns, StartAbandoned(t) PROVE Moves /\ SameTurns
  BY <1>1, <1>2, <1>3, <1>18, RowsGoOn DEF StartAbandoned
<1>19. ASSUME NEW t \in Turns, TurnReturns(t) PROVE Moves /\ SameTurns
  <2> DEFINE mid == IF turns[t].status = "interrupted" /\ t \in ended
                    THEN Sweeping(t, "own", {}) ELSE Returned(t, turns[t].status)
             next == [mid EXCEPT !.got = turns[t].status, !.text = turns[t].text]
  <2>0. /\ turns[t].status \in Statuses /\ turns[t].text \in BOOLEAN
        /\ caller[t] \in ClientRows
    BY <1>3, <1>5, <1>19 DEF TurnReturns, ClientTypes, TurnStates
  <2>1. Sweeping(t, "own", {}) \in ClientRows /\ Sweeping(t, "own", {}).at = "sweep"
    <3> DEFINE new == Sweeping(t, "own", {})
               row == caller[t]
    <3>1. new = [row EXCEPT !.at = "sweep", !.call = "none", !.phase = "own",
                            !.target = Nothing, !.left = {}]
      BY DEF Sweeping
    <3> HIDE DEF new, row
    <3>2. new \in ClientRows /\ new.at = "sweep"
      BY <2>0, <3>1 DEF ClientRows, row
    <3> QED
      BY <3>2 DEF new
  <2>2. /\ Returned(t, turns[t].status) \in ClientRows
        /\ Returned(t, turns[t].status).at = "returned"
    <3> DEFINE row == caller[t]
               got == IF row.got = "nothing" THEN turns[t].status ELSE row.got
               new == Returned(t, turns[t].status)
    <3>1. new = [row EXCEPT !.at = "returned", !.call = "none", !.target = Nothing,
                            !.left = {}, !.got = got]
      BY DEF Returned
    <3>2. got \in {"nothing", "failed", "quiesced", "hurried"} \cup Statuses
      BY <2>0 DEF ClientRows
    <3> HIDE DEF new, row, got
    <3>3. new \in ClientRows /\ new.at = "returned"
      BY <2>0, <3>1, <3>2 DEF ClientRows, row
    <3> QED
      BY <3>3 DEF new
  <2>3. mid \in ClientRows /\ mid.at \in {"sweep", "returned"}
    BY <2>1, <2>2
  <2> HIDE DEF mid
  <2>4. /\ next \in ClientRows /\ next.at \notin {"idle", "start", "stop"}
        /\ next.got = turns[t].status /\ next.text = turns[t].text
    <3>1. PICK status, text : status = turns[t].status /\ text = turns[t].text
      OBVIOUS
    <3>2. next = [mid EXCEPT !.got = status, !.text = text]
      BY <3>1
    <3> HIDE DEF next
    <3>3. /\ next \in ClientRows /\ next.at = mid.at /\ next.got = status /\ next.text = text
      BY <2>0, <2>3, <3>1, <3>2 DEF ClientRows
    <3> QED
      BY <2>3, <3>1, <3>3
  <2>5. Becomes(t, next) /\ stdin' = stdin /\ turns' = turns
    BY <1>19 DEF TurnReturns, mid
  <2> HIDE DEF next
  <2>6. CallerMoves(t, next)
    BY <1>19, <2>4, <2>5 DEF CallerMoves, Becomes, TurnReturns
  <2> QED
    BY <1>1, <1>3, <2>4, <2>5, <2>6
<1>20. ASSUME NEW t \in Turns, TurnAbandoned(t) PROVE Moves /\ SameTurns
  <2>1. GoesOn(t, IF done THEN AfterFailure(t) ELSE NewCall(t, "stop", "own", t))
    BY <1>3, RowsGoOn
  <2> QED
    BY <1>1, <1>2, <1>3, <1>20, <2>1 DEF TurnAbandoned
<1>21. ASSUME NEW t \in Turns, TurnLost(t) PROVE Moves /\ SameTurns
  BY <1>1, <1>2, <1>3, <1>21, RowsGoOn DEF TurnLost
<1> HIDE DEF Moves, SameTurns
<1>22. ASSUME Begins PROVE Moves /\ SameTurns
  BY <1>7, <1>8, <1>9, <1>22 DEF Begins
<1>23. ASSUME NEW a \in Callers, CallerStep(a) PROVE Moves /\ SameTurns
  BY <1>10, <1>11, <1>12, <1>13, <1>14, <1>15, <1>16, <1>17, <1>18, <1>19, <1>20, <1>21, <1>23
     DEF CallerStep, CallerWrites
<1>24. Moves /\ SameTurns
  BY <1>22, <1>23
<1> QED
  BY <1>24 DEF Moves, SameTurns

LEMMA CallersKeepTurns ==
    ASSUME TurnInv, Begins \/ \E a \in Callers : CallerStep(a)
    PROVE  TurnInv'
<1> USE DEF TurnInv
<1>1. UNCHANGED <<ended, trackVars, eventVars, closing, done, stdout, serverVars>>
  BY DEF Begins, CallerStep
<1>2. /\ turns' \in [Turns -> TurnStates]
      /\ \A t \in Turns : turns'[t].text = turns[t].text /\ turns'[t].status = turns[t].status
  BY CallersMove
<1>3. NewsAreSound'
  BY <1>1, <1>2 DEF NewsAreSound, serverVars
<1>4. ASSUME UNCHANGED <<caller, stdin>> PROVE TurnInv'
  <2>1. ClientTypes'
    BY <1>1, <1>2, <1>4 DEF ClientTypes, trackVars, eventVars, serverVars
  <2>2. StartedOnce' /\ TurnAnswersItsCaller'
    BY <1>1, <1>4 DEF StartedOnce, TurnAnswersItsCaller, NotAskedYet, serverVars
  <2> QED
    BY <1>3, <2>1, <2>2
<1>5. ASSUME NEW a \in Callers, NEW next \in ClientRows, CallerMoves(a, next)
      PROVE  TurnInv'
  <2>1. /\ caller' \in [Callers -> ClientRows] /\ caller'[a] = next
        /\ \A b \in Callers : b # a => caller'[b] = caller[b]
        /\ caller[a] \in ClientRows /\ Turns \subseteq Callers
    BY <1>5 DEF CallerMoves, ClientTypes, Callers
  <2> DEFINE msg == [op |-> caller[a].at, id |-> <<a, caller[a].nth>>, turn |-> caller[a].target]
  <2>2. CASE stdin' = stdin
    <3>1. ClientTypes'
      BY <1>1, <1>2, <2>1, <2>2 DEF ClientTypes, trackVars, eventVars, serverVars
    <3>2. /\ next.at \in Writing => next.target \in Turns
          /\ next.at = "start" => next.target = a
          /\ next.at \in {"idle", "start"} => caller[a].at \in {"idle", "start"}
          /\ next.got \in Statuses =>
                \/ next.got = caller[a].got /\ next.text = caller[a].text
                \/ a \in Turns /\ turns[a].status # Nothing
                   /\ next.got = turns[a].status /\ next.text = turns[a].text
      BY <1>5, <2>1, <2>2 DEF CallerMoves, GoesOn, StartedOnce, Writing
    <3>3. \A b \in Callers : /\ caller'[b].at \in Writing => caller'[b].target \in Turns
                             /\ caller'[b].at = "start" => caller'[b].target = b
      BY <2>1, <3>2 DEF StartedOnce
    <3>4. \A t \in Turns : NotAskedYet(t)' => NotAskedYet(t)
      BY <2>1, <3>2 DEF NotAskedYet
    <3>5. StartedOnce'
      BY <1>1, <2>2, <3>3, <3>4 DEF StartedOnce, serverVars
    <3>6. TurnAnswersItsCaller'
      <4> SUFFICES ASSUME NEW t \in Turns, caller'[t].got \in Statuses
                   PROVE  caller'[t].got = served[t] /\ caller'[t].text = (t \in spoken)
        BY <1>1 DEF TurnAnswersItsCaller, serverVars
      <4>1. CASE caller'[t].got = caller[t].got /\ caller'[t].text = caller[t].text
        BY <4>1 DEF TurnAnswersItsCaller
      <4>2. CASE /\ turns[t].status # Nothing
                 /\ caller'[t].got = turns[t].status /\ caller'[t].text = turns[t].text
        <5>1. served[t] = turns[t].status /\ (t \in spoken => turns[t].text)
          BY <4>2 DEF NewsAreSound
        <5>2. turns[t].text \in BOOLEAN /\ (turns[t].text => t \in spoken)
          BY DEF ClientTypes, TurnStates, NewsAreSound
        <5>3. turns[t].text = (t \in spoken)
          BY <5>1, <5>2
        <5> QED
          BY <4>2, <5>1, <5>3
      <4> QED
        BY <2>1, <3>2, <4>1, <4>2
    <3> QED
      BY <1>3, <3>1, <3>5, <3>6
  <2>3. CASE GoesOn(a, next) /\ caller[a].at \in Writing /\ stdin' = Append(stdin, msg)
    <3>1. msg \in ToChild
      BY <2>1, <2>3 DEF ToChild, CallIds, ClientRows, StartedOnce, Writing
    <3>2. stdin \in Seq(ToChild)
      BY DEF ClientTypes
    <3> DEFINE n1 == Len(stdin) + 1
    <3>3. /\ stdin' \in Seq(ToChild) /\ Len(stdin) \in Nat
          /\ DOMAIN stdin = 1..Len(stdin) /\ DOMAIN stdin' = 1..n1
          /\ stdin'[n1] = msg /\ \A n \in 1..Len(stdin) : stdin'[n] = stdin[n]
      BY <2>3, <3>1, <3>2, Appended
    <3>4. ClientTypes'
      BY <1>1, <1>2, <2>1, <3>3 DEF ClientTypes, trackVars, eventVars, serverVars
    <3>5. \A b \in Callers : /\ caller'[b].at \in Writing => caller'[b].target \in Turns
                             /\ caller'[b].at = "start" => caller'[b].target = b
      BY <2>1, <2>3 DEF StartedOnce, GoesOn, Writing
    <3>6. \A t \in Turns : NotAskedYet(t)' => NotAskedYet(t) /\ t # a
      BY <2>1, <2>3 DEF NotAskedYet, GoesOn
    <3>7. \A t \in Turns : IsStart(msg, t) => t = a /\ NotAskedYet(t)
      BY <2>3 DEF IsStart, StartedOnce, NotAskedYet, Writing
    <3> HIDE DEF msg
    <3>8. ASSUME NEW t \in Turns
          PROVE  /\ NotAskedYet(t)' => served[t] = Nothing
                 /\ \A n \in DOMAIN stdin' : IsStart(stdin'[n], t) =>
                       /\ ~NotAskedYet(t)' /\ served[t] = Nothing
                       /\ \A k \in DOMAIN stdin' : IsStart(stdin'[k], t) => k = n
      <4>1. /\ NotAskedYet(t) => served[t] = Nothing
            /\ \A n \in 1..Len(stdin) : IsStart(stdin[n], t) =>
                  /\ ~NotAskedYet(t) /\ served[t] = Nothing
                  /\ \A k \in 1..Len(stdin) : IsStart(stdin[k], t) => k = n
        BY <3>3 DEF StartedOnce
      <4>2. CASE IsStart(msg, t)
        <5>1. t = a /\ NotAskedYet(t) /\ ~NotAskedYet(t)' /\ served[t] = Nothing
          BY <3>6, <3>7, <4>1, <4>2
        <5>2. \A n \in 1..Len(stdin) : ~IsStart(stdin'[n], t)
          BY <3>3, <4>1, <5>1
        <5>3. \A n \in DOMAIN stdin' : IsStart(stdin'[n], t) => n = n1
          BY <3>3, <5>2
        <5> QED
          BY <5>1, <5>3
      <4>3. CASE ~IsStart(msg, t)
        <5>1. \A n \in DOMAIN stdin' : IsStart(stdin'[n], t) =>
                 n \in 1..Len(stdin) /\ IsStart(stdin[n], t)
          BY <3>3, <4>3
        <5>2. NotAskedYet(t)' => NotAskedYet(t)
          BY <3>6
        <5> QED
          BY <4>1, <5>1, <5>2
      <4> QED
        BY <4>2, <4>3
    <3>9. StartedOnce'
      BY <1>1, <3>5, <3>8 DEF StartedOnce, serverVars
    <3>10. TurnAnswersItsCaller'
      BY <1>1, <2>1, <2>3 DEF TurnAnswersItsCaller, GoesOn, serverVars
    <3> QED
      BY <1>3, <3>4, <3>9, <3>10
  <2> QED
    BY <1>5, <2>2, <2>3 DEF CallerMoves
<1> QED
  BY <1>4, <1>5, CallersMove

-----------------------------------------------------------------------------
(* Steps that leave the callers and the turns alone. *)

\* Nothing the turns depend on is touched, but what is written may be a reply.
LEMMA RepliesKeepTurns ==
    ASSUME TurnInv, ClientTypes', UNCHANGED <<caller, turns, stdout, served, spoken>>,
           \/ stdin' = stdin
           \/ \E r \in Requests : stdin' = Append(stdin, Reply(r))
    PROVE  TurnInv'
<1> USE DEF TurnInv
<1>1. NewsAreSound' /\ TurnAnswersItsCaller'
  BY DEF NewsAreSound, TurnAnswersItsCaller
<1>2. ASSUME stdin' = stdin PROVE StartedOnce'
  BY <1>2 DEF StartedOnce, NotAskedYet
<1>3. ASSUME NEW r \in Requests, stdin' = Append(stdin, Reply(r)) PROVE StartedOnce'
  <2>1. Reply(r) \in ToChild /\ stdin \in Seq(ToChild)
    BY DEF Reply, ToChild, ClientTypes
  <2>2. /\ Len(stdin) \in Nat /\ DOMAIN stdin = 1..Len(stdin)
        /\ DOMAIN stdin' = 1..Len(stdin) + 1 /\ stdin'[Len(stdin) + 1] = Reply(r)
        /\ \A n \in 1..Len(stdin) : stdin'[n] = stdin[n]
    BY <1>3, <2>1, Appended
  <2>3. \A t \in Turns : ~IsStart(Reply(r), t)
    BY DEF Reply, IsStart
  <2>4. \A t \in Turns : \A n \in DOMAIN stdin' : IsStart(stdin'[n], t) =>
           n \in DOMAIN stdin /\ IsStart(stdin[n], t)
    BY <2>2, <2>3
  <2> QED
    BY <2>4 DEF StartedOnce, NotAskedYet
<1> QED
  BY <1>1, <1>2, <1>3

\* The position a message had before the reader took the first.
LEMMA ReadOne ==
    ASSUME ClientTypes, stdout # <<>>, stdout' = Tail(stdout)
    PROVE  /\ stdout' \in Seq(FromChild) /\ Head(stdout) = stdout[1] /\ stdout[1] \in FromChild
           /\ Len(stdout) \in Nat /\ Len(stdout') = Len(stdout) - 1
           /\ DOMAIN stdout = 1..Len(stdout) /\ 1 \in DOMAIN stdout
           /\ \A n \in DOMAIN stdout' :
                 n + 1 \in DOMAIN stdout /\ stdout'[n] = stdout[n + 1] /\ n \in Nat /\ n > 0
           /\ \A n \in DOMAIN stdout : n = 1 \/ (n - 1 \in DOMAIN stdout' /\ stdout'[n - 1] = stdout[n])
<1>1. stdout \in Seq(FromChild)
  BY DEF ClientTypes
<1>2. /\ stdout' \in Seq(FromChild) /\ Len(stdout) \in Nat /\ Len(stdout) > 0
      /\ Len(stdout') = Len(stdout) - 1
      /\ DOMAIN stdout = 1..Len(stdout) /\ DOMAIN stdout' = 1..Len(stdout) - 1
      /\ Head(stdout) = stdout[1] /\ stdout[1] \in FromChild
      /\ \A n \in 1..Len(stdout) - 1 : stdout'[n] = stdout[n + 1]
  BY <1>1, Tailed
<1>3. \A n \in DOMAIN stdout : n = 1 \/ (n - 1 \in 1..Len(stdout) - 1 /\ n - 1 + 1 = n)
  BY <1>2
<1> QED
  BY <1>2, <1>3

\* What reading the first message h does to the callers, the turns, the
\* tracked calls and the offers.
SameCallers ==
    /\ caller' \in [Callers -> ClientRows]
    /\ \A a \in Callers : /\ caller'[a].at = caller[a].at /\ caller'[a].target = caller[a].target
                          /\ caller'[a].got = caller[a].got /\ caller'[a].text = caller[a].text
TurnsHear(h) ==
    /\ turns' \in [Turns -> TurnStates]
    /\ \A t \in Turns :
          /\ turns'[t].text = (turns[t].text \/ Tells(h, t))
          /\ turns'[t].status = IF EndsTurn(h, t) THEN h.status ELSE turns[t].status
CallsFollow(h) ==
    /\ tracked' \in [Items -> {Nothing, "unbound"} \cup Requests]
    /\ \A i \in Items :
          /\ StartsTool(h, i) => tracked'[i] = "unbound"
          /\ tracked[i] = "unbound" /\ ~EndsCall(h, i) =>
                \/ tracked'[i] = "unbound"
                \/ \E r \in Elicitations : AsksFor(h, r) /\ Binds(r, i)
    /\ offer' \in [Requests -> SUBSET Items]
    /\ \A r \in Requests :
          offer'[r] = offer[r] \/ (AsksFor(h, r) /\ offer'[r] = {i \in Items : Binds(r, i)})

LEMMA ReadsDo ==
    ASSUME ClientTypes, Reads
    PROVE  /\ stdout # <<>> /\ stdout' = Tail(stdout)
           /\ UNCHANGED <<ended, queue, held, done, stdin, serverVars>>
           /\ SameCallers /\ TurnsHear(stdout[1]) /\ CallsFollow(stdout[1])
           /\ input' \in Seq(Requests) /\ replying' \in {Nothing} \cup Requests
<1>1. /\ stdout # <<>> /\ stdout' = Tail(stdout)
      /\ UNCHANGED <<ended, queue, held, done, stdin, serverVars>>
  BY DEF Reads, ReadResponse, ReadTurnEvent, ReadCompleted, ReadToolEvent, ReadRequest, Reading
<1> DEFINE h == stdout[1]
<1>2. Head(stdout) = h /\ h \in FromChild
  BY <1>1, ReadOne
<1>3. caller' = caller => SameCallers
  BY DEF SameCallers, ClientTypes
<1>4. turns' = turns /\ h.kind \notin {"message", "completed"} => TurnsHear(h)
  BY DEF TurnsHear, Tells, EndsTurn, ClientTypes, TurnStates
<1>5. UNCHANGED <<tracked, offer>> /\ h.kind # "tool_started" => CallsFollow(h)
  BY DEF CallsFollow, StartsTool, ClientTypes
<1>6. ASSUME ReadResponse
      PROVE  /\ SameCallers /\ TurnsHear(h) /\ CallsFollow(h)
             /\ input' \in Seq(Requests) /\ replying' \in {Nothing} \cup Requests
  <2>1. h.kind = "response" /\ h.id \in CallIds /\ h.ok \in BOOLEAN
    BY <1>2, <1>6 DEF ReadResponse, Kind, FromChild
  <2> DEFINE a == h.id[1]
  <2>2. a \in Callers
    BY <2>1 DEF CallIds
  <2>3. \/ caller' = caller
        \/ \E outcome \in {"ok", "error"} : caller' = [caller EXCEPT ![a].call = outcome]
    BY <1>2, <1>6 DEF ReadResponse, Kind
  <2>4. ASSUME NEW outcome \in {"ok", "error"}, caller' = [caller EXCEPT ![a].call = outcome]
        PROVE  SameCallers
    <3>1. \A b \in Callers : caller[b] \in ClientRows
      BY DEF ClientTypes
    <3> HIDE DEF a
    <3> DEFINE new == [caller[a] EXCEPT !.call = outcome]
    <3>2. /\ new \in ClientRows /\ new.at = caller[a].at /\ new.target = caller[a].target
          /\ new.got = caller[a].got /\ new.text = caller[a].text
      BY <2>2, <3>1 DEF ClientRows
    <3>3. /\ caller' = [caller EXCEPT ![a] = new]
      BY <2>4
    <3> HIDE DEF new
    <3> QED
      BY <2>2, <3>1, <3>2, <3>3 DEF SameCallers, ClientTypes
  <2>5. SameCallers
    BY <1>3, <2>3, <2>4
  <2>6. /\ TurnsHear(h) /\ CallsFollow(h)
    BY <1>4, <1>5, <1>6, <2>1 DEF ReadResponse, trackVars
  <2> QED
    BY <1>6, <2>5, <2>6 DEF ReadResponse, ClientTypes
<1>7. ASSUME ReadTurnEvent
      PROVE  /\ SameCallers /\ TurnsHear(h) /\ CallsFollow(h)
             /\ input' \in Seq(Requests) /\ replying' \in {Nothing} \cup Requests
  <2>1. h.kind \in {"started", "message"} /\ h.turn \in Turns
    BY <1>2, <1>7 DEF ReadTurnEvent, Kind, FromChild
  <2> DEFINE b == turns[h.turn].text \/ h.kind = "message"
             new == [turns[h.turn] EXCEPT !.known = TRUE, !.text = b]
  <2>2. turns' = [turns EXCEPT ![h.turn] = new]
    BY <1>2, <1>7 DEF ReadTurnEvent, Kind
  <2>3. b \in BOOLEAN /\ turns[h.turn] \in TurnStates
    BY <2>1 DEF ClientTypes
  <2> HIDE DEF b
  <2>4. new \in TurnStates /\ new.text = b /\ new.status = turns[h.turn].status
    BY <2>3 DEF TurnStates
  <2> HIDE DEF new
  <2>5. \A t \in Turns : turns[t].text \in BOOLEAN /\ (t # h.turn => turns'[t] = turns[t])
    BY <2>1, <2>2 DEF ClientTypes, TurnStates
  <2>6. turns' \in [Turns -> TurnStates] /\ turns'[h.turn] = new
    BY <2>1, <2>2, <2>4 DEF ClientTypes
  <2>7. TurnsHear(h)
    BY <2>1, <2>4, <2>5, <2>6 DEF TurnsHear, Tells, EndsTurn, b
  <2> QED
    BY <1>3, <1>5, <1>7, <2>1, <2>7 DEF ReadTurnEvent, ClientTypes, trackVars
<1>8. ASSUME ReadCompleted
      PROVE  /\ SameCallers /\ TurnsHear(h) /\ CallsFollow(h)
             /\ input' \in Seq(Requests) /\ replying' \in {Nothing} \cup Requests
  <2>1. h.kind = "completed" /\ h.turn \in Turns /\ h.status \in Statuses
    BY <1>2, <1>8 DEF ReadCompleted, Kind, FromChild
  <2> DEFINE new == [turns[h.turn] EXCEPT !.known = TRUE, !.status = h.status]
  <2>2. turns' = [turns EXCEPT ![h.turn] = new]
    BY <1>2, <1>8 DEF ReadCompleted, Kind
  <2>3. new \in TurnStates /\ new.text = turns[h.turn].text /\ new.status = h.status
    <3>1. turns[h.turn] \in TurnStates
      BY <2>1 DEF ClientTypes
    <3>2. PICK old, status : old = turns[h.turn] /\ status = h.status
      OBVIOUS
    <3>3. new = [old EXCEPT !.known = TRUE, !.status = status]
      BY <3>2
    <3> HIDE DEF new
    <3>4. new \in TurnStates /\ new.text = old.text /\ new.status = status
      BY <2>1, <3>1, <3>2, <3>3 DEF TurnStates
    <3> QED
      BY <3>2, <3>4
  <2> HIDE DEF new
  <2>4. TurnsHear(h)
    BY <2>1, <2>2, <2>3 DEF TurnsHear, Tells, EndsTurn, ClientTypes, TurnStates
  <2>5. /\ tracked' = [i \in Items |-> IF TurnOf[i] = h.turn THEN Nothing ELSE tracked[i]]
        /\ offer' = offer
    BY <1>2, <1>8 DEF ReadCompleted, Kind
  <2>6. CallsFollow(h)
    BY <2>1, <2>5 DEF CallsFollow, StartsTool, EndsCall, EndsTurn, ClientTypes
  <2> QED
    BY <1>3, <1>8, <2>4, <2>6 DEF ReadCompleted, ClientTypes
<1>9. ASSUME ReadToolEvent
      PROVE  /\ SameCallers /\ TurnsHear(h) /\ CallsFollow(h)
             /\ input' \in Seq(Requests) /\ replying' \in {Nothing} \cup Requests
  <2>1. h.kind \in {"tool_started", "tool_ended", "resolved"} /\ offer' = offer
    BY <1>2, <1>9 DEF ReadToolEvent, Kind
  <2>2. CASE h.kind = "tool_started"
    <3>1. tracked' = [tracked EXCEPT ![h.item] = "unbound"] /\ h.item \in Items
      BY <1>2, <1>9, <2>2 DEF ReadToolEvent, Kind, FromChild
    <3> QED
      BY <1>3, <1>4, <1>9, <2>1, <2>2, <3>1 DEF CallsFollow, StartsTool, ReadToolEvent, ClientTypes
  <2>3. CASE h.kind = "tool_ended"
    <3>1. tracked' = [tracked EXCEPT ![h.item] = Nothing] /\ h.item \in Items
      BY <1>2, <1>9, <2>3 DEF ReadToolEvent, Kind, FromChild
    <3> QED
      BY <1>3, <1>4, <1>9, <2>1, <2>3, <3>1
         DEF CallsFollow, StartsTool, EndsCall, ReadToolEvent, ClientTypes
  <2>4. CASE h.kind = "resolved"
    <3>1. /\ tracked' = [i \in Items |-> IF tracked[i] = h.request THEN Nothing ELSE tracked[i]]
          /\ h.request \in Requests
      BY <1>2, <1>9, <2>4 DEF ReadToolEvent, Kind, FromChild
    <3>2. h.request # "unbound"
      BY <3>1, ClientAssumption
    <3> QED
      BY <1>3, <1>4, <1>9, <2>1, <2>4, <3>1, <3>2
         DEF CallsFollow, StartsTool, EndsCall, ReadToolEvent, ClientTypes
  <2> QED
    BY <2>1, <2>2, <2>3, <2>4
<1>10. ASSUME ReadRequest
       PROVE  /\ SameCallers /\ TurnsHear(h) /\ CallsFollow(h)
              /\ input' \in Seq(Requests) /\ replying' \in {Nothing} \cup Requests
  <2>1. h.kind = "request" /\ h.request \in Requests
    BY <1>2, <1>10 DEF ReadRequest, Kind, FromChild
  <2> DEFINE r == h.request
  <2>2. SameCallers /\ TurnsHear(h)
    BY <1>3, <1>4, <1>10, <2>1 DEF ReadRequest
  <2>3. CASE /\ Queues(r) /\ replying' = replying
             /\ tracked' = [i \in Items |-> IF Binds(r, i) THEN r ELSE tracked[i]]
             /\ offer' = [offer EXCEPT ![r] = {i \in Items : Binds(r, i)}]
    <3>1. \A i \in Items : Binds(r, i) => r \in Elicitations
      BY DEF Binds
    <3>2. CallsFollow(h)
      BY <2>1, <2>3, <3>1 DEF CallsFollow, StartsTool, AsksFor, ClientTypes
    <3>3. input' \in Seq(Requests)
      BY <2>1, <2>3, Appended DEF Queues, ClientTypes
    <3> QED
      BY <2>2, <2>3, <3>2, <3>3 DEF ClientTypes
  <2>4. CASE replying' = r /\ UNCHANGED <<input, tracked, offer>>
    BY <1>5, <2>1, <2>2, <2>4 DEF ClientTypes
  <2> QED
    BY <1>2, <1>10, <2>3, <2>4 DEF ReadRequest, Kind, trackVars
<1> QED
  BY <1>1, <1>6, <1>7, <1>8, <1>9, <1>10 DEF Reads

LEMMA ReadsKeepTurns ==
    ASSUME TurnInv, Reads
    PROVE  TurnInv'
<1> USE DEF TurnInv
<1> DEFINE h == stdout[1]
<1>1. /\ stdout # <<>> /\ stdout' = Tail(stdout)
      /\ UNCHANGED <<ended, queue, held, done, stdin, serverVars>>
      /\ SameCallers /\ TurnsHear(h) /\ CallsFollow(h)
      /\ input' \in Seq(Requests) /\ replying' \in {Nothing} \cup Requests
  BY ReadsDo
<1>2. /\ stdout' \in Seq(FromChild) /\ 1 \in DOMAIN stdout
      /\ \A n \in DOMAIN stdout' :
            n + 1 \in DOMAIN stdout /\ stdout'[n] = stdout[n + 1] /\ n \in Nat /\ n > 0
      /\ \A n \in DOMAIN stdout : n = 1 \/ (n - 1 \in DOMAIN stdout' /\ stdout'[n - 1] = stdout[n])
  BY <1>1, ReadOne
<1>3. ClientTypes'
  BY <1>1, <1>2 DEF ClientTypes, SameCallers, TurnsHear, CallsFollow, serverVars
<1>4. StartedOnce'
  BY <1>1 DEF StartedOnce, NotAskedYet, SameCallers, serverVars, Callers
<1>5. TurnAnswersItsCaller'
  BY <1>1 DEF TurnAnswersItsCaller, SameCallers, serverVars, Callers
<1>6. ASSUME NEW t \in Turns
      PROVE  /\ \A n \in DOMAIN stdout' :
                   /\ Tells(stdout'[n], t) => t \in spoken
                   /\ EndsTurn(stdout'[n], t) =>
                         /\ served[t] = stdout'[n].status
                         /\ \A k \in DOMAIN stdout' : n < k => ~Tells(stdout'[k], t)
             /\ turns'[t].text => t \in spoken
             /\ t \in spoken => turns'[t].text \/ \E n \in DOMAIN stdout' : Tells(stdout'[n], t)
             /\ turns'[t].status # Nothing =>
                   /\ served[t] = turns'[t].status
                   /\ \A n \in DOMAIN stdout' : ~Tells(stdout'[n], t)
  <2>1. /\ \A n \in DOMAIN stdout :
              /\ Tells(stdout[n], t) => t \in spoken
              /\ EndsTurn(stdout[n], t) =>
                    /\ served[t] = stdout[n].status
                    /\ \A k \in DOMAIN stdout : n < k => ~Tells(stdout[k], t)
        /\ turns[t].text => t \in spoken
        /\ t \in spoken => turns[t].text \/ \E n \in DOMAIN stdout : Tells(stdout[n], t)
        /\ turns[t].status # Nothing =>
              /\ served[t] = turns[t].status
              /\ \A n \in DOMAIN stdout : ~Tells(stdout[n], t)
    BY DEF NewsAreSound
  <2>2. /\ turns'[t].text = (turns[t].text \/ Tells(h, t))
        /\ turns'[t].status = IF EndsTurn(h, t) THEN h.status ELSE turns[t].status
    BY <1>1 DEF TurnsHear
  <2>3. \A n \in DOMAIN stdout' :
           /\ Tells(stdout'[n], t) => t \in spoken
           /\ EndsTurn(stdout'[n], t) =>
                 /\ served[t] = stdout'[n].status
                 /\ \A k \in DOMAIN stdout' : n < k => ~Tells(stdout'[k], t)
    <3>1. \A n, k \in DOMAIN stdout' : n < k => n + 1 < k + 1
      BY <1>2
    <3> QED
      BY <1>2, <2>1, <3>1
  <2>4. turns'[t].text => t \in spoken
    BY <1>2, <2>1, <2>2
  <2>5. t \in spoken => turns'[t].text \/ \E n \in DOMAIN stdout' : Tells(stdout'[n], t)
    BY <1>2, <2>1, <2>2
  <2>6. turns'[t].status # Nothing =>
           /\ served[t] = turns'[t].status
           /\ \A n \in DOMAIN stdout' : ~Tells(stdout'[n], t)
    <3>1. CASE EndsTurn(h, t)
      <4>1. \A n \in DOMAIN stdout' : 1 < n + 1
        BY <1>2
      <4> QED
        BY <1>2, <2>1, <2>2, <3>1, <4>1
    <3>2. CASE ~EndsTurn(h, t)
      BY <1>2, <2>1, <2>2, <3>2
    <3> QED
      BY <3>1, <3>2
  <2> QED
    BY <2>3, <2>4, <2>5, <2>6
<1>7. NewsAreSound'
  BY <1>1, <1>6 DEF NewsAreSound, serverVars
<1> QED
  BY <1>3, <1>4, <1>5, <1>7

LEMMA ReadsKeepOffers ==
    ASSUME OneApprovalPerCall, TurnInv, OfferInv, Reads
    PROVE  OfferInv'
<1> USE DEF TurnInv, OfferInv
<1> DEFINE h == stdout[1]
<1>1. /\ stdout # <<>> /\ stdout' = Tail(stdout)
      /\ UNCHANGED <<ended, queue, held, done, stdin, serverVars>> /\ CallsFollow(h)
  BY ReadsDo
<1>2. /\ 1 \in DOMAIN stdout
      /\ Len(stdout) \in Nat /\ DOMAIN stdout = 1..Len(stdout) /\ Len(stdout') = Len(stdout) - 1
      /\ \A n \in DOMAIN stdout' :
            n + 1 \in DOMAIN stdout /\ stdout'[n] = stdout[n + 1] /\ n \in Nat /\ n > 0
      /\ \A n \in DOMAIN stdout : n = 1 \/ (n - 1 \in DOMAIN stdout' /\ stdout'[n - 1] = stdout[n])
  BY <1>1, ReadOne
<1>3. RequestsAreAsked'
  <2>1. \A n, k \in DOMAIN stdout' : k + 1 = n + 1 => k = n
    BY <1>2
  <2> QED
    BY <1>1, <1>2, <2>1 DEF RequestsAreAsked, serverVars
<1>4. ToolsAreSound'
  BY <1>1, <1>2 DEF ToolsAreSound, serverVars
<1>5. ASSUME NEW r \in Elicitations, AsksFor(h, r)
      PROVE  tracked[AskedFor[r]] = "unbound" /\ \A i \in Items : Binds(r, i) => i = AskedFor[r]
  <2>1. TrackedAt(AskedFor[r], 1)
    BY <1>2, <1>5 DEF SubjectIsTracked
  <2>2. tracked[AskedFor[r]] = "unbound"
    BY <1>2, <2>1 DEF TrackedAt
  <2>3. AskedFor[r] \in Matches(r)
    BY <2>2, SubjectTypes, ClientAssumption DEF Matches
  <2> QED
    BY <2>2, <2>3 DEF Binds
<1>6. ASSUME NEW i \in Items, NEW m \in 1..Len(stdout), TrackedAt(i, m + 1),
             \A r \in Elicitations : AsksFor(h, r) => AskedFor[r] # i
      PROVE  TrackedAt(i, m)'
  <2> DEFINE n == m + 1
  <2>0. m \in Nat /\ m > 0 /\ n - 1 = m
    BY <1>2
  <2>1. ~EndsCall(h, i) /\ \A k \in DOMAIN stdout' : k < m => ~EndsCall(stdout'[k], i)
    <3>1. 1 < n /\ \A k \in DOMAIN stdout' : k < m => k + 1 < n
      BY <1>2, <2>0
    <3> QED
      BY <1>2, <1>6, <3>1 DEF TrackedAt
  <2>2. \A r \in Elicitations : ~(AsksFor(h, r) /\ Binds(r, i))
    BY <1>5, <1>6
  <2>3. CASE tracked[i] = "unbound" \/ StartsTool(h, i)
    <3>1. tracked'[i] = "unbound"
      BY <1>1, <2>1, <2>2, <2>3 DEF CallsFollow
    <3> QED
      BY <2>1, <3>1 DEF TrackedAt
  <2>4. CASE \E k \in DOMAIN stdout : k < n /\ k # 1 /\ StartsTool(stdout[k], i)
    <3>1. PICK k \in DOMAIN stdout : k < n /\ k # 1 /\ StartsTool(stdout[k], i)
      BY <2>4
    <3>2. k - 1 \in DOMAIN stdout' /\ k - 1 < m /\ StartsTool(stdout'[k - 1], i)
      BY <1>2, <2>0, <3>1
    <3> QED
      BY <2>1, <3>2 DEF TrackedAt
  <2> QED
    BY <1>6, <2>3, <2>4 DEF TrackedAt
<1>7. RunningIsTracked'
  <2>1. PICK all : all = Len(stdout)
    OBVIOUS
  <2>2. all \in 1..Len(stdout) /\ Len(stdout') + 1 = all
    BY <1>2, <2>1
  <2>3. ASSUME NEW i \in Items, RunsUnasked(i)' PROVE TrackedAt(i, all)'
    <3>1. RunsUnasked(i)
      BY <1>1, <2>3 DEF RunsUnasked, serverVars
    <3>2. TrackedAt(i, all + 1)
      BY <2>1, <3>1 DEF RunningIsTracked
    <3>3. \A r \in Elicitations : AsksFor(h, r) => AskedFor[r] # i
      BY <1>2, <3>1, SubjectTypes DEF RunsUnasked, RequestsAreAsked
    <3> QED
      BY <1>6, <2>2, <3>2, <3>3
  <2> QED
    BY <2>2, <2>3 DEF RunningIsTracked
<1>8. SubjectIsTracked'
  <2> SUFFICES ASSUME NEW r \in Elicitations, NEW n \in DOMAIN stdout', AsksFor(stdout'[n], r)
               PROVE  TrackedAt(AskedFor[r], n)'
    BY DEF SubjectIsTracked
  <2>1. n + 1 \in DOMAIN stdout /\ AsksFor(stdout[n + 1], r) /\ n + 1 # 1 /\ n \in 1..Len(stdout)
    BY <1>2
  <2>2. TrackedAt(AskedFor[r], n + 1)
    BY <2>1 DEF SubjectIsTracked
  <2>3. \A q \in Elicitations : AsksFor(h, q) => AskedFor[q] # AskedFor[r]
    <3> SUFFICES ASSUME NEW q \in Elicitations, AsksFor(h, q), AskedFor[q] = AskedFor[r]
                 PROVE  FALSE
      OBVIOUS
    <3>1. q = r
      BY DEF OneApprovalPerCall
    <3> QED
      BY <1>2, <2>1, <3>1, SubjectTypes DEF RequestsAreAsked
  <2> QED
    BY <1>6, <2>1, <2>2, <2>3, SubjectTypes
<1>9. OfferNamesItsCall'
  BY <1>1, <1>5, SubjectTypes DEF OfferNamesItsCall, CallsFollow
<1> QED
  BY <1>3, <1>4, <1>7, <1>8, <1>9

-----------------------------------------------------------------------------
(* The App Server. *)

LEMMA SaidOne ==
    ASSUME ClientTypes, NEW x \in FromChild, stdout' = Append(stdout, x)
    PROVE  /\ stdout' \in Seq(FromChild) /\ Len(stdout) \in Nat
           /\ Len(stdout') = Len(stdout) + 1 /\ stdout'[Len(stdout) + 1] = x
           /\ DOMAIN stdout = 1..Len(stdout) /\ DOMAIN stdout' = 1..Len(stdout) + 1
           /\ \A n \in 1..Len(stdout) : stdout'[n] = stdout[n]
BY Appended DEF ClientTypes

\* A turn that ended stays as it ended, and is not spoken in again.
KeepsEnded ==
    /\ spoken \subseteq spoken'
    /\ \A t \in Turns : served[t] \in Statuses =>
          served'[t] = served[t] /\ (t \in spoken' => t \in spoken)

LEMMA AnswersStand ==
    ASSUME TurnInv, caller' = caller, KeepsEnded
    PROVE  TurnAnswersItsCaller'
BY DEF TurnInv, TurnAnswersItsCaller, KeepsEnded

LEMMA QuietServerKeepsNews ==
    ASSUME TurnInv, UNCHANGED <<stdout, turns, spoken>>, KeepsEnded
    PROVE  NewsAreSound'
<1>1. stdout \in Seq(FromChild) /\ turns \in [Turns -> TurnStates]
  BY DEF TurnInv, ClientTypes
<1>2. /\ \A n \in DOMAIN stdout : \A t \in Turns : EndsTurn(stdout[n], t) => stdout[n].status \in Statuses
      /\ \A t \in Turns : turns[t].status # Nothing => turns[t].status \in Statuses
  <2>1. \A n \in DOMAIN stdout : stdout[n] \in FromChild
    BY <1>1
  <2> QED
    BY <1>1, <2>1 DEF EndsTurn, FromChild, TurnStates
<1> QED
  BY <1>2 DEF TurnInv, NewsAreSound, KeepsEnded

LEMMA SaidKeepsNews ==
    ASSUME TurnInv, NEW x \in FromChild, stdout' = Append(stdout, x), turns' = turns, KeepsEnded,
           \A t \in Turns : Tells(x, t) => t \in spoken' /\ served[t] \notin Statuses,
           \A t \in Turns : t \in spoken' => t \in spoken \/ Tells(x, t),
           \A t \in Turns : EndsTurn(x, t) => served'[t] = x.status
    PROVE  NewsAreSound'
<1> USE DEF TurnInv
<1>1. /\ Len(stdout) \in Nat /\ stdout'[Len(stdout) + 1] = x
      /\ DOMAIN stdout = 1..Len(stdout) /\ DOMAIN stdout' = 1..Len(stdout) + 1
      /\ \A n \in 1..Len(stdout) : stdout'[n] = stdout[n]
  BY SaidOne
<1>2. /\ \A n \in DOMAIN stdout : \A t \in Turns : EndsTurn(stdout[n], t) => stdout[n].status \in Statuses
      /\ \A t \in Turns : turns[t].status # Nothing => turns[t].status \in Statuses
  <2>1. /\ \A n \in DOMAIN stdout : stdout[n] \in FromChild
        /\ turns \in [Turns -> TurnStates]
    BY DEF ClientTypes
  <2> QED
    BY <2>1 DEF EndsTurn, FromChild, TurnStates
<1>3. ASSUME NEW t \in Turns
      PROVE  /\ \A n \in DOMAIN stdout' :
                   /\ Tells(stdout'[n], t) => t \in spoken'
                   /\ EndsTurn(stdout'[n], t) =>
                         /\ served'[t] = stdout'[n].status
                         /\ \A k \in DOMAIN stdout' : n < k => ~Tells(stdout'[k], t)
             /\ turns[t].text => t \in spoken'
             /\ t \in spoken' => turns[t].text \/ \E n \in DOMAIN stdout' : Tells(stdout'[n], t)
             /\ turns[t].status # Nothing =>
                   /\ served'[t] = turns[t].status
                   /\ \A n \in DOMAIN stdout' : ~Tells(stdout'[n], t)
  <2>1. /\ \A n \in DOMAIN stdout :
              /\ Tells(stdout[n], t) => t \in spoken
              /\ EndsTurn(stdout[n], t) =>
                    /\ served[t] = stdout[n].status
                    /\ \A k \in DOMAIN stdout : n < k => ~Tells(stdout[k], t)
        /\ turns[t].text => t \in spoken
        /\ t \in spoken => turns[t].text \/ \E n \in DOMAIN stdout : Tells(stdout[n], t)
        /\ turns[t].status # Nothing =>
              /\ served[t] = turns[t].status
              /\ \A n \in DOMAIN stdout : ~Tells(stdout[n], t)
    BY DEF NewsAreSound
  <2>2. \A n \in DOMAIN stdout' : n \in DOMAIN stdout \/ n = Len(stdout) + 1
    BY <1>1
  <2>3. /\ \A n \in DOMAIN stdout : EndsTurn(stdout[n], t) => ~Tells(x, t) /\ served'[t] = served[t]
        /\ turns[t].status # Nothing => ~Tells(x, t) /\ served'[t] = served[t]
    BY <1>2, <2>1 DEF KeepsEnded
  <2>4. \A n \in DOMAIN stdout' : Tells(stdout'[n], t) => t \in spoken'
    BY <1>1, <2>1, <2>2 DEF KeepsEnded
  <2>5. ASSUME NEW n \in DOMAIN stdout', EndsTurn(stdout'[n], t)
        PROVE  /\ served'[t] = stdout'[n].status
               /\ \A k \in DOMAIN stdout' : n < k => ~Tells(stdout'[k], t)
    <3>1. CASE n \in DOMAIN stdout
      BY <1>1, <2>1, <2>2, <2>3, <2>5, <3>1
    <3>2. CASE n = Len(stdout) + 1
      <4>1. \A k \in DOMAIN stdout' : ~(n < k)
        BY <1>1, <3>2
      <4> QED
        BY <1>1, <2>5, <3>2, <4>1
    <3> QED
      BY <2>2, <3>1, <3>2
  <2>6. t \in spoken' => turns[t].text \/ \E n \in DOMAIN stdout' : Tells(stdout'[n], t)
    BY <1>1, <2>1
  <2>7. turns[t].text => t \in spoken'
    BY <2>1 DEF KeepsEnded
  <2>8. turns[t].status # Nothing =>
           /\ served'[t] = turns[t].status
           /\ \A n \in DOMAIN stdout' : ~Tells(stdout'[n], t)
    BY <1>1, <2>1, <2>2, <2>3
  <2> QED
    BY <2>4, <2>5, <2>6, <2>7, <2>8
<1> QED
  BY <1>3 DEF NewsAreSound

\* Only reading the call that starts a turn makes it known to the App Server.
LEMMA QuietServerKeepsStarts ==
    ASSUME TurnInv, caller' = caller, stdin' = stdin,
           \A t \in Turns : served[t] = Nothing => served'[t] = Nothing
    PROVE  StartedOnce'
BY DEF TurnInv, StartedOnce, NotAskedYet

LEMMA ServerTakesOne ==
    ASSUME TurnInv, caller' = caller, stdin # <<>>, stdin' = Tail(stdin),
           \A t \in Turns : served[t] = Nothing /\ ~IsStart(stdin[1], t) => served'[t] = Nothing
    PROVE  /\ stdin' \in Seq(ToChild) /\ StartedOnce'
           /\ \A t \in Turns : IsStart(stdin[1], t) => served[t] = Nothing
<1> USE DEF TurnInv
<1>1. stdin \in Seq(ToChild)
  BY DEF ClientTypes
<1>2. /\ stdin' \in Seq(ToChild) /\ Len(stdin) \in Nat /\ Len(stdin) > 0
      /\ DOMAIN stdin = 1..Len(stdin) /\ DOMAIN stdin' = 1..Len(stdin) - 1
      /\ \A n \in 1..Len(stdin) - 1 : stdin'[n] = stdin[n + 1]
  BY <1>1, Tailed
<1>3. /\ 1 \in DOMAIN stdin
      /\ \A n \in DOMAIN stdin' : n + 1 \in DOMAIN stdin /\ stdin'[n] = stdin[n + 1] /\ n + 1 # 1
      /\ \A n, k \in DOMAIN stdin' : n + 1 = k + 1 => n = k
  BY <1>2
<1>4. ASSUME NEW t \in Turns
      PROVE  /\ NotAskedYet(t) => served'[t] = Nothing
             /\ \A n \in DOMAIN stdin' : IsStart(stdin'[n], t) =>
                   /\ ~NotAskedYet(t) /\ served'[t] = Nothing
                   /\ \A k \in DOMAIN stdin' : IsStart(stdin'[k], t) => k = n
             /\ IsStart(stdin[1], t) => served[t] = Nothing
  <2>1. /\ NotAskedYet(t) => served[t] = Nothing
        /\ \A n \in DOMAIN stdin : IsStart(stdin[n], t) =>
              /\ ~NotAskedYet(t) /\ served[t] = Nothing
              /\ \A k \in DOMAIN stdin : IsStart(stdin[k], t) => k = n
    BY DEF StartedOnce
  <2>2. NotAskedYet(t) => ~IsStart(stdin[1], t)
    BY <1>3, <2>1
  <2>3. \A n \in DOMAIN stdin' : IsStart(stdin'[n], t) =>
           ~IsStart(stdin[1], t) /\ ~NotAskedYet(t) /\ served[t] = Nothing
           /\ \A k \in DOMAIN stdin' : IsStart(stdin'[k], t) => k = n
    BY <1>3, <2>1
  <2> QED
    BY <1>3, <2>1, <2>2, <2>3
<1>5. StartedOnce'
  BY <1>4 DEF StartedOnce, NotAskedYet
<1> QED
  BY <1>2, <1>4, <1>5

\* What a message of the App Server does to the elicitations.
LEMMA SaidKeepsOffers ==
    ASSUME TurnInv, OfferInv, NEW x \in FromChild, stdout' = Append(stdout, x),
           UNCHANGED <<tracked, offer, alive>>,
           \A r \in Requests : /\ asked[r] # Nothing => asked'[r] # Nothing
                               /\ AsksFor(x, r) => asked[r] = Nothing /\ asked'[r] # Nothing,
           \A i \in Items :
              /\ item'[i] = "running" => served'[TurnOf[i]] # Nothing /\ alive
              /\ item[i] = "over" => item'[i] = "over"
              /\ x.kind = "tool_ended" /\ x.item = i => item'[i] = "over"
              /\ RunsUnasked(i)' =>
                    \/ RunsUnasked(i) /\ ~EndsCall(x, i)
                    \/ StartsTool(x, i) /\ \A k \in DOMAIN stdout : ~EndsCall(stdout[k], i),
           \A r \in Elicitations : AsksFor(x, r) => TrackedAt(AskedFor[r], Len(stdout) + 1)
    PROVE  OfferInv'
<1> USE DEF TurnInv, OfferInv
<1>1. /\ Len(stdout) \in Nat /\ stdout'[Len(stdout) + 1] = x /\ Len(stdout') = Len(stdout) + 1
      /\ DOMAIN stdout = 1..Len(stdout) /\ DOMAIN stdout' = 1..Len(stdout) + 1
      /\ \A n \in 1..Len(stdout) : stdout'[n] = stdout[n]
      /\ \A n \in DOMAIN stdout' : n \in DOMAIN stdout \/ n = Len(stdout) + 1
  BY SaidOne
<1>2. RequestsAreAsked'
  <2> SUFFICES ASSUME NEW r \in Requests, NEW n \in DOMAIN stdout', AsksFor(stdout'[n], r)
               PROVE  asked'[r] # Nothing /\ \A k \in DOMAIN stdout' : AsksFor(stdout'[k], r) => k = n
    BY DEF RequestsAreAsked
  <2>1. \A k \in DOMAIN stdout : AsksFor(stdout[k], r) =>
           asked[r] # Nothing /\ \A j \in DOMAIN stdout : AsksFor(stdout[j], r) => j = k
    BY DEF RequestsAreAsked
  <2> QED
    BY <1>1, <2>1
<1>3. ToolsAreSound'
  BY <1>1 DEF ToolsAreSound
<1>4. ASSUME NEW i \in Items, NEW n \in 1..Len(stdout) + 1, TrackedAt(i, n)
      PROVE  TrackedAt(i, n)'
  <2>1. \A k \in DOMAIN stdout' : k < n => k \in DOMAIN stdout /\ stdout'[k] = stdout[k]
    BY <1>1
  <2>2. \A k \in DOMAIN stdout : k \in DOMAIN stdout' /\ stdout'[k] = stdout[k]
    BY <1>1
  <2> QED
    BY <1>4, <2>1, <2>2 DEF TrackedAt
<1>5. RunningIsTracked'
  <2>1. PICK all : all = Len(stdout) + 2
    OBVIOUS
  <2>2. Len(stdout') + 1 = all /\ \A k \in DOMAIN stdout' : k < all
    BY <1>1, <2>1
  <2>3. ASSUME NEW i \in Items, RunsUnasked(i)' PROVE TrackedAt(i, all)'
    <3>1. CASE RunsUnasked(i) /\ ~EndsCall(x, i)
      <4>1. TrackedAt(i, Len(stdout) + 1)
        BY <3>1 DEF RunningIsTracked
      <4>2. tracked[i] = "unbound" \/ \E k \in DOMAIN stdout : StartsTool(stdout[k], i)
        BY <4>1 DEF TrackedAt
      <4>3. \A k \in DOMAIN stdout : ~EndsCall(stdout[k], i)
        BY <1>1, <4>1 DEF TrackedAt
      <4>4. \A k \in DOMAIN stdout' : ~EndsCall(stdout'[k], i)
        BY <1>1, <3>1, <4>3
      <4>5. tracked'[i] = "unbound" \/ \E k \in DOMAIN stdout' : StartsTool(stdout'[k], i)
        BY <1>1, <4>2
      <4> QED
        BY <2>2, <4>4, <4>5 DEF TrackedAt
    <3>2. CASE StartsTool(x, i) /\ \A k \in DOMAIN stdout : ~EndsCall(stdout[k], i)
      <4>1. ~EndsCall(x, i)
        BY <3>2 DEF StartsTool, EndsCall, EndsTurn
      <4>2. \A k \in DOMAIN stdout' : ~EndsCall(stdout'[k], i)
        BY <1>1, <3>2, <4>1
      <4>3. \E k \in DOMAIN stdout' : k < all /\ StartsTool(stdout'[k], i)
        BY <1>1, <2>2, <3>2
      <4> QED
        BY <4>2, <4>3 DEF TrackedAt
    <3> QED
      BY <2>3, <3>1, <3>2
  <2> QED
    BY <2>2, <2>3 DEF RunningIsTracked
<1>6. SubjectIsTracked'
  <2> SUFFICES ASSUME NEW r \in Elicitations, NEW n \in DOMAIN stdout', AsksFor(stdout'[n], r)
               PROVE  TrackedAt(AskedFor[r], n)'
    BY DEF SubjectIsTracked
  <2>1. TrackedAt(AskedFor[r], n)
    BY <1>1 DEF SubjectIsTracked
  <2> QED
    BY <1>1, <1>4, <2>1, SubjectTypes
<1>7. OfferNamesItsCall'
  BY DEF OfferNamesItsCall
<1> QED
  BY <1>2, <1>3, <1>5, <1>6, <1>7

\* A step that says nothing and binds nothing.
LEMMA QuietServerKeepsOffers ==
    ASSUME OfferInv, UNCHANGED <<stdout, tracked, offer>>,
           alive' => alive,
           \A r \in Requests : asked[r] # Nothing => asked'[r] # Nothing,
           \A i \in Items :
              /\ item'[i] = "running" => served'[TurnOf[i]] # Nothing /\ alive'
              /\ alive' /\ item[i] = "over" => item'[i] = "over"
              /\ RunsUnasked(i)' => RunsUnasked(i)
    PROVE  OfferInv'
<1> USE DEF OfferInv
<1>1. RequestsAreAsked' /\ ToolsAreSound' /\ OfferNamesItsCall'
  BY DEF RequestsAreAsked, ToolsAreSound, OfferNamesItsCall
<1>2. \A i, n : TrackedAt(i, n) => TrackedAt(i, n)'
  BY DEF TrackedAt
<1>3. RunningIsTracked' /\ SubjectIsTracked'
  BY <1>2 DEF RunningIsTracked, SubjectIsTracked
<1> QED
  BY <1>1, <1>3

LEMMA ServerReadsKeeps ==
    ASSUME TurnInv, ServerStep, ServerReads
    PROVE  TurnInv' /\ (OfferInv => OfferInv')
<1> USE DEF TurnInv
<1> DEFINE m == stdin[1]
<1>1. /\ UNCHANGED <<caller, ended, turns, trackVars, writer, eventVars, closing, done>>
      /\ UNCHANGED <<alive, spoken, item>> /\ alive /\ stdin # <<>> /\ stdin' = Tail(stdin)
  BY DEF ServerStep, ServerReads
<1>2. stdin \in Seq(ToChild) /\ m \in ToChild /\ Head(stdin) = m
  BY <1>1, Tailed DEF ClientTypes
<1>3. /\ m.op \in {"start", "stop"} => m.turn \in Turns /\ m.id \in CallIds
      /\ m.op = "reply" => m.id \in Requests
  BY <1>2 DEF ToChild
<1> DEFINE Answer(ok) == [id |-> m.id, ok |-> ok]
<1>8. ASSUME NEW ok \in BOOLEAN, m.op \in {"start", "stop"}, owed' = owed \cup {Answer(ok)}
      PROVE  owed' \subseteq [id : CallIds, ok : BOOLEAN]
  <2>1. Answer(ok) \in [id : CallIds, ok : BOOLEAN]
    BY <1>3, <1>8
  <2> HIDE DEF Answer
  <2> QED
    BY <1>8, <2>1 DEF ClientTypes
<1>4. ASSUME m.op = "start", owed' = owed \cup {[id |-> m.id, ok |-> TRUE]},
             served' = [served EXCEPT ![m.turn] = "running"],
             stdout' = Append(stdout, [kind |-> "started", turn |-> m.turn]), asked' = asked
      PROVE  TurnInv' /\ (OfferInv => OfferInv')
  <2> DEFINE x == [kind |-> "started", turn |-> m.turn]
  <2>1. /\ stdin' \in Seq(ToChild) /\ StartedOnce'
        /\ \A t \in Turns : IsStart(m, t) => served[t] = Nothing
    <3>1. \A t \in Turns : served[t] = Nothing /\ ~IsStart(m, t) => served'[t] = Nothing
      BY <1>3, <1>4 DEF IsStart, ClientTypes
    <3> QED
      BY <1>1, <3>1, ServerTakesOne
  <2>2. served[m.turn] = Nothing
    BY <1>3, <1>4, <2>1 DEF IsStart
  <2>3. x \in FromChild /\ x.kind = "started"
    BY <1>3, <1>4 DEF FromChild
  <2>4. ClientTypes'
    <3>1. owed' \subseteq [id : CallIds, ok : BOOLEAN]
      BY <1>4, <1>8
    <3>2. stdout' \in Seq(FromChild)
      BY <1>4, <2>3, SaidOne
    <3>3. served' \in [Turns -> {Nothing, "running", "stopping"} \cup Statuses]
      BY <1>4 DEF ClientTypes
    <3> QED
      BY <1>1, <1>4, <2>1, <3>1, <3>2, <3>3 DEF ClientTypes, trackVars, eventVars
  <2>5. KeepsEnded
    BY <1>1, <1>3, <1>4, <2>2, ClientAssumption DEF KeepsEnded, ClientTypes, Statuses
  <2> HIDE DEF x
  <2>6. NewsAreSound'
    BY <1>1, <1>4, <2>3, <2>5, SaidKeepsNews DEF Tells, EndsTurn, x
  <2>7. ASSUME OfferInv
        PROVE  \A i \in Items : /\ item[i] = "running" => served[TurnOf[i]] # Nothing /\ alive
                                /\ RunsUnasked(i)' => RunsUnasked(i)
    BY <1>1, <1>3, <1>4, <2>2, <2>7, SubjectTypes DEF OfferInv, ToolsAreSound, RunsUnasked, ClientTypes
  <2>8. \A i \in Items : served'[TurnOf[i]] = served[TurnOf[i]] \/ served'[TurnOf[i]] = "running"
    BY <1>3, <1>4, SubjectTypes DEF ClientTypes
  <2>9. "running" # Nothing
    BY ClientAssumption
  <2>10. ASSUME OfferInv PROVE OfferInv'
    <3>1. \A r \in Requests : ~AsksFor(x, r)
      BY <2>3 DEF AsksFor
    <3>2. \A i \in Items : ~EndsCall(x, i) /\ x.kind # "tool_ended"
      BY <2>3 DEF EndsCall, EndsTurn
    <3> QED
      BY <1>1, <1>4, <2>3, <2>7, <2>8, <2>9, <2>10, <3>1, <3>2, SaidKeepsOffers, SubjectTypes DEF trackVars, x
  <2> QED
    BY <1>1, <2>1, <2>4, <2>5, <2>6, <2>10, AnswersStand
<1>5. ASSUME m.op = "start", owed' = owed \cup {[id |-> m.id, ok |-> FALSE]},
             UNCHANGED <<served, asked, stdout>>
      PROVE  TurnInv' /\ (OfferInv => OfferInv')
  <2>1. stdin' \in Seq(ToChild) /\ StartedOnce'
    BY <1>1, <1>5, ServerTakesOne
  <2>2. KeepsEnded
    BY <1>1, <1>5 DEF KeepsEnded
  <2>3. ClientTypes'
    <3>1. owed' \subseteq [id : CallIds, ok : BOOLEAN]
      BY <1>5, <1>8
    <3> QED
      BY <1>1, <1>5, <2>1, <3>1 DEF ClientTypes, trackVars, eventVars
  <2>4. NewsAreSound' /\ TurnAnswersItsCaller'
    BY <1>1, <1>5, <2>2, QuietServerKeepsNews, AnswersStand
  <2>5. \A i \in Items : RunsUnasked(i)' => RunsUnasked(i)
    BY <1>1, <1>5 DEF RunsUnasked
  <2>6. ASSUME OfferInv PROVE OfferInv'
    BY <1>1, <1>5, <2>5, <2>6, QuietServerKeepsOffers DEF OfferInv, ToolsAreSound, trackVars
  <2> QED
    BY <2>1, <2>3, <2>4, <2>6
<1>6. ASSUME m.op = "stop", owed' = owed \cup {[id |-> m.id, ok |-> served[m.turn] = "running"]},
             served' = [served EXCEPT ![m.turn] = IF @ = "running" THEN "stopping" ELSE @],
             UNCHANGED <<asked, stdout>>
      PROVE  TurnInv' /\ (OfferInv => OfferInv')
  <2>0. /\ m.turn \in Turns /\ served \in [Turns -> {Nothing, "running", "stopping"} \cup Statuses]
        /\ (served[m.turn] = "running") \in BOOLEAN
    BY <1>3, <1>6 DEF ClientTypes
  <2>1. \A t \in Turns : \/ served'[t] = served[t]
                         \/ served[t] = "running" /\ served'[t] = "stopping"
    BY <1>6, <2>0
  <2>2. stdin' \in Seq(ToChild) /\ StartedOnce'
    BY <1>1, <2>1, ServerTakesOne, ClientAssumption
  <2>3. KeepsEnded
    BY <1>1, <2>1 DEF KeepsEnded, Statuses
  <2>4. served' \in [Turns -> {Nothing, "running", "stopping"} \cup Statuses]
    BY <1>6, <2>0
  <2>5. owed' \subseteq [id : CallIds, ok : BOOLEAN]
    BY <1>6, <1>8, <2>0
  <2>6. ClientTypes'
    BY <1>1, <1>6, <2>2, <2>4, <2>5 DEF ClientTypes, trackVars, eventVars
  <2>7. NewsAreSound' /\ TurnAnswersItsCaller'
    BY <1>1, <1>6, <2>3, QuietServerKeepsNews, AnswersStand
  <2>8. "stopping" # Nothing
    BY ClientAssumption
  <2>9. ASSUME OfferInv
        PROVE  \A i \in Items : /\ RunsUnasked(i)' => RunsUnasked(i)
                                /\ item[i] = "running" => served'[TurnOf[i]] # Nothing
    BY <1>1, <1>6, <2>1, <2>8, <2>9, SubjectTypes DEF RunsUnasked, OfferInv, ToolsAreSound
  <2>10. ASSUME OfferInv PROVE OfferInv'
    BY <1>1, <1>6, <2>9, <2>10, QuietServerKeepsOffers DEF trackVars
  <2> QED
    BY <2>2, <2>6, <2>7, <2>10
<1>7. ASSUME m.op = "reply", asked' = [asked EXCEPT ![m.id] = "answered"],
             stdout' = IF m.id \in Elicitations
                       THEN Append(stdout, [kind |-> "resolved", request |-> m.id]) ELSE stdout,
             UNCHANGED <<owed, served>>
      PROVE  TurnInv' /\ (OfferInv => OfferInv')
  <2> DEFINE x == [kind |-> "resolved", request |-> m.id]
  <2>1. stdin' \in Seq(ToChild) /\ StartedOnce'
    BY <1>1, <1>7, ServerTakesOne
  <2>2. KeepsEnded
    BY <1>1, <1>7 DEF KeepsEnded
  <2>3. x \in FromChild /\ x.kind = "resolved"
    BY <1>3, <1>7 DEF FromChild
  <2>4. stdout' \in Seq(FromChild)
    BY <1>7, <2>3, SaidOne DEF ClientTypes
  <2>5. ClientTypes'
    BY <1>1, <1>3, <1>7, <2>1, <2>4 DEF ClientTypes, trackVars, eventVars
  <2>6. "answered" # Nothing
    BY ClientAssumption
  <2>7. \A r \in Requests : asked[r] # Nothing => asked'[r] # Nothing
    BY <1>3, <1>7, <2>6 DEF ClientTypes
  <2>8. \A i \in Items : RunsUnasked(i)' => RunsUnasked(i)
    BY <1>1, <1>7, <2>7 DEF RunsUnasked
  <2> HIDE DEF x
  <2>9. CASE stdout' = stdout
    <3>1. NewsAreSound' /\ TurnAnswersItsCaller'
      BY <1>1, <2>2, <2>9, QuietServerKeepsNews, AnswersStand
    <3>2. ASSUME OfferInv PROVE OfferInv'
      BY <1>1, <1>7, <2>7, <2>8, <2>9, <3>2, QuietServerKeepsOffers DEF OfferInv, ToolsAreSound, trackVars
    <3> QED
      BY <2>1, <2>5, <3>1, <3>2
  <2>10. CASE stdout' = Append(stdout, x)
    <3>1. NewsAreSound' /\ TurnAnswersItsCaller'
      BY <1>1, <1>7, <2>2, <2>3, <2>10, SaidKeepsNews, AnswersStand DEF Tells, EndsTurn
    <3>2. \A r \in Requests : ~AsksFor(x, r)
      BY <2>3 DEF AsksFor
    <3>3. \A i \in Items : ~EndsCall(x, i) /\ x.kind # "tool_ended"
      BY <2>3 DEF EndsCall, EndsTurn
    <3>4. ASSUME OfferInv PROVE OfferInv'
      BY <1>1, <1>7, <2>3, <2>7, <2>8, <2>10, <3>2, <3>3, <3>4, SaidKeepsOffers, SubjectTypes
         DEF OfferInv, ToolsAreSound, trackVars
    <3> QED
      BY <2>1, <2>5, <3>1, <3>4
  <2> QED
    BY <1>7, <2>9, <2>10 DEF x
<1> QED
  BY <1>1, <1>2, <1>4, <1>5, <1>6, <1>7 DEF ServerReads

\* A message that neither asks, nor starts or ends anything.
LEMMA RemarksKeep ==
    ASSUME TurnInv, NEW x \in FromChild, stdout' = Append(stdout, x),
           x.kind \notin {"completed", "tool_started", "tool_ended", "request"},
           UNCHANGED <<caller, ended, turns, trackVars, eventVars, done, stdin, alive, served,
                       item, asked>>,
           owed' \subseteq owed, spoken' \in SUBSET Turns, spoken \subseteq spoken',
           \A t \in Turns : Tells(x, t) => t \in spoken' /\ served[t] \notin Statuses,
           \A t \in Turns : t \in spoken' => t \in spoken \/ Tells(x, t)
    PROVE  TurnInv' /\ (OfferInv => OfferInv')
<1> USE DEF TurnInv
<1>1. ClientTypes'
  BY SaidOne DEF ClientTypes, trackVars, eventVars
<1>2. KeepsEnded
  BY DEF KeepsEnded
<1>3. \A t \in Turns : ~EndsTurn(x, t)
  BY DEF EndsTurn
<1>4. TurnInv'
  BY <1>1, <1>2, <1>3, SaidKeepsNews, AnswersStand, QuietServerKeepsStarts
<1>5. /\ \A r \in Requests : ~AsksFor(x, r)
      /\ \A i \in Items : ~EndsCall(x, i)
      /\ \A i \in Items : RunsUnasked(i)' => RunsUnasked(i)
  BY DEF AsksFor, EndsCall, EndsTurn, RunsUnasked
<1>6. ASSUME OfferInv PROVE OfferInv'
  BY <1>5, <1>6, SaidKeepsOffers, SubjectTypes DEF OfferInv, ToolsAreSound, trackVars
<1> QED
  BY <1>4, <1>6

\* The tools and the requests are not what the turns are told of.
LEMMA ToolNewsKeepTurns ==
    ASSUME TurnInv, NEW x \in FromChild, stdout' = Append(stdout, x),
           x.kind \in {"tool_started", "tool_ended", "request"},
           UNCHANGED <<caller, ended, turns, trackVars, eventVars, done, stdin, alive, owed,
                       served, spoken>>,
           item' \in [Items -> {Nothing, "running", "over"}],
           asked' \in [Requests -> {Nothing, "asked", "answered"}]
    PROVE  TurnInv'
<1> USE DEF TurnInv
<1>1. ClientTypes'
  BY SaidOne DEF ClientTypes, trackVars, eventVars
<1>2. KeepsEnded
  BY DEF KeepsEnded
<1>3. \A t \in Turns : ~Tells(x, t) /\ ~EndsTurn(x, t)
  BY DEF Tells, EndsTurn
<1> QED
  BY <1>1, <1>2, <1>3, SaidKeepsNews, AnswersStand, QuietServerKeepsStarts

LEMMA ServerKeeps ==
    ASSUME TurnInv, ServerStep
    PROVE  TurnInv' /\ (OneApprovalPerCall /\ OfferInv => OfferInv')
<1> USE DEF TurnInv
<1> DEFINE Holds == TurnInv' /\ (OneApprovalPerCall /\ OfferInv => OfferInv')
<1>1. /\ UNCHANGED <<caller, ended, turns, trackVars, writer, eventVars, closing, done>> /\ alive
  BY DEF ServerStep
<1>2. ASSUME ServerResponds PROVE Holds
  <2>1. PICK o \in owed : /\ owed' = owed \ {o}
                          /\ stdout' = Append(stdout, [kind |-> "response", id |-> o.id, ok |-> o.ok])
                          /\ UNCHANGED <<alive, served, spoken, item, asked, stdin>>
    BY <1>2 DEF ServerResponds, Says
  <2> DEFINE x == [kind |-> "response", id |-> o.id, ok |-> o.ok]
  <2>2. x \in FromChild /\ x.kind = "response"
    <3>1. o \in [id : CallIds, ok : BOOLEAN]
      BY <2>1 DEF ClientTypes
    <3> QED
      BY <3>1 DEF FromChild
  <2>3. \A t \in Turns : ~Tells(x, t)
    BY <2>2 DEF Tells
  <2> HIDE DEF x
  <2>4. stdout' = Append(stdout, x) /\ spoken' \in SUBSET Turns
    BY <2>1 DEF x, ClientTypes
  <2> QED
    BY <1>1, <2>1, <2>2, <2>3, <2>4, RemarksKeep
<1>3. ASSUME NEW t \in Turns, Speaks(t) PROVE Holds
  <2> DEFINE x == [kind |-> "message", turn |-> t]
  <2>1. x \in FromChild /\ x.kind = "message" /\ \A u \in Turns : Tells(x, u) <=> u = t
    BY DEF FromChild, Tells
  <2>2. /\ served[t] = "running" /\ spoken' = spoken \cup {t}
        /\ UNCHANGED <<alive, owed, served, item, asked, stdin>>
    BY <1>3 DEF Speaks
  <2>3. stdout' = Append(stdout, x)
    BY <1>3 DEF Speaks, Says
  <2>4. "running" \notin Statuses /\ spoken' \in SUBSET Turns
    BY <2>2 DEF Statuses, ClientTypes
  <2> HIDE DEF x
  <2> QED
    BY <1>1, <2>1, <2>2, <2>3, <2>4, RemarksKeep
<1>4. ASSUME NEW t \in Turns, Completes(t) PROVE Holds
  <2>1. PICK status : status = IF served[t] = "running" THEN "completed" ELSE "interrupted"
    OBVIOUS
  <2> DEFINE x == [kind |-> "completed", turn |-> t, status |-> status]
  <2>2. x \in FromChild /\ x.kind = "completed" /\ x.turn = t /\ x.status = status /\ status \in Statuses
    BY <2>1 DEF FromChild, Statuses
  <2>3. /\ served[t] \in {"running", "stopping"} /\ served' = [served EXCEPT ![t] = status]
        /\ UNCHANGED <<alive, owed, spoken, item, asked, stdin>>
    BY <1>4, <2>1 DEF Completes
  <2>4. stdout' = Append(stdout, x)
    BY <1>4, <2>1 DEF Completes, Says
  <2> HIDE DEF x
  <2>5. ClientTypes'
    BY <1>1, <2>2, <2>3, <2>4, SaidOne DEF ClientTypes, trackVars, eventVars
  <2>6. /\ served'[t] = status /\ \A u \in Turns : u # t => served'[u] = served[u]
    BY <2>3 DEF ClientTypes
  <2>7. KeepsEnded
    BY <2>3, <2>6 DEF KeepsEnded, Statuses
  <2>8. \A u \in Turns : ~Tells(x, u) /\ (EndsTurn(x, u) => u = t)
    BY <2>2 DEF Tells, EndsTurn
  <2>9. \A u \in Turns : served[u] = Nothing => served'[u] = Nothing
    BY <2>3, <2>6, ClientAssumption
  <2>10. NewsAreSound'
    BY <1>1, <2>2, <2>3, <2>4, <2>6, <2>7, <2>8, SaidKeepsNews
  <2>11. TurnInv'
    BY <1>1, <2>3, <2>5, <2>7, <2>9, <2>10, AnswersStand, QuietServerKeepsStarts
  <2>12. status # Nothing /\ status # "running"
    BY <2>2, ClientAssumption DEF Statuses
  <2>13. \A i \in Items :
           /\ served[TurnOf[i]] # Nothing => served'[TurnOf[i]] # Nothing
           /\ RunsUnasked(i)' => RunsUnasked(i) /\ TurnOf[i] # t
    BY <2>3, <2>6, <2>12, SubjectTypes DEF RunsUnasked
  <2>14. \A i \in Items : EndsCall(x, i) => TurnOf[i] = t
    BY <2>2 DEF EndsCall, EndsTurn
  <2>15. \A r \in Requests : ~AsksFor(x, r)
    BY <2>2 DEF AsksFor
  <2>16. ASSUME OfferInv PROVE OfferInv'
    BY <1>1, <2>2, <2>3, <2>4, <2>13, <2>14, <2>15, <2>16, SaidKeepsOffers, SubjectTypes
       DEF OfferInv, ToolsAreSound, trackVars
  <2> QED
    BY <2>11, <2>16
<1>5. ASSUME NEW i \in Items, CallsTool(i) PROVE Holds
  <2> DEFINE x == [kind |-> "tool_started", item |-> i]
  <2>1. x \in FromChild /\ x.kind = "tool_started" /\ x.item = i
    BY DEF FromChild
  <2>2. /\ served[TurnOf[i]] = "running" /\ item[i] = Nothing
        /\ item' = [item EXCEPT ![i] = "running"]
        /\ UNCHANGED <<alive, owed, served, spoken, asked, stdin>>
    BY <1>5 DEF CallsTool
  <2>3. stdout' = Append(stdout, x)
    BY <1>5 DEF CallsTool, Says
  <2> HIDE DEF x
  <2>4. item' \in [Items -> {Nothing, "running", "over"}] /\ asked \in [Requests -> {Nothing, "asked", "answered"}]
    BY <2>2 DEF ClientTypes
  <2>5. TurnInv'
    BY <1>1, <2>1, <2>2, <2>3, <2>4, ToolNewsKeepTurns
  <2>6. item'[i] = "running" /\ \A j \in Items : j # i => item'[j] = item[j]
    BY <2>2 DEF ClientTypes
  <2>7. Nothing \notin {"running", "over"}
    BY ClientAssumption
  <2>8. ASSUME OfferInv PROVE \A k \in DOMAIN stdout : ~EndsCall(stdout[k], i)
    <3>1. \A k \in DOMAIN stdout : ~(stdout[k].kind = "tool_ended" /\ stdout[k].item = i)
      BY <1>1, <2>2, <2>7, <2>8 DEF OfferInv, ToolsAreSound
    <3>2. \A k \in DOMAIN stdout : ~EndsTurn(stdout[k], TurnOf[i])
      <4> SUFFICES ASSUME NEW k \in DOMAIN stdout, EndsTurn(stdout[k], TurnOf[i]) PROVE FALSE
        OBVIOUS
      <4>1. served[TurnOf[i]] = stdout[k].status
        BY SubjectTypes DEF NewsAreSound
      <4>2. stdout[k] \in FromChild
        BY DEF ClientTypes
      <4>3. stdout[k].status \in Statuses
        BY <4>2 DEF FromChild, EndsTurn
      <4> QED
        BY <2>2, <4>1, <4>3 DEF Statuses
    <3> QED
      BY <3>1, <3>2 DEF EndsCall
  <2>9. /\ \A r \in Requests : ~AsksFor(x, r)
        /\ \A j \in Items : ~EndsCall(x, j)
        /\ StartsTool(x, i)
    BY <2>1 DEF AsksFor, EndsCall, EndsTurn, StartsTool
  <2>10. \A j \in Items : RunsUnasked(j)' => RunsUnasked(j) \/ j = i
    BY <2>2, <2>6 DEF RunsUnasked
  <2>11. ASSUME OfferInv
         PROVE  \A j \in Items : /\ item'[j] = "running" => served'[TurnOf[j]] # Nothing /\ alive
                                 /\ item[j] = "over" => item'[j] = "over"
    BY <1>1, <2>2, <2>6, <2>7, <2>11 DEF OfferInv, ToolsAreSound
  <2>12. ASSUME OfferInv PROVE OfferInv'
    BY <1>1, <2>1, <2>2, <2>3, <2>8, <2>9, <2>10, <2>11, <2>12, SaidKeepsOffers, SubjectTypes DEF trackVars
  <2> QED
    BY <2>5, <2>12
<1>6. ASSUME NEW i \in Items, EndsTool(i) PROVE Holds
  <2> DEFINE x == [kind |-> "tool_ended", item |-> i]
  <2>1. x \in FromChild /\ x.kind = "tool_ended" /\ x.item = i
    BY DEF FromChild
  <2>2. /\ item[i] = "running" /\ item' = [item EXCEPT ![i] = "over"]
        /\ UNCHANGED <<alive, owed, served, spoken, asked, stdin>>
    BY <1>6 DEF EndsTool
  <2>3. stdout' = Append(stdout, x)
    BY <1>6 DEF EndsTool, Says
  <2> HIDE DEF x
  <2>4. item' \in [Items -> {Nothing, "running", "over"}] /\ asked \in [Requests -> {Nothing, "asked", "answered"}]
    BY <2>2 DEF ClientTypes
  <2>5. TurnInv'
    BY <1>1, <2>1, <2>2, <2>3, <2>4, ToolNewsKeepTurns
  <2>6. item'[i] = "over" /\ \A j \in Items : j # i => item'[j] = item[j]
    BY <2>2 DEF ClientTypes
  <2>7. /\ \A r \in Requests : ~AsksFor(x, r)
        /\ \A j \in Items : EndsCall(x, j) => j = i
    BY <2>1 DEF AsksFor, EndsCall, EndsTurn
  <2>8. \A j \in Items : RunsUnasked(j)' => RunsUnasked(j) /\ j # i
    BY <2>2, <2>6 DEF RunsUnasked
  <2>9. ASSUME OfferInv
        PROVE  \A j \in Items : /\ item'[j] = "running" => served'[TurnOf[j]] # Nothing /\ alive
                                /\ item[j] = "over" => item'[j] = "over"
    BY <1>1, <2>2, <2>6, <2>9 DEF OfferInv, ToolsAreSound
  <2>10. ASSUME OfferInv PROVE OfferInv'
    BY <1>1, <2>1, <2>2, <2>3, <2>6, <2>7, <2>8, <2>9, <2>10, SaidKeepsOffers, SubjectTypes DEF trackVars
  <2> QED
    BY <2>5, <2>10
<1>7. ASSUME NEW r \in Requests, Asks(r) PROVE Holds
  <2> DEFINE x == [kind |-> "request", request |-> r]
  <2>1. x \in FromChild /\ x.kind = "request" /\ x.request = r
    BY DEF FromChild
  <2>2. /\ served[RequestTurn(r)] = "running" /\ asked[r] = Nothing
        /\ r \in Elicitations => item[AskedFor[r]] = "running"
        /\ asked' = [asked EXCEPT ![r] = "asked"]
        /\ UNCHANGED <<alive, owed, served, spoken, item, stdin>>
    BY <1>7 DEF Asks
  <2>3. stdout' = Append(stdout, x)
    BY <1>7 DEF Asks, Says
  <2> HIDE DEF x
  <2>4. item \in [Items -> {Nothing, "running", "over"}] /\ asked' \in [Requests -> {Nothing, "asked", "answered"}]
    BY <2>2 DEF ClientTypes
  <2>5. TurnInv'
    BY <1>1, <2>1, <2>2, <2>3, <2>4, ToolNewsKeepTurns
  <2>6. "asked" # Nothing /\ asked'[r] = "asked" /\ \A q \in Requests : q # r => asked'[q] = asked[q]
    BY <2>2, ClientAssumption DEF ClientTypes
  <2>7. /\ \A q \in Requests : AsksFor(x, q) => q = r
        /\ \A j \in Items : ~EndsCall(x, j)
    BY <2>1 DEF AsksFor, EndsCall, EndsTurn
  <2>8. \A j \in Items : RunsUnasked(j)' => RunsUnasked(j)
    BY <2>2, <2>6 DEF RunsUnasked
  <2>9. ASSUME OneApprovalPerCall, OfferInv, r \in Elicitations
        PROVE  TrackedAt(AskedFor[r], Len(stdout) + 1)
    <3>1. /\ item[AskedFor[r]] = "running" /\ served[TurnOf[AskedFor[r]]] = "running"
          /\ AskedFor[r] \in Items
      BY <2>2, <2>9, SubjectTypes DEF RequestTurn
    <3>2. \A q \in Requests : AskedFor[q] = AskedFor[r] => q = r
      <4> SUFFICES ASSUME NEW q \in Requests, AskedFor[q] = AskedFor[r] PROVE q = r
        OBVIOUS
      <4>1. q \in Elicitations
        BY <3>1 DEF Elicitations
      <4> QED
        BY <2>9, <4>1 DEF OneApprovalPerCall
    <3>3. RunsUnasked(AskedFor[r])
      BY <2>2, <3>1, <3>2 DEF RunsUnasked
    <3> QED
      BY <2>9, <3>1, <3>3 DEF OfferInv, RunningIsTracked
  <2>10. ASSUME OneApprovalPerCall, OfferInv PROVE OfferInv'
    <3>1. \A q \in Elicitations : AsksFor(x, q) => TrackedAt(AskedFor[q], Len(stdout) + 1)
      BY <2>7, <2>9, <2>10, SubjectTypes
    <3> QED
      BY <1>1, <2>1, <2>2, <2>3, <2>6, <2>7, <2>8, <2>10, <3>1, SaidKeepsOffers
         DEF OfferInv, ToolsAreSound, trackVars
  <2> QED
    BY <2>5, <2>10
<1>8. ASSUME ServerReads PROVE Holds
  BY <1>8, ServerReadsKeeps
<1> HIDE DEF Holds
<1>9. Holds
  BY <1>2, <1>3, <1>4, <1>5, <1>6, <1>7, <1>8 DEF ServerStep
<1> QED
  BY <1>9 DEF Holds

-----------------------------------------------------------------------------
(* The other steps, and the whole. *)

\* What neither the App Server nor the reader takes part in.
LEMMA ElsewhereKeepsOffers ==
    ASSUME OfferInv, UNCHANGED <<stdout, tracked, offer, alive, served, item, asked>>
    PROVE  OfferInv'
<1>1. \A i \in Items : RunsUnasked(i)' => RunsUnasked(i)
  BY DEF RunsUnasked
<1> QED
  BY <1>1, QuietServerKeepsOffers DEF OfferInv, ToolsAreSound

LEMMA ClientStep ==
    ASSUME TurnInv, [Next]_clientVars
    PROVE  /\ TurnInv'
           /\ OneApprovalPerCall /\ OfferInv => OfferInv'
<1> USE DEF TurnInv
<1> DEFINE Holds == TurnInv' /\ (OneApprovalPerCall /\ OfferInv => OfferInv')
<1>1. ASSUME Begins \/ \E a \in Callers : CallerStep(a) PROVE Holds
  <2>1. UNCHANGED <<stdout, tracked, offer, alive, served, item, asked>>
    BY <1>1 DEF Begins, CallerStep, trackVars, serverVars
  <2> QED
    BY <1>1, <2>1, CallersKeepTurns, ElsewhereKeepsOffers
<1>2. ASSUME UNCHANGED <<caller, turns, stdout, served, spoken, tracked, offer, alive, item, asked>>,
             ClientTypes',
             stdin' = stdin \/ \E r \in Requests : stdin' = Append(stdin, Reply(r))
      PROVE  Holds
  BY <1>2, RepliesKeepTurns, ElsewhereKeepsOffers
<1>3. ASSUME NEW t \in Turns, ContextEnds(t) PROVE Holds
  <2>1. ClientTypes'
    BY <1>3 DEF ContextEnds, ClientTypes, trackVars, eventVars, serverVars
  <2> QED
    BY <1>2, <1>3, <2>1 DEF ContextEnds, trackVars, serverVars
<1>4. ASSUME NEW r \in Requests, stdin' = stdin \/ stdin' = Append(stdin, Reply(r))
      PROVE  stdin' \in Seq(ToChild)
  <2>1. Reply(r) \in ToChild /\ stdin \in Seq(ToChild)
    BY DEF Reply, ToChild, ClientTypes
  <2> QED
    BY <1>4, <2>1, Appended
<1>5. ASSUME NEW r \in Requests, Answers(r) PROVE Holds
  <2>1. stdin' = stdin \/ stdin' = Append(stdin, Reply(r))
    BY <1>5 DEF Answers, Writes, WriteFails, Blocks
  <2>2. ClientTypes'
    BY <1>4, <1>5, <2>1 DEF Answers, ClientTypes, trackVars, serverVars
  <2> QED
    BY <1>2, <1>5, <2>1, <2>2 DEF Answers, trackVars, serverVars
<1>6. ASSUME ReaderReplies PROVE Holds
  <2>1. replying \in Requests
    BY <1>6 DEF ReaderReplies, ClientTypes
  <2>2. stdin' = stdin \/ stdin' = Append(stdin, Reply(replying))
    BY <1>6 DEF ReaderReplies, Writes, WriteFails, Blocks
  <2>3. stdin' \in Seq(ToChild) /\ replying' \in {Nothing} \cup Requests
    BY <1>4, <1>6, <2>1, <2>2 DEF ReaderReplies
  <2>4. ClientTypes'
    BY <1>6, <2>3 DEF ReaderReplies, ClientTypes, trackVars, serverVars
  <2> QED
    BY <1>2, <1>6, <2>1, <2>2, <2>4 DEF ReaderReplies, trackVars, serverVars
<1>7. ASSUME Reads PROVE Holds
  BY <1>7, ReadsKeepTurns, ReadsKeepOffers
<1>8. ASSUME Finish PROVE Holds
  <2>1. /\ ~alive /\ stdout = <<>> /\ tracked' = [i \in Items |-> Nothing] /\ done' = TRUE
        /\ UNCHANGED <<ended, turns, offer, writer, eventVars, closing, stdin, stdout, serverVars>>
    BY <1>8 DEF Finish
  <2>2. SameCallers
    <3> DEFINE New(a) == IF caller[a].call = "pending" THEN [caller[a] EXCEPT !.call = "error"]
                         ELSE caller[a]
    <3>1. \A a \in Callers : caller[a] \in ClientRows
      BY DEF ClientTypes
    <3>2. ASSUME NEW a \in Callers
          PROVE  /\ New(a) \in ClientRows /\ New(a).at = caller[a].at
                 /\ New(a).target = caller[a].target
                 /\ New(a).got = caller[a].got /\ New(a).text = caller[a].text
      BY <3>1 DEF ClientRows
    <3>3. caller' = [a \in Callers |-> New(a)]
      BY <1>8 DEF Finish
    <3> HIDE DEF New
    <3> QED
      BY <3>2, <3>3 DEF SameCallers
  <2>3. ClientTypes'
    BY <2>1, <2>2 DEF ClientTypes, SameCallers, eventVars, serverVars
  <2>4. StartedOnce' /\ TurnAnswersItsCaller' /\ NewsAreSound'
    BY <2>1, <2>2 DEF StartedOnce, NotAskedYet, TurnAnswersItsCaller, NewsAreSound, SameCallers,
                      serverVars, Callers
  <2>5. ASSUME OfferInv PROVE OfferInv'
    <3>1. DOMAIN stdout' = {}
      BY <2>1
    <3>2. \A i \in Items : ~RunsUnasked(i)'
      BY <2>1, <2>5 DEF OfferInv, ToolsAreSound, RunsUnasked, serverVars
    <3>3. OfferNamesItsCall'
      BY <2>1, <2>5 DEF OfferInv, OfferNamesItsCall
    <3>4. ToolsAreSound'
      BY <2>1, <2>5 DEF OfferInv, ToolsAreSound, serverVars
    <3>5. RequestsAreAsked' /\ SubjectIsTracked' /\ RunningIsTracked'
      BY <3>1, <3>2 DEF RequestsAreAsked, SubjectIsTracked, RunningIsTracked
    <3> QED
      BY <3>3, <3>4, <3>5 DEF OfferInv
  <2> QED
    BY <2>3, <2>4, <2>5
<1>9. ASSUME LoopTakes \/ LoopEnds \/ RouterTakes PROVE Holds
  <2>1. /\ UNCHANGED <<caller, ended, turns, trackVars, replying, done, stdin, stdout, serverVars>>
    BY <1>9 DEF LoopTakes, LoopEnds, RouterTakes
  <2>2. /\ input' \in Seq(Requests) /\ queue' \in Seq(Requests) /\ held' \subseteq Requests
    <3>1. input \in Seq(Requests) /\ queue \in Seq(Requests) /\ held \subseteq Requests
      BY DEF ClientTypes
    <3>2. CASE LoopTakes
      BY <3>1, <3>2, Appended, Tailed DEF LoopTakes
    <3>3. CASE LoopEnds
      BY <3>1, <3>3 DEF LoopEnds
    <3>4. CASE RouterTakes
      BY <3>1, <3>4, Tailed DEF RouterTakes
    <3> QED
      BY <1>9, <3>2, <3>3, <3>4
  <2>3. ClientTypes'
    BY <2>1, <2>2 DEF ClientTypes, trackVars, serverVars
  <2> QED
    BY <1>2, <2>1, <2>3 DEF trackVars, serverVars
<1>10. ASSUME Dies PROVE Holds
  <2>1. /\ alive' = FALSE /\ stdin' = <<>> /\ owed' = {} /\ item' = [i \in Items |-> Nothing]
        /\ UNCHANGED <<caller, ended, turns, trackVars, writer, eventVars, done, stdout, served,
                       spoken, asked>>
    BY <1>10 DEF Dies
  <2>2. ClientTypes'
    <3>1. stdin' \in Seq(ToChild)
      BY <2>1
    <3>2. owed' \subseteq [id : CallIds, ok : BOOLEAN] /\ alive' \in BOOLEAN
      BY <2>1
    <3>3. item' \in [Items -> {Nothing, "running", "over"}]
      BY <2>1
    <3> QED
      BY <2>1, <3>1, <3>2, <3>3 DEF ClientTypes, trackVars, eventVars
  <2>3. StartedOnce' /\ TurnAnswersItsCaller' /\ NewsAreSound'
    BY <2>1 DEF StartedOnce, NotAskedYet, TurnAnswersItsCaller, NewsAreSound
  <2>4. ASSUME OfferInv PROVE OfferInv'
    <3>1. "running" # Nothing
      BY ClientAssumption
    <3>2. \A i \in Items : item'[i] # "running"
      BY <2>1, <3>1
    <3>3. \A i \in Items : ~RunsUnasked(i)'
      BY <3>2 DEF RunsUnasked
    <3> QED
      BY <2>1, <2>4, <3>2, <3>3, QuietServerKeepsOffers DEF trackVars
  <2> QED
    BY <2>2, <2>3, <2>4
<1>11. ASSUME ServerStep PROVE Holds
  BY <1>11, ServerKeeps
<1>12. ASSUME UNCHANGED clientVars PROVE Holds
  <2>1. ClientTypes'
    BY <1>12 DEF clientVars, ClientTypes, trackVars, eventVars, serverVars
  <2> QED
    BY <1>2, <1>12, <2>1 DEF clientVars, trackVars, eventVars, serverVars
<1> HIDE DEF Holds
<1>13. Holds
  BY <1>1, <1>3, <1>5, <1>6, <1>7, <1>8, <1>9, <1>10, <1>11, <1>12 DEF Next, ReaderStep
<1> QED
  BY <1>13 DEF Holds

LEMMA ClientInit == Init => TurnInv /\ OfferInv
<1> SUFFICES ASSUME Init PROVE TurnInv /\ OfferInv
  OBVIOUS
<1>1. ClientTypes
  <2>1. caller \in [Callers -> ClientRows]
    <3>1. [at |-> "idle", nth |-> 0, call |-> "none", phase |-> "start", target |-> Nothing,
           left |-> {}, got |-> "nothing", text |-> FALSE] \in ClientRows
      BY DEF ClientRows
    <3> QED
      BY <3>1 DEF Init
  <2>2. turns \in [Turns -> TurnStates]
    BY DEF Init, TurnStates
  <2>3. stdin \in Seq(ToChild) /\ stdout \in Seq(FromChild)
    BY DEF Init
  <2>4. input \in Seq(Requests) /\ queue \in Seq(Requests)
    BY DEF Init
  <2>5. owed \subseteq [id : CallIds, ok : BOOLEAN] /\ alive \in BOOLEAN /\ done \in BOOLEAN
    BY DEF Init
  <2>6. /\ served \in [Turns -> {Nothing, "running", "stopping"} \cup Statuses]
        /\ spoken \subseteq Turns /\ ended \subseteq Turns /\ held \subseteq Requests
        /\ replying \in {Nothing} \cup Requests
    BY DEF Init
  <2>7. tracked \in [Items -> {Nothing, "unbound"} \cup Requests] /\ offer \in [Requests -> SUBSET Items]
    BY DEF Init
  <2>8. /\ item \in [Items -> {Nothing, "running", "over"}]
        /\ asked \in [Requests -> {Nothing, "asked", "answered"}]
    BY DEF Init
  <2> QED
    BY <2>1, <2>2, <2>3, <2>4, <2>5, <2>6, <2>7, <2>8 DEF ClientTypes
<1>2. /\ DOMAIN stdin = {} /\ DOMAIN stdout = {}
      /\ \A a \in Callers : caller[a].at = "idle" /\ caller[a].got = "nothing"
      /\ \A t \in Turns : turns[t].text = FALSE /\ turns[t].status = Nothing /\ served[t] = Nothing
      /\ \A i \in Items : item[i] = Nothing
      /\ \A r \in Requests : offer[r] = {}
      /\ spoken = {} /\ Turns \subseteq Callers
  BY DEF Init, Callers
<1>3. StartedOnce /\ NewsAreSound /\ TurnAnswersItsCaller
  BY <1>2 DEF StartedOnce, NewsAreSound, TurnAnswersItsCaller, Writing, Statuses
<1>4. \A i \in Items : item[i] # "running"
  BY <1>2, ClientAssumption
<1>5. RequestsAreAsked /\ ToolsAreSound /\ RunningIsTracked /\ SubjectIsTracked
  BY <1>2, <1>4 DEF RequestsAreAsked, ToolsAreSound, RunningIsTracked, SubjectIsTracked, RunsUnasked
<1>6. OfferNamesItsCall
  BY <1>2, SubjectTypes DEF OfferNamesItsCall
<1> QED
  BY <1>1, <1>3, <1>5, <1>6 DEF TurnInv, OfferInv

\* The result of a turn is the one the App Server ended it with, and the text
\* is its final answer, however the answers to calls and the notifications
\* overtake each other, and whichever callers gave up, were interrupted or
\* swept (codex/client.go waitForTurn, integration/codex.go Turn).
THEOREM TurnsAnswerTheirCallers == Spec => []TurnAnswersItsCaller
<1>1. Init => TurnInv
  BY ClientInit
<1>2. TurnInv /\ [Next]_clientVars => TurnInv'
  BY ClientStep
<1>3. TurnInv => TurnAnswersItsCaller
  BY DEF TurnInv
<1> QED
  BY <1>1, <1>2, <1>3, PTL DEF Spec

\* If Codex asks for approval of a call at most once, the user is shown the
\* call that was asked about, although the elicitation does not name it and
\* any number of like calls may be under way (codex/mcp_elicitation.go
\* uniqueUnboundCall, recordMCPLifecycle).
THEOREM OffersNameTheirCalls ==
    ASSUME OneApprovalPerCall PROVE Spec => []OfferNamesItsCall
<1>1. Init => TurnInv /\ OfferInv
  BY ClientInit
<1>2. (TurnInv /\ OfferInv) /\ [Next]_clientVars => (TurnInv /\ OfferInv)'
  BY ClientStep
<1>3. TurnInv /\ OfferInv => OfferNamesItsCall
  BY DEF OfferInv
<1> QED
  BY <1>1, <1>2, <1>3, PTL DEF Spec

=============================================================================
