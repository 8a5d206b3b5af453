--------------------------- MODULE KnowledgeProofs ---------------------------
(***************************************************************************)
(* Theorems of the knowledge graph, for any number of runs, edits,         *)
(* documents, generations, crashes and errors.                             *)
(*                                                                         *)
(* The guard keeps jobs apart only while the process lives, and what a     *)
(* crash leaves of a candidate stays in the table.  That a patch is        *)
(* applied once therefore rests on what may still become usable: the       *)
(* candidate of the live job, which was begun when no receipt was usable   *)
(* (JobIsSound), and the left candidates of rebuilds, which carry none     *)
(* (RowsAreSound).                                                         *)
(***************************************************************************)
EXTENDS KnowledgeGraph, FiniteSetTheorems, NaturalsInduction, WellFoundedInduction, TLAPS

-----------------------------------------------------------------------------
(* The inductive invariant. *)

GenRow ==
    [state : GenerationStates, origin : {"root", "run", "rebuild", "scratch"},
     ontology : 0..MaxOntology, run : Runs \cup {None},
     batch : {None, "open", "applied", "failed"}, snapshot : BOOLEAN,
     holds : SUBSET (Runs \cup Edits \cup Docs)]

JobRow ==
    [kind : {None, "adopt", "rebuild", "edit"}, by : {"user", "engine", "recovery"},
     item : Runs \cup Edits \cup {None}, seen : HeadStatuses, gen : Nat, docs : SUBSET Docs,
     step : {None, "claim", "create", "copy", "project", "extract", "publish", "validate",
             "load", "swap"}]

Tables ==
    /\ gens \in Seq(GenRow)
    /\ head \in [gen : Nat \ {0}, status : HeadStatuses]
    /\ job \in JobRow
    /\ docs \in [Docs -> {"out", "in", "gone"}]
    /\ ontology \in 0..MaxOntology
    /\ runs \in [Runs -> {"none", "open", "succeeded"}]
    /\ phase \in {"scratch", "heads", "adoptions", "open"}
    /\ mishaps \in 0..MaxMishaps

\* The rows of the callers, and what each knows of the other's queue.
CallersAreSound ==
    /\ engine \in [run : Runs \cup {None}, step : {None, "index", "adopt", "adopting"}]
    /\ engine.step # None => engine.run \in Runs /\ runs[engine.run] = "succeeded"
    /\ rec \in [step : {None, "next", "quarantine", "index", "adopt", "adopting"},
                queue : Seq({r \in Runs : runs[r] = "succeeded"})]
    /\ rec.step \in {"quarantine", "index", "adopt", "adopting"} => rec.queue # <<>>
    /\ job.kind # None /\ job.by = "recovery" => rec.step = "adopting"
    /\ phase \in {"scratch", "heads"} => job = NoJob /\ engine = NoWork /\ rec = NoRecovery
    /\ indexed \subseteq {r \in Runs : runs[r] = "succeeded"}

Slots == DOMAIN gens

\* What may be read off a row of a generation, whoever left it there.
RowsAreSound ==
    \A g \in Slots :
        /\ gens[g].run # None => gens[g].origin = "run"
        /\ gens[g].batch # None => gens[g].origin = "rebuild"
        /\ gens[g].state \in Usable => gens[g].snapshot
        /\ gens[g].origin = "scratch" =>
             /\ g = Len(gens) /\ gens[g].state \notin Usable
             /\ phase = "scratch" \/ (job.kind = "edit" /\ job.gen = g)

HeadIsSound ==
    /\ head.gen \in Slots /\ gens[head.gen].state = "ready"
    /\ ledger \in [Edits -> Nat]
    /\ \A e \in Edits : ledger[e] # 0 => ledger[e] \in Slots /\ gens[ledger[e]].state \in Usable

\* One generation at most for each run.
OneReceipt ==
    \A g, h \in Slots :
        /\ gens[g].state \in Usable /\ gens[h].state \in Usable
        /\ gens[g].run = gens[h].run /\ gens[g].run \in Runs
        => g = h

Early   == {"claim", "create"}
Filled  == {"project", "extract", "publish", "validate", "load", "swap"}
Sealed  == {"validate", "load", "swap"}

\* The candidate of the job: what its step says of its row, and what it was
\* given at the copy.
CandidateIsSound ==
    /\ job.gen \in Slots \ {head.gen}
    /\ job.kind = "adopt" => gens[job.gen].origin = "run"
    /\ job.kind = "rebuild" => gens[job.gen].origin = "rebuild"
    /\ job.kind = "edit" => gens[job.gen].origin = "scratch"
    /\ gens[job.gen].ontology = ontology
    /\ job.step \in {"copy", "project", "extract", "publish", "validate"} =>
         gens[job.gen].state \in {"building", "failed"}
    /\ job.step = "load" => gens[job.gen].state \in {"validating", "failed"}
    /\ job.step = "swap" => gens[job.gen].state = "ready"
    /\ job.step \in Sealed => gens[job.gen].snapshot
    /\ job.kind \in {"adopt", "rebuild"} /\ job.step \in Filled =>
         gens[head.gen].holds \cup PendingEdits(head.gen) \subseteq gens[job.gen].holds
    /\ job.kind = "adopt" =>
         gens[job.gen].run \in IF job.step \in {"copy", "project"} THEN {None} ELSE {job.item}

JobIsSound ==
    /\ job.kind = None => job = NoJob
    /\ job.kind = "edit" => job.step = "copy" /\ job.item \in Edits
    /\ job.kind = "adopt" =>
         /\ job.step \in Early \cup {"copy"} \cup (Filled \ {"extract"})
         /\ job.item \in Runs /\ runs[job.item] = "succeeded"
         /\ job.by # "user"
         /\ Receipts(job.item, Usable) \subseteq IF job.step = "swap" THEN {job.gen} ELSE {}
    /\ job.kind = "rebuild" => job.step \in {"create", "copy"} \cup Filled /\ job.by = "user"
    /\ job.step \in Early => job.gen = 0
    /\ job.kind # None /\ job.step \notin Early => CandidateIsSound

KnowledgeInv ==
    /\ Tables /\ CallersAreSound /\ RowsAreSound /\ HeadIsSound /\ OneReceipt /\ JobIsSound

-----------------------------------------------------------------------------
(* Lists, sets of generations and records. *)

\* The table of generations, read row by row.
LEMMA GenRows ==
    ASSUME gens \in Seq(GenRow)
    PROVE  /\ Len(gens) \in Nat /\ Slots = 1..Len(gens)
           /\ \A g \in Slots : gens[g] \in GenRow
BY DEF Slots

\* A row is changed.
LEMMA ChangeRow ==
    ASSUME gens \in Seq(GenRow), NEW c \in Slots, NEW row \in GenRow,
           gens' = [gens EXCEPT ![c] = row]
    PROVE  /\ gens' \in Seq(GenRow) /\ Slots' = Slots /\ Len(gens') = Len(gens)
           /\ gens'[c] = row /\ \A g \in Slots \ {c} : gens'[g] = gens[g]
BY DEF Slots

\* Every row is changed in its own way.
LEMMA ChangeRows ==
    ASSUME gens \in Seq(GenRow), DOMAIN gens' = Slots, \A g \in Slots : gens'[g] \in GenRow,
           gens' = [g \in Slots |-> gens'[g]]
    PROVE  gens' \in Seq(GenRow) /\ Slots' = Slots /\ Len(gens') = Len(gens)
<1>1. Len(gens) \in Nat /\ Slots = 1..Len(gens)
  BY GenRows
<1>2. gens' \in [1..Len(gens) -> GenRow]
  BY <1>1
<1> QED
  BY <1>1, <1>2 DEF Slots

\* A row is added.
LEMMA AddRow ==
    ASSUME gens \in Seq(GenRow), NEW row \in GenRow, gens' = Append(gens, row)
    PROVE  /\ gens' \in Seq(GenRow) /\ Len(gens') = Len(gens) + 1
           /\ Slots' = Slots \cup {Len(gens) + 1} /\ Len(gens) + 1 \notin Slots
           /\ gens'[Len(gens) + 1] = row /\ \A g \in Slots : gens'[g] = gens[g]
BY DEF Slots

\* The last row is removed.
LEMMA DropRow ==
    ASSUME gens \in Seq(GenRow), Len(gens) \in Slots, gens' = Front(gens)
    PROVE  /\ gens' \in Seq(GenRow) /\ Slots' = Slots \ {Len(gens)}
           /\ Len(gens') = Len(gens) - 1
           /\ \A g \in Slots \ {Len(gens)} : gens'[g] = gens[g]
<1>1. Len(gens) \in Nat \ {0} /\ Slots = 1..Len(gens)
  BY GenRows
<1>2. gens' = SubSeq(gens, 1, Len(gens) - 1)
  BY DEF Front
<1>3. gens' = [i \in 1..(Len(gens) - 1) |-> gens[i]]
  BY <1>1, <1>2
<1>4. \A i \in 1..(Len(gens) - 1) : gens[i] \in GenRow
  BY <1>1, GenRows
<1>5. gens' \in Seq(GenRow) /\ Len(gens') = Len(gens) - 1
  BY <1>1, <1>3, <1>4
<1>6. Slots' = 1..(Len(gens) - 1)
  BY <1>3 DEF Slots
<1>7. 1..(Len(gens) - 1) = (1..Len(gens)) \ {Len(gens)}
  BY <1>1
<1>8. \A g \in 1..(Len(gens) - 1) : gens'[g] = gens[g]
  BY <1>3
<1> QED
  BY <1>1, <1>5, <1>6, <1>7, <1>8

\* A set of generations that is not empty has a newest.
LEMMA NewestIsMember ==
    ASSUME gens \in Seq(GenRow), NEW S \in SUBSET Slots, S # {}
    PROVE  Max(S) \in S
<1> DEFINE n == Len(gens)
           T == {n - g : g \in S}
           R == OpToRel(<, Nat)
<1>1. n \in Nat /\ S \subseteq 1..n
  BY GenRows
<1>2. T \subseteq Nat /\ T # {}
  <2>1. \A g \in S : n - g \in Nat
    BY <1>1
  <2>2. PICK g \in S : TRUE
    OBVIOUS
  <2>3. n - g \in T
    BY <2>2
  <2> HIDE DEF n
  <2> QED
    BY <2>1, <2>3
<1>3. IsWellFoundedOn(R, Nat)
  BY NatLessThanWellFounded
<1>4. PICK t \in T : \A u \in T : ~(<<u, t>> \in R)
  <2> HIDE DEF T, R
  <2> QED
    BY <1>2, <1>3, WFMin
<1>5. PICK g \in S : t = n - g
  BY <1>4
<1>6. ASSUME NEW h \in S PROVE g >= h
  <2>1. n - h \in T /\ n - h \in Nat /\ t \in Nat
    BY <1>1, <1>2, <1>4
  <2>2. ~(n - h < t)
    BY <1>4, <2>1 DEF OpToRel
  <2> QED
    BY <1>1, <1>5, <2>1, <2>2
<1>7. \E x \in S : \A y \in S : x >= y
  BY <1>6
<1> QED
  BY <1>7 DEF Max

\* The list of pending adoptions is one of succeeded runs.
LEMMA PendingIsList == PendingAdoptions \in Seq({r \in Runs : runs[r] = "succeeded"})
<1> DEFINE S == {r \in Runs : IsPending(r)}
<1>1. IsFiniteSet(S)
  BY KnowledgeAssumption, FS_Subset
<1>2. Cardinality(S) \in Nat
  BY <1>1, FS_CardinalityType
<1>3. \E f \in [1..Cardinality(S) -> S] : IsInjective(f)
  <2>1. ExistsBijection(1..Cardinality(S), S)
    BY <1>1, FS_CardinalityType
  <2> HIDE DEF S
  <2> QED
    BY <2>1 DEF ExistsBijection, Bijection, Injection, IsInjective
<1>4. SetToSeq(S) \in [1..Cardinality(S) -> S]
  <2> HIDE DEF S
  <2> QED
    BY <1>3 DEF SetToSeq
<1>5. S \subseteq {r \in Runs : runs[r] = "succeeded"}
  BY DEF IsPending
<1>6. SetToSeq(S) \in Seq(S)
  <2> HIDE DEF S
  <2> QED
    BY <1>2, <1>4
<1>7. \A U : S \subseteq U => Seq(S) \subseteq Seq(U)
  <2> HIDE DEF S
  <2> QED
    OBVIOUS
<1> QED
  BY <1>5, <1>6, <1>7 DEF PendingAdoptions

\* What AppliedKnowledgeForRun answers: no generation, or one that carries
\* the run's receipt and may be used.
LEMMA AppliedIsAReceipt ==
    ASSUME gens \in Seq(GenRow), NEW r \in Runs
    PROVE  /\ Applied(r) = 0 <=> Receipts(r, Usable) = {}
           /\ Applied(r) # 0 => Applied(r) \in Receipts(r, Usable)
<1> DEFINE found == Receipts(r, Usable)
           ready == Receipts(r, {"ready"})
<1>1. found \subseteq Slots /\ ready \subseteq found /\ 0 \notin Slots
  BY GenRows DEF Receipts, Slots, Usable
<1>2. found # {} => Max(found) \in found
  BY <1>1, NewestIsMember
<1>3. ready # {} => Max(ready) \in ready
  BY <1>1, NewestIsMember
<1>4. Applied(r) = CASE found = {} -> 0
                     [] head.gen \in found -> head.gen
                     [] head.gen \notin found /\ ready # {} -> Max(ready)
                     [] OTHER -> Max(found)
  BY DEF Applied
<1> HIDE DEF found, ready
<1>5. CASE found = {}
  <2>1. Applied(r) = 0
    BY <1>1, <1>4, <1>5
  <2> QED
    BY <1>5, <2>1 DEF found
<1>6. CASE found # {}
  <2>1. Applied(r) \in found
    BY <1>1, <1>2, <1>3, <1>4, <1>6
  <2> QED
    BY <1>1, <1>6, <2>1 DEF found
<1> QED
  BY <1>5, <1>6 DEF found

-----------------------------------------------------------------------------
(* Steps of a kind. *)

\* The parts of the invariant that speak of generations.
GraphInv == RowsAreSound /\ HeadIsSound /\ OneReceipt /\ JobIsSound

Done == {r \in Runs : runs[r] = "succeeded"}

\* The head, the job and its candidate have their types.
LEMMA JobFacts ==
    ASSUME KnowledgeInv
    PROVE  /\ Len(gens) \in Nat /\ Slots = 1..Len(gens)
           /\ \A g \in Slots : gens[g] \in GenRow
           /\ job \in JobRow /\ head \in [gen : Nat \ {0}, status : HeadStatuses]
           /\ head.gen \in Slots
           /\ job.gen # 0 => job.kind # None /\ job.step \notin Early /\ CandidateIsSound
           /\ job.gen = 0 => job.kind = None \/ job.step \in Early
           /\ job.step # None => job.kind # None /\ phase \notin {"scratch", "heads"}
<1>1. /\ Len(gens) \in Nat /\ Slots = 1..Len(gens)
      /\ \A g \in Slots : gens[g] \in GenRow
      /\ job \in JobRow /\ head \in [gen : Nat \ {0}, status : HeadStatuses]
      /\ head.gen \in Slots
  BY GenRows DEF KnowledgeInv, Tables, HeadIsSound
<1>2. JobIsSound /\ CallersAreSound
  BY DEF KnowledgeInv
<1>3. NoJob.gen = 0 /\ NoJob.step = None /\ NoJob.kind = None
  BY DEF NoJob
<1>4. job.gen # 0 => job.kind # None /\ job.step \notin Early /\ CandidateIsSound
  BY <1>2, <1>3 DEF JobIsSound
<1>5. job.gen = 0 => job.kind = None \/ job.step \in Early
  BY <1>1, <1>2 DEF JobIsSound, CandidateIsSound
<1>6. job.step # None => job.kind # None /\ phase \notin {"scratch", "heads"}
  BY <1>2, <1>3 DEF JobIsSound, CallersAreSound
<1> QED
  BY <1>1, <1>4, <1>5, <1>6

\* A step that leaves the generations, the ledger, the ontology and the job
\* alone; documents, runs and the head's status may change.
LEMMA GraphStands ==
    ASSUME KnowledgeInv, UNCHANGED <<gens, ledger, ontology, job>>,
           head'.gen = head.gen, phase = "scratch" => phase' = "scratch",
           \A r \in Runs : runs[r] = "succeeded" => runs'[r] = "succeeded"
    PROVE  GraphInv'
<1>1. Slots' = Slots /\ \A g : PendingEdits(g)' = PendingEdits(g)
  BY DEF Slots, PendingEdits
<1>2. RowsAreSound' /\ HeadIsSound' /\ OneReceipt'
  BY <1>1 DEF KnowledgeInv, RowsAreSound, HeadIsSound, OneReceipt
<1>3. CandidateIsSound => CandidateIsSound'
  BY <1>1 DEF CandidateIsSound
<1>4. \A r, S : Receipts(r, S)' = Receipts(r, S)
  BY DEF Receipts
<1>5. JobIsSound'
  BY <1>3, <1>4 DEF KnowledgeInv, JobIsSound
<1> QED
  BY <1>2, <1>5 DEF GraphInv

\* The callers after an answer.
LEMMA AnswerStep ==
    ASSUME KnowledgeInv, NEW caller \in {"user", "engine", "recovery"}, NEW ok \in BOOLEAN,
           caller = "recovery" => rec.step \in {"index", "adopt", "adopting"},
           phase \notin {"scratch", "heads"},
           Answer(caller, ok), UNCHANGED <<runs, indexed, phase>>,
           job'.kind # None => (job' = job /\ (caller = "recovery" => rec.step # "adopting"))
    PROVE  CallersAreSound'
<1>1. CASE caller = "user"
  BY <1>1 DEF Answer, KnowledgeInv, CallersAreSound
<1>2. CASE caller = "engine"
  BY <1>2 DEF Answer, KnowledgeInv, CallersAreSound, NoWork
<1>3. CASE caller = "recovery"
  <2>1. rec.queue \in Seq(Done) /\ rec.queue # <<>>
    BY <1>3 DEF KnowledgeInv, CallersAreSound, Done
  <2>2. Tail(rec.queue) \in Seq(Done) /\ <<>> \in Seq(Done)
    BY <2>1
  <2>5. PICK q \in Seq(Done) : rec' = [step |-> "next", queue |-> q]
    BY <1>3, <2>2 DEF Answer
  <2>3. rec'.step = "next" /\ rec' \in [step : {"next"}, queue : Seq(Done)]
    BY <2>5
  <2>4. engine' = engine
    BY <1>3 DEF Answer
  <2> QED
    <3>1. ~(job'.kind # None /\ job'.by = "recovery")
      BY <1>3 DEF KnowledgeInv, CallersAreSound
    <3>2. /\ engine \in [run : Runs \cup {None}, step : {None, "index", "adopt", "adopting"}]
          /\ engine.step # None => engine.run \in Runs /\ runs[engine.run] = "succeeded"
          /\ indexed \subseteq Done
      BY DEF KnowledgeInv, CallersAreSound, Done
    <3>3. Done' = Done
      BY DEF Done
    <3> HIDE DEF Done
    <3>4. rec' \in [step : {None, "next", "quarantine", "index", "adopt", "adopting"},
                    queue : Seq(Done)]
      BY <2>3
    <3> QED
      BY <2>3, <2>4, <3>1, <3>2, <3>3, <3>4 DEF CallersAreSound, Done
<1> QED
  BY <1>1, <1>2, <1>3

\* Some generations that were never finished fail, and nothing else happens
\* to the graph: what they were is left to be read.
Weakened(g) ==
    /\ gens'[g].origin = gens[g].origin /\ gens'[g].ontology = gens[g].ontology
    /\ gens'[g].run = gens[g].run /\ gens'[g].snapshot = gens[g].snapshot
    /\ gens'[g].holds = gens[g].holds
    /\ gens'[g].batch # None => gens[g].batch # None
    /\ \/ gens'[g].state = gens[g].state
       \/ gens'[g].state = "failed" /\ gens[g].state \in {"building", "validating"}

\* Meanwhile a job goes on, ends, or is a rebuild that begins.
JobGoes ==
    \/ job' \in {job, NoJob}
    \/ job.kind = None /\ job' = [NoJob EXCEPT !.kind = "rebuild", !.step = "create"]

LEMMA WeakenedStep ==
    ASSUME KnowledgeInv, UNCHANGED <<ledger, ontology>>, head'.gen = head.gen,
           JobGoes, phase' = phase, runs' = runs,
           Slots' = Slots, Len(gens') = Len(gens), \A g \in Slots : Weakened(g),
           job.kind = "edit" => job' = job
    PROVE  GraphInv'
<1>0. RowsAreSound /\ HeadIsSound /\ OneReceipt /\ JobIsSound
  BY DEF KnowledgeInv
<1>3. RowsAreSound'
  <2>1. ASSUME NEW g \in Slots, gens[g].origin = "scratch"
        PROVE  phase' = "scratch" \/ (job'.kind = "edit" /\ job'.gen = g)
    BY <1>0, <2>1 DEF RowsAreSound
  <2> QED
    BY <1>0, <2>1 DEF RowsAreSound, Usable, Weakened
<1>4. HeadIsSound'
  BY <1>0 DEF HeadIsSound, Usable, Weakened
<1>5. OneReceipt'
  BY <1>0 DEF OneReceipt, Usable, Weakened
<1>6. \A r : Receipts(r, Usable)' = Receipts(r, Usable)
  BY DEF Receipts, Slots, Usable, Weakened
<1>7. JobIsSound'
  <2>1. CASE job' = NoJob
    BY <2>1 DEF JobIsSound, NoJob, None, Early
  <2>2. CASE job' = job
    <3>1. \A g : PendingEdits(g)' = PendingEdits(g)
      BY DEF PendingEdits
    <3>2. CandidateIsSound => CandidateIsSound'
      <4> SUFFICES ASSUME CandidateIsSound PROVE CandidateIsSound'
        OBVIOUS
      <4>1. Weakened(job.gen) /\ Weakened(head.gen)
        BY <1>0 DEF CandidateIsSound, HeadIsSound
      <4> QED
        BY <2>2, <3>1, <4>1 DEF CandidateIsSound, Weakened
    <3> QED
      BY <1>0, <1>6, <2>2, <3>2 DEF JobIsSound
  <2>3. CASE job' = [NoJob EXCEPT !.kind = "rebuild", !.step = "create"]
    BY <2>3 DEF JobIsSound, NoJob, None, Early
  <2> QED
    BY <2>1, <2>2, <2>3 DEF JobGoes
<1> QED
  BY <1>3, <1>4, <1>5, <1>7 DEF GraphInv

\* The rows as the code writes them.
LEMMA FailStep ==
    ASSUME KnowledgeInv, UNCHANGED <<ledger, ontology>>, head'.gen = head.gen,
           JobGoes, phase' = phase,
           runs' = runs, DOMAIN gens' = Slots, gens' = [g \in Slots |-> gens'[g]],
           \A g \in Slots :
              \/ gens'[g] = gens[g]
              \/ /\ gens[g].state \in Unfinished
                 /\ \E b \in {gens[g].batch, "failed"} :
                      /\ gens[g].batch = None => b = None
                      /\ gens'[g] = [gens[g] EXCEPT !.state = "failed", !.batch = b],
           job.kind = "edit" => job' = job
    PROVE  GraphInv' /\ gens' \in Seq(GenRow)
<1>0. /\ \A g \in Slots : gens[g] \in GenRow
      /\ Tables /\ RowsAreSound /\ HeadIsSound /\ OneReceipt /\ JobIsSound
  BY JobFacts DEF KnowledgeInv
<1>1. ASSUME NEW g \in Slots
      PROVE  gens'[g] \in GenRow /\ Weakened(g)
  <2>1. gens[g] \in GenRow
    BY <1>0
  <2>2. CASE gens'[g] = gens[g]
    BY <2>1, <2>2 DEF Weakened
  <2>3. CASE gens'[g] # gens[g]
    <3>1. PICK b \in {gens[g].batch, "failed"} :
            /\ gens[g].batch = None => b = None
            /\ gens'[g] = [gens[g] EXCEPT !.state = "failed", !.batch = b]
      BY <2>3
    <3>2. b \in {None, "open", "applied", "failed"} /\ gens[g].state \in Unfinished
      BY <2>1, <2>3, <3>1 DEF GenRow
    <3> QED
      BY <2>1, <3>1, <3>2 DEF GenRow, GenerationStates, Weakened, Unfinished
  <2> QED
    BY <2>2, <2>3
<1>2. gens' \in Seq(GenRow) /\ Slots' = Slots /\ Len(gens') = Len(gens)
  BY <1>0, <1>1, ChangeRows DEF Tables
<1> QED
  BY <1>1, <1>2, WeakenedStep

\* The rows after an activation: only states change, of the generation that
\* becomes the head and of the one it replaces.
LEMMA ActivatedRows ==
    ASSUME gens \in Seq(GenRow), NEW g \in Slots, head.gen \in Slots,
           NEW current \in {gens, SetGen(g, "state", "ready")}, Activate(g, current),
           gens[head.gen].state = "ready"
    PROVE  /\ gens' \in Seq(GenRow) /\ Slots' = Slots /\ Len(gens') = Len(gens)
           /\ head' = [gen |-> g, status |-> "ready"]
           /\ gens'[g].state = "ready"
           /\ \A h \in Slots :
                /\ gens'[h].origin = gens[h].origin /\ gens'[h].ontology = gens[h].ontology
                /\ gens'[h].run = gens[h].run /\ gens'[h].snapshot = gens[h].snapshot
                /\ gens'[h].holds = gens[h].holds /\ gens'[h].batch = gens[h].batch
                /\ h \notin {g, head.gen} => gens'[h].state = gens[h].state
                /\ h = head.gen /\ h # g => gens'[h].state = "retired"
<1>1. \A h \in Slots : gens[h] \in GenRow
  BY GenRows
<1>2. /\ current \in Seq(GenRow) /\ DOMAIN current = Slots /\ Len(current) = Len(gens)
      /\ \A h \in Slots \ {g} : current[h] = gens[h]
      /\ current[g] \in {gens[g], [gens[g] EXCEPT !.state = "ready"]}
  <2>1. CASE current = gens
    BY <2>1 DEF Slots
  <2>2. CASE current = SetGen(g, "state", "ready")
    <3> DEFINE row == [gens[g] EXCEPT !.state = "ready"]
    <3>1. row \in GenRow
      <4>1. gens[g] \in GenRow
        BY <1>1
      <4> QED
        BY <4>1 DEF GenRow, GenerationStates
    <3>2. current = [gens EXCEPT ![g] = row]
      BY <2>2 DEF SetGen, Slots
    <3> HIDE DEF row
    <3>3. /\ current \in Seq(GenRow) /\ DOMAIN current = Slots /\ Len(current) = Len(gens)
          /\ current[g] = row /\ \A h \in Slots \ {g} : current[h] = gens[h]
      BY <3>1, <3>2 DEF Slots
    <3> QED
      BY <3>3 DEF row
  <2> QED
    BY <2>1, <2>2
<1>3. CASE g = head.gen
  <2>1. gens' = current /\ head' = [gen |-> g, status |-> "ready"]
    BY <1>3 DEF Activate
  <2>2. gens' \in Seq(GenRow) /\ Slots' = Slots /\ Len(gens') = Len(gens)
    BY <1>2, <2>1 DEF Slots
  <2>3. \A h \in Slots \ {g} : gens'[h] = gens[h]
    BY <1>2, <2>1
  <2>4. /\ gens'[g].state = "ready"
        /\ gens'[g].origin = gens[g].origin /\ gens'[g].ontology = gens[g].ontology
        /\ gens'[g].run = gens[g].run /\ gens'[g].snapshot = gens[g].snapshot
        /\ gens'[g].holds = gens[g].holds /\ gens'[g].batch = gens[g].batch
    <3>1. gens[g] \in GenRow /\ gens[g].state = "ready"
      BY <1>1, <1>3
    <3>2. gens'[g] \in {gens[g], [gens[g] EXCEPT !.state = "ready"]}
      BY <1>2, <2>1
    <3> QED
      BY ONLY <3>1, <3>2 DEF GenRow
  <2> QED
    BY <1>3, <2>1, <2>2, <2>3, <2>4
<1>4. CASE g # head.gen
  <2>0. current[g] \in GenRow /\ current[head.gen] = gens[head.gen]
    BY <1>1, <1>2, <1>4 DEF GenRow, GenerationStates
  <2>1. gens' = [current EXCEPT ![g].state = "ready", ![head.gen].state = "retired"]
    BY <1>4 DEF Activate
  <2>2. /\ DOMAIN gens' = Slots /\ gens' = [h \in Slots |-> gens'[h]]
        /\ gens'[g] = [current[g] EXCEPT !.state = "ready"]
        /\ gens'[head.gen] = [gens[head.gen] EXCEPT !.state = "retired"]
        /\ \A h \in Slots \ {g, head.gen} : gens'[h] = gens[h]
    BY <1>2, <1>4, <2>0, <2>1
  <2>3. \A h \in Slots : gens'[h] \in GenRow
    <3>1. gens'[g] \in GenRow
      BY <2>0, <2>2 DEF GenRow, GenerationStates
    <3>2. gens'[head.gen] \in GenRow
      BY <1>1, <2>2 DEF GenRow, GenerationStates
    <3> QED
      BY <1>1, <2>2, <3>1, <3>2
  <2>4. gens' \in Seq(GenRow) /\ Slots' = Slots /\ Len(gens') = Len(gens)
    BY <2>2, <2>3, ChangeRows
  <2>5. gens'[g].state = "ready" /\ gens'[head.gen].state = "retired"
    BY <1>1, <2>0, <2>2 DEF GenRow
  <2>6. ASSUME NEW h \in {g, head.gen}
        PROVE  /\ gens'[h].origin = gens[h].origin /\ gens'[h].ontology = gens[h].ontology
               /\ gens'[h].run = gens[h].run /\ gens'[h].snapshot = gens[h].snapshot
               /\ gens'[h].holds = gens[h].holds /\ gens'[h].batch = gens[h].batch
    <3>1. CASE h = head.gen
      BY <1>1, <2>2, <3>1 DEF GenRow
    <3>2. CASE h = g
      <4>1. gens[g] \in GenRow /\ current[g] \in {gens[g], [gens[g] EXCEPT !.state = "ready"]}
        BY <1>1, <1>2
      <4>2. gens'[g] = [current[g] EXCEPT !.state = "ready"]
        BY <2>2
      <4>3. CASE current[g] = gens[g]
        BY ONLY <3>2, <4>1, <4>2, <4>3 DEF GenRow
      <4>4. CASE current[g] = [gens[g] EXCEPT !.state = "ready"]
        BY ONLY <3>2, <4>1, <4>2, <4>4 DEF GenRow
      <4> QED
        BY <4>1, <4>3, <4>4
    <3> QED
      BY <3>1, <3>2
  <2> QED
    <3>1. head' = [gen |-> g, status |-> "ready"]
      BY DEF Activate
    <3>2. \A h \in Slots \ {g, head.gen} : gens'[h] = gens[h]
      BY <2>2
    <3> QED
      BY <1>4, <2>4, <2>5, <2>6, <3>1, <3>2
<1> QED
  BY <1>3, <1>4

\* An activation keeps the invariant when the generation is validated and
\* brings no receipt that was not usable before.
LEMMA ActivateStep ==
    ASSUME KnowledgeInv, NEW g \in Slots, gens[g].snapshot, gens[g].origin # "scratch",
           gens[g].state \in Usable \/ gens[g].run \notin Runs,
           NEW current \in {gens, SetGen(g, "state", "ready")}, Activate(g, current),
           job.kind # "edit", job' = NoJob, ledger' = ledger, phase' = phase
    PROVE  /\ GraphInv' /\ gens' \in Seq(GenRow)
           /\ head' \in [gen : Nat \ {0}, status : HeadStatuses]
<1>0. RowsAreSound /\ HeadIsSound /\ OneReceipt /\ gens \in Seq(GenRow)
  BY DEF KnowledgeInv, Tables
<1>1. /\ gens' \in Seq(GenRow) /\ Slots' = Slots /\ Len(gens') = Len(gens)
      /\ head' = [gen |-> g, status |-> "ready"]
      /\ gens'[g].state = "ready"
      /\ \A h \in Slots :
           /\ gens'[h].origin = gens[h].origin /\ gens'[h].run = gens[h].run
           /\ gens'[h].snapshot = gens[h].snapshot /\ gens'[h].batch = gens[h].batch
           /\ h \notin {g, head.gen} => gens'[h].state = gens[h].state
           /\ h = head.gen /\ h # g => gens'[h].state = "retired"
  BY <1>0, ActivatedRows DEF HeadIsSound
<1>2. head.gen \in Slots /\ gens[head.gen].state = "ready"
  BY <1>0 DEF HeadIsSound
<1>3. \A h \in Slots : gens'[h].state \in Usable <=> h = g \/ gens[h].state \in Usable
  BY <1>1, <1>2 DEF Usable
<1>4. RowsAreSound'
  <2>1. ASSUME NEW h \in Slots', gens'[h].origin = "scratch"
        PROVE  h = Len(gens') /\ gens'[h].state \notin Usable /\ phase' = "scratch"
    <3>1. h \in Slots /\ gens[h].origin = "scratch"
      BY <1>1, <2>1
    <3>2. h = Len(gens) /\ gens[h].state \notin Usable /\ phase = "scratch"
      BY <1>0, <3>1 DEF RowsAreSound
    <3> QED
      BY <1>1, <1>3, <3>1, <3>2
  <2>2. ASSUME NEW h \in Slots'
        PROVE  /\ gens'[h].run # None => gens'[h].origin = "run"
               /\ gens'[h].batch # None => gens'[h].origin = "rebuild"
               /\ gens'[h].state \in Usable => gens'[h].snapshot
    BY <1>0, <1>1, <1>3 DEF RowsAreSound
  <2> QED
    BY <2>1, <2>2 DEF RowsAreSound
<1>5. HeadIsSound'
  BY <1>0, <1>1, <1>3 DEF HeadIsSound
<1>6. OneReceipt'
  BY <1>0, <1>1, <1>3 DEF OneReceipt
<1>7. JobIsSound'
  BY DEF JobIsSound, NoJob, None, Early
<1>8. g \in Nat \ {0}
  BY <1>0, GenRows
<1> QED
  BY <1>1, <1>4, <1>5, <1>6, <1>7, <1>8 DEF GraphInv, HeadStatuses

\* What the row of a candidate must be for the job to stand at a step.
Fits(row, step) ==
    /\ row.origin = gens[job.gen].origin /\ row.ontology = gens[job.gen].ontology
    /\ row.run # None => job.kind = "adopt"
    /\ row.batch # None => job.kind = "rebuild"
    /\ row.state \in Usable => row.snapshot /\ step = "swap"
    /\ step \in {"copy", "project", "extract", "publish", "validate"} =>
         row.state \in {"building", "failed"}
    /\ step = "load" => row.state \in {"validating", "failed"}
    /\ step = "swap" => row.state = "ready"
    /\ step \in Sealed => row.snapshot
    /\ step \in Filled =>
         gens[head.gen].holds \cup PendingEdits(head.gen) \subseteq row.holds
    /\ job.kind = "adopt" =>
         row.run \in IF step \in {"copy", "project"} THEN {None} ELSE {job.item}

\* The job writes its candidate's row and goes on to a step that row fits.
LEMMA CandidateStep ==
    ASSUME KnowledgeInv, job.kind \in {"adopt", "rebuild"}, job.gen # 0, job.step # "swap",
           NEW row \in GenRow, NEW step \in {"copy"} \cup Filled, Fits(row, step),
           job.kind = "adopt" => step # "extract",
           gens' = [gens EXCEPT ![job.gen] = row],
           NEW todo \in SUBSET Docs, job' = [job EXCEPT !.step = step, !.docs = todo],
           UNCHANGED <<head, ledger, docs, ontology, runs, indexed, engine, rec, phase, mishaps>>
    PROVE  KnowledgeInv'
<1>0. RowsAreSound /\ HeadIsSound /\ OneReceipt /\ JobIsSound /\ CandidateIsSound
      /\ Tables /\ CallersAreSound
  BY JobFacts DEF KnowledgeInv
<1> DEFINE c == job.gen
<1>1. /\ gens' \in Seq(GenRow) /\ Slots' = Slots /\ Len(gens') = Len(gens)
      /\ gens'[c] = row /\ (\A g \in Slots \ {c} : gens'[g] = gens[g])
      /\ c \in Slots \ {head.gen}
  <2>1. gens \in Seq(GenRow) /\ c \in Slots \ {head.gen}
    BY <1>0 DEF Tables, CandidateIsSound
  <2> HIDE DEF c
  <2>2. gens' = [gens EXCEPT ![c] = row]
    BY DEF c
  <2> QED
    BY ONLY <2>1, <2>2, row \in GenRow, ChangeRow
<1>2. /\ job' \in JobRow /\ job'.kind = job.kind /\ job'.gen = c /\ job'.item = job.item
      /\ job'.by = job.by /\ job'.step = step
  BY <1>0 DEF Tables, JobRow, Filled
<1>n. row.origin # "scratch" /\ gens[c].origin # "scratch"
  BY <1>0 DEF CandidateIsSound, Fits
<1>u. gens[c].state \notin Usable
  BY <1>0 DEF CandidateIsSound, JobIsSound, Usable, Filled, Early
<1>3. RowsAreSound'
  <2>1. /\ row.run # None => row.origin = "run"
        /\ row.batch # None => row.origin = "rebuild"
        /\ row.state \in Usable => row.snapshot
    BY <1>0 DEF Fits, CandidateIsSound
  <2>2. \A g \in Slots \ {c} : gens[g].origin # "scratch" \/ phase = "scratch"
    BY <1>0 DEF RowsAreSound
  <2> QED
    BY <1>0, <1>1, <1>2, <1>n, <2>1, <2>2 DEF RowsAreSound
<1>4. HeadIsSound'
  BY <1>0, <1>1, <1>u DEF HeadIsSound
<1>r. row.state \in Usable /\ row.run \in Runs =>
        job.kind = "adopt" /\ row.run = job.item /\ Receipts(job.item, Usable) = {}
  BY <1>0, KnowledgeAssumption DEF Fits, JobIsSound
<1>5. OneReceipt'
  BY <1>0, <1>1, <1>r DEF OneReceipt, Receipts, Slots
<1>6. CandidateIsSound'
  <2>1. PendingEdits(head.gen)' = PendingEdits(head.gen)
    BY DEF PendingEdits
  <2> QED
    BY <1>0, <1>1, <1>2, <2>1 DEF CandidateIsSound, Fits
<1>7. JobIsSound'
  <2>1. job.kind = "adopt" =>
          Receipts(job.item, Usable)' \subseteq IF step = "swap" THEN {c} ELSE {}
    <3>1. job.kind = "adopt" => Receipts(job.item, Usable) = {}
      BY <1>0 DEF JobIsSound
    <3> QED
      BY <1>1, <3>1 DEF Receipts, Slots, Fits
  <2> QED
    <3>1. step \notin Early /\ (step \in Filled \/ step = "copy")
      BY DEF Filled, Early
    <3>2. /\ job.kind = "adopt" => /\ job.item \in Runs /\ runs[job.item] = "succeeded"
                                  /\ job.by # "user"
          /\ job.kind = "rebuild" => job.by = "user"
      BY <1>0 DEF JobIsSound
    <3> QED
      BY <1>2, <1>6, <2>1, <3>1, <3>2 DEF JobIsSound, None
<1>8. Tables'
  BY <1>0, <1>1, <1>2 DEF Tables
<1>9. CallersAreSound'
  BY <1>0, <1>2 DEF CallersAreSound, NoJob
<1> QED
  BY <1>3, <1>4, <1>5, <1>7, <1>8, <1>9 DEF KnowledgeInv

-----------------------------------------------------------------------------
(* One lemma for each group of actions. *)

\* AdoptRun before its job: refused, answered from a receipt, or begun.
LEMMA AdoptCallStep ==
    ASSUME KnowledgeInv, NEW caller \in Callers, NEW r \in Runs, AdoptCall(caller, r)
    PROVE  KnowledgeInv'
<1>0. Tables /\ CallersAreSound /\ HeadIsSound /\ JobIsSound /\ OneReceipt /\ RowsAreSound
  BY DEF KnowledgeInv
<1>1. Calls(caller, r) /\ caller \in {"engine", "recovery"}
  BY DEF AdoptCall, AdoptIsBusy, AdoptFindsReceipt, AdoptIsRefused, AdoptBegins, Callers
<1>2. /\ caller = "engine" => engine.step = "adopt" /\ engine.run = r
      /\ caller = "recovery" => rec.step = "adopt" /\ Head(rec.queue) = r
  <2>1. caller = "engine" => engine = [run |-> r, step |-> "adopt"]
    BY <1>1 DEF Calls
  <2>2. caller = "recovery" => rec.step = "adopt" /\ Head(rec.queue) = r
    BY <1>1 DEF Calls
  <2> QED
    BY <2>1, <2>2
<1>3. phase \notin {"scratch", "heads"}
  BY <1>0, <1>1, <1>2 DEF CallersAreSound, NoWork, NoRecovery, None
<1>4. runs[r] = "succeeded"
  <2>1. CASE caller = "engine"
    BY <1>0, <1>2, <2>1 DEF CallersAreSound, None
  <2>2. CASE caller = "recovery"
    <3>1. rec.queue \in Seq(Done) /\ rec.queue # <<>>
      BY <1>0, <1>2, <2>2 DEF CallersAreSound, Done
    <3>2. Head(rec.queue) \in Done
      BY <3>1
    <3> QED
      BY <1>2, <2>2, <3>2 DEF Done
  <2> QED
    BY <1>1, <2>1, <2>2
<1>5. ASSUME NEW ok \in BOOLEAN, Answer(caller, ok), job'.kind # None => job' = job,
             UNCHANGED <<runs, indexed, phase>>
      PROVE  CallersAreSound'
  BY <1>1, <1>2, <1>3, <1>5, AnswerStep
<1>6. ASSUME AdoptIsBusy(caller, r) PROVE KnowledgeInv'
  <2>1. GraphInv'
    BY <1>6, GraphStands DEF AdoptIsBusy
  <2>2. CallersAreSound'
    BY <1>5, <1>6 DEF AdoptIsBusy
  <2>3. Tables'
    BY <1>0, <1>6 DEF AdoptIsBusy, Tables
  <2> QED
    BY <2>1, <2>2, <2>3 DEF KnowledgeInv, GraphInv
<1>7. ASSUME AdoptFindsReceipt(caller, r) PROVE KnowledgeInv'
  <2> DEFINE g == Applied(r)
  <2>0. g \in Receipts(r, Usable) /\ job = NoJob
    BY <1>0, <1>7, AppliedIsAReceipt DEF AdoptFindsReceipt, Tables, GuardIsFree, JobIsSound
  <2>1. CallersAreSound'
    <3>1. (head.status # "failed") \in BOOLEAN
      OBVIOUS
    <3> QED
      BY <1>5, <1>7, <3>1 DEF AdoptFindsReceipt
  <2>2. CASE Activate(g, gens)
    <3>1. /\ g \in Slots /\ gens[g].state \in Usable /\ gens[g].snapshot
          /\ gens[g].origin # "scratch"
      BY <1>0, <2>0 DEF Receipts, Slots, RowsAreSound
    <3>2. /\ job.kind # "edit" /\ job' = NoJob
          /\ UNCHANGED <<ledger, phase, docs, ontology, runs, mishaps>>
      BY <1>7, <2>0 DEF AdoptFindsReceipt, NoJob, None
    <3>3. GraphInv' /\ gens' \in Seq(GenRow) /\ head' \in [gen : Nat \ {0}, status : HeadStatuses]
      <4> HIDE DEF g
      <4> QED
        BY <2>2, <3>1, <3>2, ActivateStep
    <3>4. Tables'
      BY <1>0, <2>0, <3>2, <3>3 DEF Tables
    <3> QED
      BY <2>1, <3>3, <3>4 DEF KnowledgeInv, GraphInv
  <2>3. CASE UNCHANGED <<gens, head>>
    <3>1. GraphInv'
      BY <1>7, <2>3, GraphStands DEF AdoptFindsReceipt
    <3>2. Tables'
      BY <1>0, <1>7, <2>3 DEF AdoptFindsReceipt, Tables
    <3> QED
      BY <2>1, <3>1, <3>2 DEF KnowledgeInv, GraphInv
  <2> QED
    BY <1>7, <2>2, <2>3 DEF AdoptFindsReceipt
<1>8. ASSUME AdoptIsRefused(caller, r) PROVE KnowledgeInv'
  <2>1. head' \in [gen : Nat \ {0}, status : HeadStatuses] /\ head'.gen = head.gen
    BY <1>0, <1>8 DEF AdoptIsRefused, MarkHead, Tables, HeadStatuses
  <2>2. GraphInv'
    BY <1>8, <2>1, GraphStands DEF AdoptIsRefused
  <2>3. CallersAreSound'
    BY <1>5, <1>8 DEF AdoptIsRefused
  <2>4. mishaps' \in 0..MaxMishaps
    BY <1>0, <1>8, KnowledgeAssumption DEF AdoptIsRefused, Mishap, Tables
  <2>5. Tables'
    BY <1>0, <1>8, <2>1, <2>4 DEF AdoptIsRefused, Tables
  <2> QED
    BY <2>2, <2>3, <2>5 DEF KnowledgeInv, GraphInv
<1>9. ASSUME AdoptBegins(caller, r) PROVE KnowledgeInv'
  <2>0. job = NoJob /\ Receipts(r, Usable) = {}
    BY <1>0, <1>9, AppliedIsAReceipt DEF AdoptBegins, Tables, GuardIsFree, JobIsSound
  <2>1. /\ job' = [NoJob EXCEPT !.kind = "adopt", !.by = caller, !.item = r,
                                !.seen = head.status, !.step = "claim"]
        /\ UNCHANGED <<gens, head, ledger, docs, ontology, runs, indexed, phase, mishaps>>
    BY <1>9 DEF AdoptBegins
  <2>2. /\ job' \in JobRow /\ job'.kind = "adopt" /\ job'.by = caller /\ job'.item = r
        /\ job'.gen = 0 /\ job'.step = "claim"
    BY <1>0, <1>1, <2>1 DEF NoJob, JobRow, Tables, HeadStatuses, None
  <2>3. RowsAreSound' /\ HeadIsSound' /\ OneReceipt'
    BY <1>0, <2>0, <2>1 DEF RowsAreSound, HeadIsSound, OneReceipt, Slots, NoJob, None
  <2>4. JobIsSound'
    <3>1. Receipts(r, Usable)' = {}
      BY <2>0, <2>1 DEF Receipts
    <3> QED
      BY <1>1, <1>4, <2>1, <2>2, <3>1 DEF JobIsSound, Early, None
  <2>5. CallersAreSound'
    <3>1. CASE caller = "engine"
      <4>1. rec' = rec /\ engine' = [engine EXCEPT !.step = "adopting"]
        BY <1>9, <3>1 DEF AdoptBegins, CallerWaits
      <4>2. engine \in [run : Runs \cup {None}, step : {None, "index", "adopt", "adopting"}]
        BY <1>0 DEF CallersAreSound
      <4>3. /\ engine' \in [run : Runs \cup {None}, step : {None, "index", "adopt", "adopting"}]
            /\ engine'.run = r
        BY <1>2, <3>1, <4>1, <4>2
      <4> QED
        BY <1>0, <1>3, <1>4, <2>1, <2>2, <3>1, <4>1, <4>3 DEF CallersAreSound
    <3>2. CASE caller = "recovery"
      <4>1. engine' = engine /\ rec' = [rec EXCEPT !.step = "adopting"]
        BY <1>9, <3>2 DEF AdoptBegins, CallerWaits
      <4>2. /\ rec \in [step : {None, "next", "quarantine", "index", "adopt", "adopting"},
                        queue : Seq(Done)]
            /\ rec.queue # <<>>
        BY <1>0, <1>2, <3>2 DEF CallersAreSound, Done
      <4>3. /\ rec' \in [step : {"adopting"}, queue : Seq(Done)]
            /\ rec'.queue # <<>>
        BY <4>1, <4>2
      <4> HIDE DEF Done
      <4>4. Done' = Done
        BY <2>1 DEF Done
      <4>5. rec' \in [step : {None, "next", "quarantine", "index", "adopt", "adopting"},
                      queue : Seq(Done)]
        BY <4>3
      <4> QED
        BY <1>0, <1>3, <2>1, <2>2, <4>1, <4>3, <4>4, <4>5 DEF CallersAreSound, Done
    <3> QED
      BY <1>1, <3>1, <3>2
  <2>6. Tables'
    BY <1>0, <2>1, <2>2 DEF Tables
  <2> QED
    BY <2>3, <2>4, <2>5, <2>6 DEF KnowledgeInv
<1> QED
  BY <1>6, <1>7, <1>8, <1>9 DEF AdoptCall

\* The claim of the head, before the candidate exists.
LEMMA ClaimStep == ASSUME KnowledgeInv, ClaimHead PROVE KnowledgeInv'
<1>0. Tables /\ CallersAreSound /\ HeadIsSound /\ JobIsSound /\ OneReceipt /\ RowsAreSound
  BY DEF KnowledgeInv
<1>1. job.kind = "adopt" /\ job.step = "claim" /\ job' = [job EXCEPT !.step = "create"]
  BY DEF ClaimHead, JobIs, NextStep
<1>2. /\ job' \in JobRow /\ job'.kind = job.kind /\ job'.by = job.by /\ job'.item = job.item
      /\ job'.gen = job.gen /\ job'.step = "create" /\ job.gen = 0
  BY <1>0, <1>1 DEF Tables, JobRow, JobIsSound, Early
<1>3. head' \in [gen : Nat \ {0}, status : HeadStatuses] /\ head'.gen = head.gen
  BY <1>0 DEF ClaimHead, MarkHead, Tables, HeadStatuses
<1>4. UNCHANGED <<gens, ledger, docs, ontology, runs, indexed, engine, rec, phase, mishaps>>
  BY DEF ClaimHead
<1>5. RowsAreSound' /\ HeadIsSound' /\ OneReceipt'
  BY <1>0, <1>1, <1>2, <1>3, <1>4 DEF RowsAreSound, HeadIsSound, OneReceipt, Slots
<1>6. JobIsSound'
  <2>1. \A r : Receipts(r, Usable)' = Receipts(r, Usable)
    BY <1>4 DEF Receipts
  <2> QED
    BY <1>0, <1>1, <1>2, <1>4, <2>1 DEF JobIsSound, Early, None
<1>7. Tables'
  BY <1>0, <1>2, <1>3, <1>4 DEF Tables
<1>8. CallersAreSound'
  BY <1>0, <1>1, <1>2, <1>4 DEF CallersAreSound, NoJob, None
<1> QED
  BY <1>5, <1>6, <1>7, <1>8 DEF KnowledgeInv

\* A new generation is nobody's but the job's.
LEMMA NewCandidate ==
    ASSUME KnowledgeInv, NEW origin \in {"run", "rebuild", "scratch"},
           gens' = Append(gens, NewGeneration(origin)),
           job' \in JobRow, job'.gen = Len(gens) + 1, job'.step = "copy",
           job'.kind = "adopt" => /\ origin = "run" /\ job.kind = "adopt"
                                  /\ job'.item = job.item /\ job.step # "swap" /\ job'.by = job.by,
           job'.kind = "rebuild" => origin = "rebuild" /\ job'.by = "user",
           job'.kind = "edit" => origin = "scratch" /\ job'.item \in Edits,
           job'.kind # None, job.kind # "edit", phase # "scratch",
           job.kind = None => phase = "open" /\ job'.by = "user",
           job.kind # None => job'.by = job.by,
           UNCHANGED <<head, ledger, docs, ontology, runs, indexed, engine, rec, phase, mishaps>>
    PROVE  KnowledgeInv'
<1>0. Tables /\ CallersAreSound /\ HeadIsSound /\ JobIsSound /\ OneReceipt /\ RowsAreSound
  BY DEF KnowledgeInv
<1> DEFINE n == Len(gens) + 1
           row == NewGeneration(origin)
<1>1. /\ row \in GenRow /\ row.state = "building" /\ row.origin = origin
      /\ row.ontology = ontology /\ row.run = None /\ row.batch = None
  BY <1>0 DEF NewGeneration, GenRow, GenerationStates, Tables
<1> HIDE DEF row
<1>2. /\ gens' \in Seq(GenRow) /\ Len(gens') = n /\ Slots' = Slots \cup {n} /\ n \notin Slots
      /\ gens'[n] = row /\ \A g \in Slots : gens'[g] = gens[g]
  <2>1. gens' = Append(gens, row)
    BY DEF row
  <2> QED
    BY <1>0, <1>1, <2>1, AddRow DEF Tables
<1>3. \A g \in Slots : gens[g].origin # "scratch"
  BY <1>0 DEF RowsAreSound
<1>4. RowsAreSound'
  <2>1. row.origin = "scratch" => job'.kind = "edit"
    BY <1>1 DEF JobRow
  <2>2. ASSUME NEW g \in Slots
        PROVE  /\ gens'[g].run # None => gens'[g].origin = "run"
               /\ gens'[g].batch # None => gens'[g].origin = "rebuild"
               /\ gens'[g].state \in Usable => gens'[g].snapshot
               /\ gens'[g].origin # "scratch"
    BY <1>0, <1>2, <1>3 DEF RowsAreSound
  <2>3. gens'[n].state \notin Usable /\ n = Len(gens')
    BY <1>1, <1>2 DEF Usable
  <2>4. (job'.kind = "edit" /\ job'.gen = n) \/ row.origin # "scratch"
    BY <2>1
  <2> HIDE DEF n
  <2> QED
    <3>1. ASSUME NEW g \in Slots'
          PROVE  /\ gens'[g].run # None => gens'[g].origin = "run"
                 /\ gens'[g].batch # None => gens'[g].origin = "rebuild"
                 /\ gens'[g].state \in Usable => gens'[g].snapshot
      <4>1. CASE g = n
        BY <1>1, <1>2, <2>3, <4>1
      <4>2. CASE g \in Slots
        BY <2>2, <4>2
      <4> QED
        BY <1>2, <4>1, <4>2
    <3>2. ASSUME NEW g \in Slots', gens'[g].origin = "scratch"
          PROVE  /\ g = Len(gens') /\ gens'[g].state \notin Usable
                 /\ job'.kind = "edit" /\ job'.gen = g
      <4>1. g = n /\ gens'[n] = row
        BY <1>2, <2>2, <3>2
      <4> QED
        BY <2>3, <2>4, <3>2, <4>1
    <3> QED
      BY <3>1, <3>2 DEF RowsAreSound
<1>5. HeadIsSound' /\ head.gen \in Slots
  BY <1>0, <1>2 DEF HeadIsSound
<1>6. OneReceipt'
  <2>1. gens'[n].run \notin Runs
    BY <1>1, <1>2, KnowledgeAssumption
  <2> HIDE DEF n
  <2> QED
    <3> SUFFICES ASSUME NEW g \in Slots', NEW h \in Slots',
                        gens'[g].state \in Usable, gens'[h].state \in Usable,
                        gens'[g].run = gens'[h].run, gens'[g].run \in Runs
                 PROVE  g = h
      BY DEF OneReceipt
    <3>1. g \in Slots /\ h \in Slots
      BY <1>2, <2>1
    <3> QED
      BY <1>0, <1>2, <3>1 DEF OneReceipt
<1>7. CandidateIsSound'
  BY <1>1, <1>2, <1>5 DEF CandidateIsSound, Filled, Sealed
<1>8. JobIsSound'
  <2>1. ASSUME job'.kind = "adopt"
        PROVE  /\ job'.item \in Runs /\ runs[job'.item] = "succeeded" /\ job'.by # "user"
               /\ Receipts(job.item, Usable)' = {}
    <3>1. /\ job.item \in Runs /\ runs[job.item] = "succeeded" /\ job.by # "user"
          /\ Receipts(job.item, Usable) = {}
      BY <1>0, <2>1 DEF JobIsSound
    <3>2. gens'[n].run \notin Runs
      BY <1>1, <1>2, KnowledgeAssumption
    <3>3. Receipts(job.item, Usable)' = {}
      <4> HIDE DEF n
      <4> QED
        BY <1>2, <2>1, <3>1, <3>2 DEF Receipts, Slots
    <3> QED
      BY <2>1, <3>1, <3>3
  <2> QED
    BY <1>7, <2>1 DEF JobIsSound, Early, Filled, JobRow
<1>9. Tables'
  BY <1>0, <1>2 DEF Tables
<1>10. CallersAreSound'
  BY <1>0 DEF CallersAreSound, NoJob, None
<1> QED
  BY <1>4, <1>5, <1>6, <1>8, <1>9, <1>10 DEF KnowledgeInv

LEMMA CreateStep == ASSUME KnowledgeInv, CreateCandidate PROVE KnowledgeInv'
<1>0. /\ Tables /\ JobIsSound /\ job.step = "create" /\ job.kind # None
      /\ phase \notin {"scratch", "heads"} /\ Len(gens) \in Nat
  BY JobFacts DEF KnowledgeInv, CreateCandidate, None
<1>1. job.kind \in {"adopt", "rebuild"} /\ (job.kind = "rebuild" => job.by = "user")
  BY <1>0 DEF JobIsSound, Tables, JobRow
<1>2. /\ job' = [job EXCEPT !.gen = Len(gens) + 1, !.step = "copy"]
      /\ UNCHANGED <<head, ledger, docs, ontology, runs, indexed, engine, rec, phase, mishaps>>
      /\ gens' = Append(gens, NewGeneration(IF job.kind = "adopt" THEN "run" ELSE "rebuild"))
  BY DEF CreateCandidate
<1>3. /\ job' \in JobRow /\ job'.kind = job.kind /\ job'.by = job.by /\ job'.item = job.item
      /\ job'.gen = Len(gens) + 1 /\ job'.step = "copy"
  <2>1. job \in JobRow /\ Len(gens) + 1 \in Nat
    BY <1>0 DEF Tables
  <2> QED
    BY <1>2, <2>1 DEF JobRow
<1> QED
  BY <1>0, <1>1, <1>2, <1>3, NewCandidate DEF None

LEMMA BeginEditStep == ASSUME KnowledgeInv, NEW e \in Edits, BeginEdit(e) PROVE KnowledgeInv'
<1>0. /\ Tables /\ JobIsSound /\ phase = "open" /\ job = NoJob /\ Len(gens) \in Nat
      /\ job.kind = None
  BY JobFacts DEF KnowledgeInv, BeginEdit, Serving, GuardIsFree, JobIsSound
<1>1. job' \in JobRow /\ job'.kind = "edit" /\ job'.by = "user" /\ job'.item = e
      /\ job'.gen = Len(gens) + 1 /\ job'.step = "copy"
  <2>1. Len(gens) + 1 \in Nat
    BY <1>0
  <2> QED
    BY <2>1 DEF BeginEdit, NoJob, JobRow, HeadStatuses, None
<1> QED
  BY <1>0, <1>1, NewCandidate DEF BeginEdit, None

\* The steps of a job between the copy and the swap.  Each writes its
\* candidate's row, which then fits the next step.
LEMMA CandidateFacts ==
    ASSUME KnowledgeInv, job.kind \in {"adopt", "rebuild"}, job.step \notin Early
    PROVE  /\ CandidateIsSound /\ JobIsSound /\ Tables /\ job.gen # 0
           /\ job.gen \in Slots /\ Candidate \in GenRow
           /\ Candidate.run # None => job.kind = "adopt"
           /\ Candidate.batch # None => job.kind = "rebuild"
           /\ job.docs \in SUBSET Docs
           /\ head.gen \in Slots /\ gens[head.gen] \in GenRow
           /\ job.kind = "rebuild" => Candidate.run = None
<1>1. CandidateIsSound /\ JobIsSound /\ Tables /\ RowsAreSound /\ 0 \notin Slots
  BY JobFacts DEF KnowledgeInv, JobIsSound, None
<1>2. job.gen \in Slots /\ Candidate \in GenRow /\ head.gen \in Slots /\ gens[head.gen] \in GenRow
  BY <1>1, JobFacts DEF CandidateIsSound, Candidate
<1>3. /\ Candidate.run # None => Candidate.origin = "run"
      /\ Candidate.batch # None => Candidate.origin = "rebuild"
  BY <1>1, <1>2 DEF RowsAreSound, Candidate
<1> QED
  BY <1>1, <1>2, <1>3 DEF CandidateIsSound, Candidate, Tables, JobRow

LEMMA CopyStep == ASSUME KnowledgeInv, CopyAndCurate PROVE KnowledgeInv'
<1>1. /\ job.kind \in {"adopt", "rebuild"} /\ job.step = "copy" /\ job.step \notin Early
      /\ job' = [job EXCEPT !.step = "project"]
  BY DEF CopyAndCurate, NextStep, Early
<1>2. /\ CandidateIsSound /\ Tables /\ job.gen # 0 /\ job.gen \in Slots /\ Candidate \in GenRow
      /\ Candidate.run # None => job.kind = "adopt"
      /\ Candidate.batch # None => job.kind = "rebuild"
      /\ job.docs \in SUBSET Docs /\ job \in JobRow
      /\ gens[head.gen] \in GenRow
  BY <1>1, CandidateFacts DEF Tables
<1> DEFINE h == gens[head.gen].holds \cup PendingEdits(head.gen)
           row == [Candidate EXCEPT !.holds = h]
<1>3. h \in SUBSET (Runs \cup Edits \cup Docs)
  BY <1>2 DEF GenRow, PendingEdits
<1>4. /\ row \in GenRow /\ row.holds = h /\ row.origin = Candidate.origin
      /\ row.ontology = Candidate.ontology /\ row.run = Candidate.run
      /\ row.batch = Candidate.batch /\ row.state = Candidate.state
      /\ row.snapshot = Candidate.snapshot
  <2> HIDE DEF h
  <2> QED
    BY <1>2, <1>3 DEF GenRow
<1>5. gens' = [gens EXCEPT ![job.gen] = row]
  <2>1. gens' = [gens EXCEPT ![job.gen]["holds"] = h]
    BY DEF CopyAndCurate, Curated, SetGen
  <2> HIDE DEF h
  <2> QED
    BY <1>2, <2>1 DEF Candidate, Slots
<1>6. Fits(row, "project")
  <2> HIDE DEF row
  <2> QED
    BY <1>1, <1>2, <1>4 DEF Fits, CandidateIsSound, Candidate, Usable, Sealed, Filled
<1>7. job' = [job EXCEPT !.step = "project", !.docs = job.docs]
  BY <1>1, <1>2 DEF JobRow
<1>8. UNCHANGED <<head, ledger, docs, ontology, runs, indexed, engine, rec, phase, mishaps>>
  BY DEF CopyAndCurate
<1> HIDE DEF row
<1> QED
  <2>1. /\ "project" \in {"copy"} \cup Filled /\ job.step # "swap"
        /\ job.kind \in {"adopt", "rebuild"} /\ "project" # "extract"
    BY <1>1 DEF Filled
  <2>2. row \in GenRow /\ job.docs \in SUBSET Docs /\ job.gen # 0
    BY <1>2, <1>4
  <2> QED
    BY ONLY KnowledgeInv, <1>5, <1>6, <1>7, <1>8, <2>1, <2>2, CandidateStep

\* What the later steps share: the job is one that has a candidate.
LEMMA FilledFacts ==
    ASSUME KnowledgeInv, job.step \in Filled
    PROVE  /\ job.kind \in {"adopt", "rebuild"} /\ job.step \notin Early
           /\ CandidateIsSound /\ Tables /\ job.gen # 0 /\ job.gen \in Slots
           /\ Candidate \in GenRow /\ job \in JobRow /\ job.docs \in SUBSET Docs
           /\ Candidate.run # None => job.kind = "adopt"
           /\ Candidate.batch # None => job.kind = "rebuild"
           /\ gens[head.gen].holds \cup PendingEdits(head.gen) \subseteq Candidate.holds
           /\ job.kind = "adopt" => job.item \in Runs
<1>1. Tables /\ JobIsSound /\ job \in JobRow
  BY DEF KnowledgeInv, Tables
<1>2. job.kind # None /\ job.kind # "edit" /\ job.step \notin Early
  BY <1>1 DEF JobIsSound, NoJob, Filled, Early, None
<1>3. job.kind \in {"adopt", "rebuild"}
  BY <1>1, <1>2 DEF JobRow
<1>4. /\ CandidateIsSound /\ job.gen # 0 /\ job.gen \in Slots
      /\ Candidate \in GenRow /\ job.docs \in SUBSET Docs
      /\ Candidate.run # None => job.kind = "adopt"
      /\ Candidate.batch # None => job.kind = "rebuild"
  BY <1>2, <1>3, CandidateFacts
<1>5. gens[head.gen].holds \cup PendingEdits(head.gen) \subseteq Candidate.holds
  BY <1>3, <1>4 DEF CandidateIsSound, Candidate
<1>6. job.kind = "adopt" => job.item \in Runs
  BY <1>1 DEF JobIsSound
<1> QED
  BY <1>1, <1>2, <1>3, <1>4, <1>5, <1>6

LEMMA ProjectStep == ASSUME KnowledgeInv, ProjectPatch PROVE KnowledgeInv'
<1>1. /\ job.kind = "adopt" /\ job.step = "project" /\ job' = [job EXCEPT !.step = "publish"]
      /\ Candidate.state = "building"
  BY DEF ProjectPatch, Building, Candidate, JobIs, NextStep
<1>2. /\ CandidateIsSound /\ Tables /\ job.gen # 0 /\ job.gen \in Slots /\ Candidate \in GenRow
      /\ Candidate.batch # None => job.kind = "rebuild"
      /\ job.docs \in SUBSET Docs /\ job \in JobRow /\ job.item \in Runs
      /\ gens[head.gen].holds \cup PendingEdits(head.gen) \subseteq Candidate.holds
  BY <1>1, FilledFacts DEF Filled
<1> DEFINE row == [Candidate EXCEPT !.holds = @ \cup {job.item}, !.run = job.item]
<1>3. /\ row \in GenRow /\ row.holds = Candidate.holds \cup {job.item}
      /\ row.origin = Candidate.origin /\ row.ontology = Candidate.ontology
      /\ row.run = job.item /\ row.batch = Candidate.batch /\ row.state = "building"
      /\ row.snapshot = Candidate.snapshot
  BY <1>1, <1>2 DEF GenRow
<1>4. gens' = [gens EXCEPT ![job.gen] = row]
  BY <1>2 DEF ProjectPatch, AppendProjection, SetGen, Candidate, Slots
<1> HIDE DEF row
<1>5. Fits(row, "publish")
  BY <1>1, <1>2, <1>3 DEF Fits, CandidateIsSound, Candidate, Usable, Sealed, Filled
<1>6. job' = [job EXCEPT !.step = "publish", !.docs = job.docs]
  BY <1>1, <1>2 DEF JobRow
<1>7. UNCHANGED <<head, ledger, docs, ontology, runs, indexed, engine, rec, phase, mishaps>>
  BY DEF ProjectPatch
<1>8. /\ "publish" \in {"copy"} \cup Filled /\ job.step # "swap"
      /\ job.kind \in {"adopt", "rebuild"} /\ "publish" # "extract"
  BY <1>1 DEF Filled
<1>9. row \in GenRow /\ job.docs \in SUBSET Docs /\ job.gen # 0
  BY <1>2, <1>3
<1> QED
  BY <1>4, <1>5, <1>6, <1>7, <1>8, <1>9, CandidateStep

LEMMA BeginExtractionStep == ASSUME KnowledgeInv, BeginExtraction PROVE KnowledgeInv'
<1> DEFINE pending == AdoptedDocs \ HeldDocs(head.gen)
           step == IF pending = {} THEN "publish" ELSE "extract"
           row == [Candidate EXCEPT !.batch = IF pending = {} THEN @ ELSE "open"]
<1>1. /\ job.kind = "rebuild" /\ job.step = "project"
      /\ job' = [job EXCEPT !.docs = pending, !.step = step]
      /\ gens' = IF pending = {} THEN gens ELSE OpenBatch(job.gen)
      /\ UNCHANGED <<head, ledger, docs, ontology, runs, indexed, engine, rec, phase, mishaps>>
  BY DEF BeginExtraction, JobIs
<1>2. /\ CandidateIsSound /\ Tables /\ job.gen # 0 /\ job.gen \in Slots /\ Candidate \in GenRow
      /\ Candidate.run # None => job.kind = "adopt"
      /\ job \in JobRow
      /\ gens[head.gen].holds \cup PendingEdits(head.gen) \subseteq Candidate.holds
  BY <1>1, FilledFacts DEF Filled
<1>3. pending \in SUBSET Docs
  BY DEF AdoptedDocs
<1> HIDE DEF pending
<1>4. /\ row \in GenRow /\ row.holds = Candidate.holds
      /\ row.origin = Candidate.origin /\ row.ontology = Candidate.ontology
      /\ row.run = Candidate.run /\ row.state = Candidate.state
      /\ row.snapshot = Candidate.snapshot
  BY <1>2 DEF GenRow
<1>5. gens' = [gens EXCEPT ![job.gen] = row]
  <2>1. gens \in Seq(GenRow)
    BY <1>2 DEF Tables
  <2>2. CASE pending = {}
    <3>1. row = Candidate
      BY <1>2, <2>2 DEF GenRow
    <3> HIDE DEF row
    <3>2. gens = [gens EXCEPT ![job.gen] = Candidate]
      BY <1>2, <2>1 DEF Candidate, Slots
    <3> QED
      BY <1>1, <2>2, <3>1, <3>2
  <2>3. CASE pending # {}
    <3>1. gens' = [gens EXCEPT ![job.gen]["batch"] = "open"]
      BY <1>1, <2>3 DEF OpenBatch, SetGen
    <3> QED
      BY <1>2, <2>1, <2>3, <3>1 DEF Candidate, Slots
  <2> QED
    BY <2>2, <2>3
<1>6. step \in {"publish", "extract"} /\ step \in {"copy"} \cup Filled
  BY DEF Filled
<1> HIDE DEF row, step
<1>7. Fits(row, step)
  BY <1>1, <1>2, <1>4, <1>6 DEF Fits, CandidateIsSound, Candidate, Usable, Sealed, Filled
<1>8. job' = [job EXCEPT !.step = step, !.docs = pending]
  BY <1>1, <1>2 DEF JobRow
<1>9. /\ UNCHANGED <<head, ledger, docs, ontology, runs, indexed, engine, rec, phase, mishaps>>
      /\ job.kind \in {"adopt", "rebuild"} /\ job.kind # "adopt" /\ job.step # "swap"
      /\ row \in GenRow /\ job.gen # 0
  BY <1>1, <1>2, <1>4
<1> QED
  BY ONLY KnowledgeInv, <1>3, <1>5, <1>6, <1>7, <1>8, <1>9, CandidateStep

LEMMA ApplyStep == ASSUME KnowledgeInv, ApplyExtraction PROVE KnowledgeInv'
<1>1. /\ job.kind = "rebuild" /\ job.step = "extract" /\ job' = [job EXCEPT !.step = "publish"]
  BY DEF ApplyExtraction, JobIs, NextStep
<1>2. /\ CandidateIsSound /\ Tables /\ job.gen # 0 /\ job.gen \in Slots /\ Candidate \in GenRow
      /\ Candidate.run # None => job.kind = "adopt"
      /\ job.docs \in SUBSET Docs /\ job \in JobRow
      /\ gens[head.gen].holds \cup PendingEdits(head.gen) \subseteq Candidate.holds
  BY <1>1, FilledFacts DEF Filled
<1> DEFINE row == [Candidate EXCEPT !.batch = "applied", !.holds = @ \cup job.docs]
<1>3. /\ row \in GenRow /\ row.holds = Candidate.holds \cup job.docs
      /\ row.origin = Candidate.origin /\ row.ontology = Candidate.ontology
      /\ row.run = Candidate.run /\ row.state = Candidate.state
      /\ row.snapshot = Candidate.snapshot
  BY <1>2 DEF GenRow
<1>4. gens' = [gens EXCEPT ![job.gen] = row]
  <2> DEFINE appended == [gens EXCEPT ![job.gen]["holds"] = Candidate.holds \cup job.docs]
  <2>1. gens' = [appended EXCEPT ![job.gen].batch = "applied"]
    BY DEF ApplyExtraction, AppendProjection, SetGen, Candidate
  <2>2. appended[job.gen] = [Candidate EXCEPT !.holds = @ \cup job.docs]
    BY <1>2 DEF Candidate, Slots
  <2>3. gens' = [appended EXCEPT ![job.gen] = [appended[job.gen] EXCEPT !.batch = "applied"]]
    BY <2>1
  <2>4. [appended[job.gen] EXCEPT !.batch = "applied"] = row
    <3>1. Candidate \in GenRow
      BY <1>2
    <3> HIDE DEF appended
    <3> QED
      BY ONLY <2>2, <3>1 DEF GenRow, row
  <2>5. gens' = [appended EXCEPT ![job.gen] = row]
    BY <2>3, <2>4
  <2> HIDE DEF row
  <2> QED
    BY <1>2, <2>5 DEF Slots
<1> HIDE DEF row
<1>5. Fits(row, "publish")
  BY <1>1, <1>2, <1>3 DEF Fits, CandidateIsSound, Candidate, Usable, Sealed, Filled
<1>6. job' = [job EXCEPT !.step = "publish", !.docs = job.docs]
  BY <1>1, <1>2 DEF JobRow
<1>7. UNCHANGED <<head, ledger, docs, ontology, runs, indexed, engine, rec, phase, mishaps>>
  BY DEF ApplyExtraction
<1>8. "publish" \in {"copy"} \cup Filled /\ job.step # "swap"
  BY <1>1 DEF Filled
<1>9. /\ job.kind \in {"adopt", "rebuild"} /\ job.kind # "adopt"
      /\ row \in GenRow /\ job.gen # 0 /\ job.docs \in SUBSET Docs
  BY <1>1, <1>2, <1>3
<1> QED
  BY ONLY KnowledgeInv, <1>4, <1>5, <1>6, <1>7, <1>8, <1>9, CandidateStep

LEMMA SealStep ==
    ASSUME KnowledgeInv, PublishSnapshot \/ Validate \/ BecomeReady
    PROVE  KnowledgeInv'
<1>0. job.step \in Filled /\ job.step # "swap" /\ job.step # "extract"
  BY DEF PublishSnapshot, Validate, BecomeReady, Filled
<1>1. /\ job.kind \in {"adopt", "rebuild"} /\ job.step \notin Early
      /\ CandidateIsSound /\ Tables /\ job.gen # 0 /\ job.gen \in Slots /\ Candidate \in GenRow
      /\ Candidate.run # None => job.kind = "adopt"
      /\ Candidate.batch # None => job.kind = "rebuild"
      /\ job.docs \in SUBSET Docs /\ job \in JobRow /\ gens \in Seq(GenRow)
      /\ gens[head.gen].holds \cup PendingEdits(head.gen) \subseteq Candidate.holds
  BY <1>0, FilledFacts DEF Tables
<1>2. UNCHANGED <<head, ledger, docs, ontology, runs, indexed, engine, rec, phase, mishaps>>
  BY DEF PublishSnapshot, Validate, BecomeReady
<1>3. ASSUME PublishSnapshot PROVE KnowledgeInv'
  <2> DEFINE row == [Candidate EXCEPT !.snapshot = TRUE]
  <2>1. /\ row \in GenRow /\ row.snapshot = TRUE /\ row.holds = Candidate.holds
        /\ row.origin = Candidate.origin /\ row.ontology = Candidate.ontology
        /\ row.run = Candidate.run /\ row.batch = Candidate.batch
        /\ row.state = Candidate.state
    BY <1>1 DEF GenRow
  <2>2. gens' = [gens EXCEPT ![job.gen] = row]
    BY <1>1, <1>3 DEF PublishSnapshot, SetGen, Candidate, Slots
  <2>3. job' = [job EXCEPT !.step = "validate", !.docs = job.docs]
    BY <1>1, <1>3 DEF JobRow, PublishSnapshot, NextStep
  <2>4. job.step = "publish" /\ Candidate.state = "building"
    BY <1>3 DEF PublishSnapshot, Building, Candidate
  <2> HIDE DEF row
  <2>5. Fits(row, "validate")
    BY <1>1, <2>1, <2>4 DEF Fits, CandidateIsSound, Candidate, Usable, Sealed, Filled
  <2>6. "validate" \in {"copy"} \cup Filled
    BY DEF Filled
  <2> QED
    BY <1>0, <1>1, <1>2, <2>1, <2>2, <2>3, <2>5, <2>6, CandidateStep
<1>4. ASSUME Validate PROVE KnowledgeInv'
  <2> DEFINE row == [Candidate EXCEPT !.state = "validating"]
  <2>1. /\ row \in GenRow /\ row.snapshot = Candidate.snapshot /\ row.holds = Candidate.holds
        /\ row.origin = Candidate.origin /\ row.ontology = Candidate.ontology
        /\ row.run = Candidate.run /\ row.batch = Candidate.batch
        /\ row.state = "validating"
    BY <1>1 DEF GenRow, GenerationStates
  <2>2. gens' = [gens EXCEPT ![job.gen] = row]
    BY <1>1, <1>4 DEF Validate, SetGen, Candidate, Slots
  <2>3. job' = [job EXCEPT !.step = "load", !.docs = job.docs]
    BY <1>1, <1>4 DEF JobRow, Validate, NextStep
  <2>4. job.step = "validate" /\ Candidate.state = "building"
    BY <1>4 DEF Validate, Building, Candidate
  <2> HIDE DEF row
  <2>5. Fits(row, "load")
    BY <1>1, <2>1, <2>4 DEF Fits, CandidateIsSound, Candidate, Usable, Sealed, Filled
  <2>6. "load" \in {"copy"} \cup Filled
    BY DEF Filled
  <2> QED
    BY <1>0, <1>1, <1>2, <2>1, <2>2, <2>3, <2>5, <2>6, CandidateStep
<1>5. ASSUME BecomeReady PROVE KnowledgeInv'
  <2> DEFINE row == [Candidate EXCEPT !.state = "ready"]
  <2>1. /\ row \in GenRow /\ row.snapshot = Candidate.snapshot /\ row.holds = Candidate.holds
        /\ row.origin = Candidate.origin /\ row.ontology = Candidate.ontology
        /\ row.run = Candidate.run /\ row.batch = Candidate.batch
        /\ row.state = "ready"
    BY <1>1 DEF GenRow, GenerationStates
  <2>2. gens' = [gens EXCEPT ![job.gen] = row]
    BY <1>1, <1>5 DEF BecomeReady, SetGen, Candidate, Slots
  <2>3. job' = [job EXCEPT !.step = "swap", !.docs = job.docs]
    BY <1>1, <1>5 DEF JobRow, BecomeReady, NextStep
  <2>4. job.step = "load" /\ Candidate.state = "validating"
    BY <1>5 DEF BecomeReady
  <2> HIDE DEF row
  <2>5. Fits(row, "swap")
    BY <1>1, <2>1, <2>4 DEF Fits, CandidateIsSound, Candidate, Usable, Sealed, Filled
  <2>6. "swap" \in {"copy"} \cup Filled
    BY DEF Filled
  <2> QED
    BY <1>0, <1>1, <1>2, <2>1, <2>2, <2>3, <2>5, <2>6, CandidateStep
<1> QED
  BY <1>3, <1>4, <1>5

\* The swap.
LEMMA SwapStep == ASSUME KnowledgeInv, SwapHead PROVE KnowledgeInv'
<1>1. /\ job.kind \in {"adopt", "rebuild"} /\ CandidateIsSound /\ Tables /\ job.gen \in Slots
      /\ job \in JobRow
  BY FilledFacts DEF SwapHead, Filled
<1>2. /\ job.step = "swap" /\ Activate(job.gen, gens) /\ job' = NoJob /\ Answer(job.by, TRUE)
      /\ UNCHANGED <<ledger, docs, ontology, runs, indexed, phase, mishaps>>
  BY DEF SwapHead
<1>3. /\ gens[job.gen].snapshot /\ gens[job.gen].origin # "scratch"
      /\ gens[job.gen].state \in Usable
  BY <1>1, <1>2 DEF CandidateIsSound, Sealed, Usable
<1>4. /\ GraphInv' /\ gens' \in Seq(GenRow)
      /\ head' \in [gen : Nat \ {0}, status : HeadStatuses]
  BY <1>1, <1>2, <1>3, ActivateStep
<1>5. CallersAreSound'
  <2>1. /\ job.by \in {"user", "engine", "recovery"} /\ phase \notin {"scratch", "heads"}
        /\ job.by = "recovery" => rec.step = "adopting"
    BY <1>1, <1>2, JobFacts DEF KnowledgeInv, CallersAreSound, JobRow, None
  <2>2. job'.kind = None
    BY <1>2 DEF NoJob
  <2> QED
    BY <1>2, <2>1, <2>2, AnswerStep
<1>6. Tables'
  <2>1. job' \in JobRow
    BY <1>2 DEF NoJob, JobRow, HeadStatuses
  <2> QED
    BY <1>1, <1>2, <1>4, <2>1 DEF Tables
<1> QED
  BY <1>4, <1>5, <1>6 DEF KnowledgeInv, GraphInv

\* The deferred functions of a job that fails.
LEMMA JobFailsStep == ASSUME KnowledgeInv, JobFails PROVE KnowledgeInv'
<1>1. /\ Tables /\ JobIsSound /\ CallersAreSound /\ gens \in Seq(GenRow) /\ job \in JobRow
      /\ job.kind \in {"adopt", "rebuild"}
  BY DEF KnowledgeInv, Tables, JobFails
<1>2. /\ job' = NoJob /\ Answer(job.by, FALSE)
      /\ UNCHANGED <<ledger, docs, ontology, runs, indexed, phase>>
  BY DEF JobFails
<1>3. head' \in [gen : Nat \ {0}, status : HeadStatuses] /\ head'.gen = head.gen
  BY <1>1 DEF JobFails, MarkHead, Tables, HeadStatuses
<1>4. GraphInv' /\ gens' \in Seq(GenRow)
  <2>1. CASE job.gen # 0 /\ Candidate.state \in Unfinished
    <3>1. job.gen \in Slots /\ Candidate \in GenRow
      BY <2>1, JobFacts DEF CandidateIsSound, Candidate
    <3> DEFINE b == IF Candidate.batch = "open" THEN "failed" ELSE Candidate.batch
               row == [Candidate EXCEPT !.state = "failed", !.batch = b]
    <3>2. gens' = [gens EXCEPT ![job.gen] = row]
      BY <1>1, <2>1, <3>1 DEF JobFails, GivenUp, Candidate, Slots
    <3>3. /\ b \in {Candidate.batch, "failed"} /\ (Candidate.batch = None => b = None)
      BY DEF None
    <3>4. /\ DOMAIN gens' = Slots /\ gens' = [g \in Slots |-> gens'[g]]
          /\ gens'[job.gen] = row /\ \A g \in Slots \ {job.gen} : gens'[g] = gens[g]
      <4> HIDE DEF row
      <4> QED
        BY <1>1, <3>1, <3>2 DEF Slots
    <3> HIDE DEF b
    <3> QED
      BY <1>1, <1>2, <1>3, <2>1, <3>3, <3>4, FailStep DEF Candidate, JobGoes
  <2>2. CASE ~(job.gen # 0 /\ Candidate.state \in Unfinished)
    <3>1. gens' = gens
      BY <2>2 DEF JobFails
    <3>2. DOMAIN gens' = Slots /\ gens' = [g \in Slots |-> gens'[g]]
      BY <1>1, <3>1 DEF Slots
    <3> QED
      BY <1>1, <1>2, <1>3, <3>1, <3>2, FailStep DEF JobGoes
  <2> QED
    BY <2>1, <2>2
<1>5. CallersAreSound'
  <2>1. /\ job.by \in {"user", "engine", "recovery"} /\ phase \notin {"scratch", "heads"}
        /\ job.by = "recovery" => rec.step = "adopting"
    BY <1>1 DEF CallersAreSound, JobRow, NoJob, None
  <2>2. job'.kind = None
    BY <1>2 DEF NoJob
  <2> QED
    BY <1>2, <2>1, <2>2, AnswerStep
<1>6. Tables'
  <2>1. job' \in JobRow
    BY <1>2 DEF NoJob, JobRow, HeadStatuses
  <2>2. mishaps' \in 0..MaxMishaps
    BY <1>1, KnowledgeAssumption DEF JobFails, Mishap, Tables
  <2> QED
    BY <1>1, <1>2, <1>3, <1>4, <2>1, <2>2 DEF Tables
<1> QED
  BY <1>4, <1>5, <1>6 DEF KnowledgeInv, GraphInv

\* The disposable generation is removed.
LEMMA DropStep ==
    ASSUME KnowledgeInv, Len(gens) \in Slots, gens[Len(gens)].origin = "scratch",
           gens' = Front(gens), job' = NoJob, head'.gen = head.gen,
           ledger' \in [Edits -> Nat],
           \A e \in Edits : ledger'[e] \in {ledger[e], head.gen}
    PROVE  GraphInv' /\ gens' \in Seq(GenRow)
<1>0. RowsAreSound /\ HeadIsSound /\ OneReceipt /\ gens \in Seq(GenRow)
  BY DEF KnowledgeInv, Tables
<1> DEFINE n == Len(gens)
<1>1. /\ gens' \in Seq(GenRow) /\ Slots' = Slots \ {n} /\ Len(gens') = n - 1
      /\ \A g \in Slots \ {n} : gens'[g] = gens[g]
  BY <1>0, DropRow
<1>2. gens[n].state \notin Usable /\ \A g \in Slots \ {n} : gens[g].origin # "scratch"
  BY <1>0 DEF RowsAreSound
<1>3. RowsAreSound'
  BY <1>0, <1>1, <1>2 DEF RowsAreSound
<1>4. HeadIsSound'
  BY <1>0, <1>1, <1>2 DEF HeadIsSound, Usable
<1>5. OneReceipt'
  BY <1>0, <1>1 DEF OneReceipt
<1>6. JobIsSound'
  BY DEF JobIsSound, NoJob, None, Early
<1> QED
  BY <1>1, <1>3, <1>4, <1>5, <1>6 DEF GraphInv

\* The callers while they do nothing.
LEMMA CallersStand ==
    ASSUME KnowledgeInv, UNCHANGED <<engine, rec, indexed>>,
           \A r \in Runs : runs[r] = "succeeded" => runs'[r] = "succeeded",
           job' = job \/ job'.kind = None \/ job'.by = "user",
           phase' \in {"scratch", "heads"} =>
              job' = NoJob /\ phase \in {"scratch", "heads"}
    PROVE  CallersAreSound'
<1>1. CallersAreSound
  BY DEF KnowledgeInv
<1>2. rec \in [step : {None, "next", "quarantine", "index", "adopt", "adopting"}, queue : Seq(Done)]
  BY <1>1 DEF CallersAreSound, Done
<1>3. Done \subseteq Done'
  BY DEF Done
<1>4. \A U, V : U \subseteq V => Seq(U) \subseteq Seq(V)
  OBVIOUS
<1>5. rec' \in [step : {None, "next", "quarantine", "index", "adopt", "adopting"},
                queue : Seq(Done)']
  <2>1. Seq(Done) \subseteq Seq(Done)'
    BY <1>3, <1>4
  <2> HIDE DEF Done
  <2> QED
    BY <1>2, <2>1
<1>6. /\ engine' \in [run : Runs \cup {None}, step : {None, "index", "adopt", "adopting"}]
      /\ engine'.step # None => engine'.run \in Runs /\ runs'[engine'.run] = "succeeded"
      /\ indexed' \subseteq Done'
  BY <1>1, <1>3 DEF CallersAreSound, Done
<1>7. /\ rec'.step \in {"quarantine", "index", "adopt", "adopting"} => rec'.queue # <<>>
      /\ job'.kind # None /\ job'.by = "recovery" => rec'.step = "adopting"
      /\ phase' \in {"scratch", "heads"} => job' = NoJob /\ engine' = NoWork /\ rec' = NoRecovery
  BY <1>1 DEF CallersAreSound
<1> QED
  BY <1>5, <1>6, <1>7 DEF CallersAreSound, Done

LEMMA EditEndsStep == ASSUME KnowledgeInv, AppendCuration \/ RejectEdit PROVE KnowledgeInv'
<1>0. Tables /\ CallersAreSound /\ HeadIsSound /\ JobIsSound /\ RowsAreSound
  BY DEF KnowledgeInv
<1>1. /\ job.kind = "edit" /\ job.step = "copy" /\ gens' = Front(gens) /\ job' = NoJob
      /\ UNCHANGED <<docs, ontology, runs, indexed, engine, rec, phase>>
  BY DEF AppendCuration, RejectEdit, JobIs
<1>2. CandidateIsSound /\ job.item \in Edits
  BY <1>0, <1>1 DEF JobIsSound, Early, None
<1>3. job.gen \in Slots /\ gens[job.gen].origin = "scratch" /\ job.gen = Len(gens)
  BY <1>0, <1>1, <1>2 DEF CandidateIsSound, RowsAreSound
<1>4. /\ head' \in [gen : Nat \ {0}, status : HeadStatuses] /\ head'.gen = head.gen
      /\ ledger' \in [Edits -> Nat] /\ \A e \in Edits : ledger'[e] \in {ledger[e], head.gen}
      /\ mishaps' \in 0..MaxMishaps
  <2>0. head \in [gen : Nat \ {0}, status : HeadStatuses] /\ ledger \in [Edits -> Nat]
        /\ mishaps \in 0..MaxMishaps
    BY <1>0 DEF Tables, HeadIsSound
  <2>1. CASE AppendCuration
    BY <1>2, <2>0, <2>1 DEF AppendCuration, MarkHead, HeadStatuses
  <2>2. CASE RejectEdit
    BY <2>0, <2>2, KnowledgeAssumption DEF RejectEdit, Mishap
  <2> QED
    BY <2>1, <2>2
<1>5. GraphInv' /\ gens' \in Seq(GenRow)
  BY <1>1, <1>3, <1>4, DropStep
<1>6. job' \in JobRow /\ job'.kind = None
  BY <1>1 DEF NoJob, JobRow, HeadStatuses
<1>7. Tables'
  BY <1>0, <1>1, <1>4, <1>5, <1>6 DEF Tables
<1>8. CallersAreSound'
  <2>1. phase \notin {"scratch", "heads"}
    BY <1>0, <1>1 DEF CallersAreSound, NoJob, None
  <2> QED
    BY <1>1, <1>6, <2>1, CallersStand
<1> QED
  BY <1>5, <1>7, <1>8 DEF KnowledgeInv, GraphInv

\* A rebuild before its candidate.
LEMMA RebuildRecoversStep == ASSUME KnowledgeInv, RebuildRecovers PROVE KnowledgeInv'
<1>0. Tables /\ CallersAreSound /\ HeadIsSound /\ JobIsSound /\ RowsAreSound /\ gens \in Seq(GenRow)
  BY DEF KnowledgeInv, Tables
<1>1. /\ job = NoJob /\ job' = job /\ phase = "open"
      /\ UNCHANGED <<ledger, docs, ontology, runs, indexed, engine, rec, phase>>
  BY <1>0 DEF RebuildRecovers, GuardIsFree, Serving, JobIsSound
<1> DEFINE g == Max(SnapshotComplete)
<1>2. g \in SnapshotComplete
  <2>1. SnapshotComplete \in SUBSET Slots /\ SnapshotComplete # {}
    BY DEF RebuildRecovers, SnapshotComplete, Slots
  <2> QED
    BY <1>0, <2>1, NewestIsMember
<1>3. /\ g \in Slots /\ gens[g].snapshot /\ gens[g].batch = "applied"
      /\ gens[g].state \in Unfinished \cup {"ready"}
  BY <1>2 DEF SnapshotComplete, Slots
<1>4. gens[g].origin = "rebuild" /\ gens[g].run = None
  BY <1>0, <1>3 DEF RowsAreSound, None
<1>5. \/ Activate(g, SetGen(g, "state", "ready")) /\ mishaps' = mishaps
      \/ /\ Mishap /\ head' = head
         /\ gens' = IF gens[g].state \in Unfinished THEN SetGen(g, "state", "failed") ELSE gens
  BY DEF RebuildRecovers
<1>6. CallersAreSound'
  BY <1>1, CallersStand
<1> HIDE DEF g
<1>7. CASE Activate(g, SetGen(g, "state", "ready")) /\ mishaps' = mishaps
  <2>1. /\ GraphInv' /\ gens' \in Seq(GenRow)
        /\ head' \in [gen : Nat \ {0}, status : HeadStatuses]
    BY <1>1, <1>3, <1>4, <1>7, ActivateStep, KnowledgeAssumption DEF NoJob, None
  <2>2. Tables'
    BY <1>0, <1>1, <1>7, <2>1 DEF Tables
  <2> QED
    BY <1>6, <2>1, <2>2 DEF KnowledgeInv, GraphInv
<1>8. CASE /\ Mishap /\ head' = head
           /\ gens' = IF gens[g].state \in Unfinished THEN SetGen(g, "state", "failed") ELSE gens
  <2>1. GraphInv' /\ gens' \in Seq(GenRow)
    <3>1. CASE gens[g].state \in Unfinished
      <4> DEFINE row == [gens[g] EXCEPT !.state = "failed", !.batch = gens[g].batch]
      <4>1. gens[g] \in GenRow
        BY <1>3, JobFacts
      <4>2. row = [gens[g] EXCEPT !.state = "failed"]
        BY <4>1 DEF GenRow
      <4>3. gens' = [gens EXCEPT ![g] = row]
        BY <1>0, <1>3, <1>8, <3>1, <4>2 DEF SetGen, Slots
      <4>4. /\ DOMAIN gens' = Slots /\ gens' = [h \in Slots |-> gens'[h]]
            /\ gens'[g] = row /\ \A h \in Slots \ {g} : gens'[h] = gens[h]
        <5> HIDE DEF row
        <5> QED
          BY <1>0, <1>3, <4>3 DEF Slots
      <4> QED
        BY <1>1, <1>8, <3>1, <4>4, FailStep DEF JobGoes
    <3>2. CASE gens[g].state \notin Unfinished
      <4>1. gens' = gens
        BY <1>8, <3>2
      <4>2. DOMAIN gens' = Slots /\ gens' = [h \in Slots |-> gens'[h]]
        BY <1>0, <4>1 DEF Slots
      <4> QED
        BY <1>1, <1>8, <4>1, <4>2, FailStep DEF JobGoes
    <3> QED
      BY <3>1, <3>2
  <2>2. mishaps' \in 0..MaxMishaps
    BY <1>0, <1>8, KnowledgeAssumption DEF Mishap, Tables
  <2>3. Tables'
    BY <1>0, <1>1, <1>8, <2>1, <2>2 DEF Tables
  <2> QED
    BY <1>6, <2>1, <2>3 DEF KnowledgeInv, GraphInv
<1> QED
  BY <1>5, <1>7, <1>8

LEMMA RebuildBeginsStep == ASSUME KnowledgeInv, RebuildBegins PROVE KnowledgeInv'
<1>0. Tables /\ CallersAreSound /\ JobIsSound /\ gens \in Seq(GenRow)
  BY DEF KnowledgeInv, Tables
<1>1. /\ job.kind = None /\ phase = "open"
      /\ job' = [NoJob EXCEPT !.kind = "rebuild", !.step = "create"]
      /\ UNCHANGED <<head, ledger, docs, ontology, runs, indexed, engine, rec, phase, mishaps>>
  BY DEF RebuildBegins, GuardIsFree, Serving
<1>2. DOMAIN gens' = Slots /\ gens' = [g \in Slots |-> gens'[g]]
  BY DEF RebuildBegins, Slots
<1>3. ASSUME NEW g \in Slots
      PROVE  \/ gens'[g] = gens[g]
             \/ /\ gens[g].state \in Unfinished
                /\ \E b \in {gens[g].batch, "failed"} :
                     /\ gens[g].batch = None => b = None
                     /\ gens'[g] = [gens[g] EXCEPT !.state = "failed", !.batch = b]
  <2> DEFINE b == IF gens[g].batch = "open" THEN "failed" ELSE gens[g].batch
  <2>1. gens[g] \in GenRow
    BY JobFacts
  <2>2. b \in {gens[g].batch, "failed"} /\ (gens[g].batch = None => b = None)
    BY DEF None
  <2>3. gens'[g] = IF Quarantined(g) THEN [gens[g] EXCEPT !.state = "failed", !.batch = b]
                   ELSE gens[g]
    BY <2>1 DEF RebuildBegins, GivenUp, Slots, GenRow
  <2>4. Quarantined(g) => gens[g].state \in Unfinished
    BY DEF Quarantined
  <2> HIDE DEF b
  <2> QED
    BY <2>2, <2>3, <2>4
<1>4. GraphInv' /\ gens' \in Seq(GenRow)
  BY <1>1, <1>2, <1>3, FailStep DEF JobGoes, None
<1>5. job' \in JobRow /\ job'.by = "user"
  BY <1>1 DEF NoJob, JobRow, HeadStatuses
<1>6. Tables'
  BY <1>0, <1>1, <1>4, <1>5 DEF Tables
<1>7. CallersAreSound'
  BY <1>1, <1>5, CallersStand
<1> QED
  BY <1>4, <1>6, <1>7 DEF KnowledgeInv, GraphInv

\* What leaves the generations and the job alone: documents, the status of
\* the head and the user's runs.
LEMMA UserStandsStep ==
    ASSUME KnowledgeInv,
           \/ SnapshotFailsVerification
           \/ \E d \in Docs : ChangeAdoption(d) \/ ForgetDocument(d)
           \/ \E r \in Runs : Submit(r) \/ EndOtherwise(r)
    PROVE  KnowledgeInv'
<1>0. Tables /\ HeadIsSound
  BY DEF KnowledgeInv
<1>1. UNCHANGED <<gens, ledger, ontology, job, indexed, engine, rec, phase>>
  BY DEF SnapshotFailsVerification, ChangeAdoption, ForgetDocument, Submit, EndOtherwise
<1>2. head' \in [gen : Nat \ {0}, status : HeadStatuses] /\ head'.gen = head.gen
  BY <1>0 DEF SnapshotFailsVerification, ChangeAdoption, ForgetDocument, Submit, EndOtherwise,
              MarkHead, Tables, HeadStatuses
<1>3. docs' \in [Docs -> {"out", "in", "gone"}]
  BY <1>0 DEF SnapshotFailsVerification, ChangeAdoption, ForgetDocument, Submit, EndOtherwise,
              Tables
<1>4. /\ runs' \in [Runs -> {"none", "open", "succeeded"}]
      /\ \A r \in Runs : runs[r] = "succeeded" => runs'[r] = "succeeded"
  BY <1>0 DEF SnapshotFailsVerification, ChangeAdoption, ForgetDocument, Submit, EndOtherwise,
              Tables
<1>5. mishaps' \in 0..MaxMishaps
  BY <1>0, KnowledgeAssumption
     DEF SnapshotFailsVerification, ChangeAdoption, ForgetDocument, Submit, EndOtherwise,
         Mishap, Tables
<1>6. Tables'
  BY <1>0, <1>1, <1>2, <1>3, <1>4, <1>5 DEF Tables
<1>7. GraphInv'
  BY <1>1, <1>2, <1>4, GraphStands
<1>8. CallersAreSound'
  <2>1. phase' \in {"scratch", "heads"} => job' = NoJob /\ phase \in {"scratch", "heads"}
    BY <1>1 DEF KnowledgeInv, CallersAreSound
  <2> QED
    BY <1>1, <1>4, <2>1, CallersStand
<1> QED
  BY <1>6, <1>7, <1>8 DEF KnowledgeInv, GraphInv

LEMMA OntologyStep == ASSUME KnowledgeInv, ActivateOntology PROVE KnowledgeInv'
<1>0. Tables /\ HeadIsSound /\ RowsAreSound /\ OneReceipt /\ JobIsSound
  BY DEF KnowledgeInv
<1>1. /\ job = NoJob /\ phase = "open" /\ ontology < MaxOntology /\ ontology' = ontology + 1
      /\ UNCHANGED <<gens, ledger, docs, runs, indexed, engine, rec, job, phase, mishaps>>
  BY <1>0 DEF ActivateOntology, GuardIsFree, Serving, JobIsSound
<1>2. head' \in [gen : Nat \ {0}, status : HeadStatuses] /\ head'.gen = head.gen
  BY <1>0 DEF ActivateOntology, MarkHead, Tables, HeadStatuses
<1>3. Tables'
  BY <1>0, <1>1, <1>2, KnowledgeAssumption DEF Tables
<1>4. RowsAreSound' /\ HeadIsSound' /\ OneReceipt'
  BY <1>0, <1>1, <1>2 DEF RowsAreSound, HeadIsSound, OneReceipt, Slots
<1>5. JobIsSound'
  BY <1>1 DEF JobIsSound, NoJob, None, Early
<1>6. CallersAreSound'
  BY <1>1, CallersStand
<1> QED
  BY <1>3, <1>4, <1>5, <1>6 DEF KnowledgeInv

\* The goroutine of a run.
LEMMA EngineStandsStep ==
    ASSUME KnowledgeInv, IndexRun \/ IndexRunFails \/ \E r \in Runs : Succeed(r)
    PROVE  KnowledgeInv'
<1>0. Tables /\ CallersAreSound /\ HeadIsSound
  BY DEF KnowledgeInv
<1>1. UNCHANGED <<gens, ledger, docs, ontology, rec, job, phase>>
  BY DEF IndexRun, IndexRunFails, Succeed
<1>2. head' \in [gen : Nat \ {0}, status : HeadStatuses] /\ head'.gen = head.gen
  BY <1>0 DEF IndexRun, IndexRunFails, Succeed, MarkHead, Tables, HeadStatuses
<1>3. /\ runs' \in [Runs -> {"none", "open", "succeeded"}]
      /\ \A r \in Runs : runs[r] = "succeeded" => runs'[r] = "succeeded"
  BY <1>0 DEF IndexRun, IndexRunFails, Succeed, Tables
<1>4. mishaps' \in 0..MaxMishaps
  BY <1>0, KnowledgeAssumption DEF IndexRun, IndexRunFails, Succeed, Mishap, Tables
<1>5. Tables'
  BY <1>0, <1>1, <1>2, <1>3, <1>4 DEF Tables
<1>6. GraphInv'
  BY <1>1, <1>2, <1>3, GraphStands
<1>7. phase \notin {"scratch", "heads"}
  BY <1>0 DEF IndexRun, IndexRunFails, Succeed, Serving, CallersAreSound, NoWork, None
<1>8. /\ engine' \in [run : Runs \cup {None}, step : {None, "index", "adopt", "adopting"}]
      /\ engine'.step # None => engine'.run \in Runs /\ runs'[engine'.run] = "succeeded"
      /\ indexed' \subseteq {r \in Runs : runs'[r] = "succeeded"}
  <2>1. CASE IndexRun
    <3>1. /\ engine \in [run : Runs \cup {None}, step : {None, "index", "adopt", "adopting"}]
          /\ engine.run \in Runs /\ runs[engine.run] = "succeeded"
          /\ indexed \subseteq {r \in Runs : runs[r] = "succeeded"}
      BY <1>0, <2>1 DEF IndexRun, CallersAreSound, None
    <3> QED
      BY <2>1, <3>1 DEF IndexRun
  <2>2. CASE IndexRunFails
    BY <1>0, <2>2 DEF IndexRunFails, CallersAreSound, NoWork
  <2>3. ASSUME NEW r \in Runs, Succeed(r)
        PROVE  /\ engine' = [run |-> r, step |-> "index"] /\ runs'[r] = "succeeded"
               /\ indexed' \subseteq {s \in Runs : runs'[s] = "succeeded"}
    BY <1>0, <1>3, <2>3 DEF Succeed, CallersAreSound, Tables
  <2> QED
    BY <2>1, <2>2, <2>3
<1>9. rec' \in [step : {None, "next", "quarantine", "index", "adopt", "adopting"}, queue : Seq(Done)']
  <2>1. rec \in [step : {None, "next", "quarantine", "index", "adopt", "adopting"}, queue : Seq(Done)]
    BY <1>0 DEF CallersAreSound, Done
  <2>2. Done \subseteq Done'
    BY <1>3 DEF Done
  <2>3. \A U, V : U \subseteq V => Seq(U) \subseteq Seq(V)
    OBVIOUS
  <2>4. Seq(Done) \subseteq Seq(Done)'
    BY <2>2, <2>3
  <2> HIDE DEF Done
  <2> QED
    BY <1>1, <2>1, <2>4
<1>10. CallersAreSound'
  <2>1. /\ rec'.step \in {"quarantine", "index", "adopt", "adopting"} => rec'.queue # <<>>
        /\ job'.kind # None /\ job'.by = "recovery" => rec'.step = "adopting"
    BY <1>0, <1>1 DEF CallersAreSound
  <2> QED
    BY <1>1, <1>7, <1>8, <1>9, <2>1 DEF CallersAreSound, Done
<1> QED
  BY <1>5, <1>6, <1>10 DEF KnowledgeInv, GraphInv

\* The recovery between two transactions of its adoptions.
LEMMA RecoveryMoves ==
    ASSUME KnowledgeInv, UNCHANGED <<engine, runs, job>>,
           rec'.step \in {None, "next", "quarantine", "index", "adopt", "adopting"},
           rec' = [step |-> rec'.step, queue |-> rec'.queue], rec'.queue \in Seq(Done),
           rec'.step \in {"quarantine", "index", "adopt", "adopting"} => rec'.queue # <<>>,
           rec.step # "adopting", indexed' \subseteq Done, phase' \notin {"scratch", "heads"}
    PROVE  CallersAreSound'
<1>1. CallersAreSound /\ Done' = Done
  BY DEF KnowledgeInv, Done
<1>2. /\ engine \in [run : Runs \cup {None}, step : {None, "index", "adopt", "adopting"}]
      /\ engine.step # None => engine.run \in Runs /\ runs[engine.run] = "succeeded"
      /\ ~(job.kind # None /\ job.by = "recovery")
  BY <1>1 DEF CallersAreSound
<1> HIDE DEF Done
<1>3. rec' \in [step : {None, "next", "quarantine", "index", "adopt", "adopting"}, queue : Seq(Done)']
  BY <1>1
<1> QED
  BY <1>1, <1>2, <1>3 DEF CallersAreSound, Done

LEMMA RecoveryStandsStep ==
    ASSUME KnowledgeInv,
           \/ ListAtStart \/ KeyStored \/ RecoverNext \/ RecoverIndexes \/ RecoveryEnds
    PROVE  KnowledgeInv'
<1>0. Tables /\ CallersAreSound /\ HeadIsSound
  BY DEF KnowledgeInv
<1>1. UNCHANGED <<gens, ledger, docs, ontology, runs, engine, job, mishaps>>
  BY DEF ListAtStart, KeyStored, ListPending, RecoverNext, RecoverIndexes, RecoveryEnds
<1>2. head' \in [gen : Nat \ {0}, status : HeadStatuses] /\ head'.gen = head.gen
  BY <1>0 DEF ListAtStart, KeyStored, ListPending, RecoverNext, RecoverIndexes, RecoveryEnds,
              MarkHead, Tables, HeadStatuses
<1>3. phase \notin {"scratch", "heads"} /\ phase' \in {phase, "open"}
  BY <1>0 DEF ListAtStart, KeyStored, ListPending, RecoverNext, RecoverIndexes, RecoveryEnds,
              Serving, CallersAreSound, NoRecovery, None
<1>4. Tables'
  BY <1>0, <1>1, <1>2, <1>3 DEF Tables
<1>5. GraphInv'
  BY <1>1, <1>2, <1>3, GraphStands
<1>6. rec = [step |-> rec.step, queue |-> rec.queue] /\ rec.queue \in Seq(Done) /\ indexed \subseteq Done
  BY <1>0 DEF CallersAreSound, Done
<1>7. CallersAreSound'
  <2>1. CASE ListAtStart \/ KeyStored
    <3>1. /\ rec' = [step |-> "next", queue |-> PendingAdoptions] /\ rec = NoRecovery
          /\ indexed' = indexed
      BY <2>1 DEF ListAtStart, KeyStored, ListPending
    <3>2. PendingAdoptions \in Seq(Done)
      BY PendingIsList DEF Done
    <3> HIDE DEF Done
    <3> QED
      BY <1>1, <1>3, <1>6, <3>1, <3>2, RecoveryMoves DEF NoRecovery, None
  <2>2. CASE RecoverNext
    <3>1. /\ rec' = [step |-> "quarantine", queue |-> rec.queue] /\ rec.step = "next"
          /\ rec.queue # <<>> /\ indexed' = indexed
      BY <1>6, <2>2 DEF RecoverNext
    <3> HIDE DEF Done
    <3> QED
      BY <1>1, <1>3, <1>6, <3>1, RecoveryMoves
  <2>3. CASE RecoverIndexes
    <3>1. rec.step = "index" /\ rec.queue # <<>>
      BY <1>0, <2>3 DEF RecoverIndexes, CallersAreSound
    <3>2. rec' = [step |-> "adopt", queue |-> rec.queue]
      BY <1>6, <2>3 DEF RecoverIndexes
    <3>3. indexed' = indexed \cup {Head(rec.queue)}
      BY <2>3 DEF RecoverIndexes
    <3> HIDE DEF Done
    <3>4. Head(rec.queue) \in Done
      BY <1>6, <3>1
    <3> QED
      BY <1>1, <1>3, <1>6, <3>1, <3>2, <3>3, <3>4, RecoveryMoves
  <2>4. CASE RecoveryEnds
    <3>1. /\ rec' = [step |-> None, queue |-> <<>>] /\ rec.step = "next"
          /\ indexed' = indexed
      BY <2>4 DEF RecoveryEnds, NoRecovery
    <3>2. <<>> \in Seq(Done)
      OBVIOUS
    <3> HIDE DEF Done
    <3> QED
      BY <1>1, <1>3, <1>6, <3>1, <3>2, RecoveryMoves DEF None
  <2> QED
    BY <2>1, <2>2, <2>3, <2>4
<1> QED
  BY <1>4, <1>5, <1>7 DEF KnowledgeInv, GraphInv

LEMMA RecoverIndexFailsStep == ASSUME KnowledgeInv, RecoverIndexFails PROVE KnowledgeInv'
<1>0. Tables /\ CallersAreSound
  BY DEF KnowledgeInv
<1>1. /\ rec.step = "index" /\ Answer("recovery", FALSE)
      /\ UNCHANGED <<gens, head, ledger, docs, ontology, runs, indexed, job, phase>>
  BY DEF RecoverIndexFails
<1>2. phase \notin {"scratch", "heads"}
  BY <1>0, <1>1 DEF CallersAreSound, NoRecovery, None
<1>3. CallersAreSound'
  BY <1>1, <1>2, AnswerStep
<1>4. mishaps' \in 0..MaxMishaps
  BY <1>0, KnowledgeAssumption DEF RecoverIndexFails, Mishap, Tables
<1>5. Tables'
  BY <1>0, <1>1, <1>4 DEF Tables
<1>6. GraphInv'
  BY <1>1, GraphStands
<1> QED
  BY <1>3, <1>5, <1>6 DEF KnowledgeInv, GraphInv

LEMMA QuarantineStep == ASSUME KnowledgeInv, RecoverQuarantines PROVE KnowledgeInv'
<1>0. Tables /\ CallersAreSound /\ gens \in Seq(GenRow)
  BY DEF KnowledgeInv, Tables
<1>1. /\ rec.step = "quarantine" /\ rec' = [rec EXCEPT !.step = "index"]
      /\ UNCHANGED <<head, ledger, docs, ontology, runs, indexed, engine, job, phase, mishaps>>
  BY DEF RecoverQuarantines
<1>2. DOMAIN gens' = Slots /\ gens' = [g \in Slots |-> gens'[g]]
  BY DEF RecoverQuarantines, Slots
<1>3. ASSUME NEW g \in Slots
      PROVE  \/ gens'[g] = gens[g]
             \/ /\ gens[g].state \in Unfinished
                /\ \E b \in {gens[g].batch, "failed"} :
                     /\ gens[g].batch = None => b = None
                     /\ gens'[g] = [gens[g] EXCEPT !.state = "failed", !.batch = b]
  <2>1. gens[g] \in GenRow
    BY JobFacts
  <2>2. CASE g \in Receipts(Head(rec.queue), Unfinished)
    <3>1. gens'[g] = [gens[g] EXCEPT !.state = "failed"]
      BY <2>2 DEF RecoverQuarantines, Slots
    <3>2. gens'[g] = [gens[g] EXCEPT !.state = "failed", !.batch = gens[g].batch]
      BY <2>1, <3>1 DEF GenRow
    <3>3. gens[g].state \in Unfinished
      BY <2>2 DEF Receipts
    <3> QED
      BY <3>2, <3>3
  <2>3. CASE g \notin Receipts(Head(rec.queue), Unfinished)
    BY <2>3 DEF RecoverQuarantines, Slots
  <2> QED
    BY <2>2, <2>3
<1>4. GraphInv' /\ gens' \in Seq(GenRow)
  BY <1>1, <1>2, <1>3, FailStep DEF JobGoes
<1>5. Tables'
  BY <1>0, <1>1, <1>4 DEF Tables
<1>6. CallersAreSound'
  <2>1. phase \notin {"scratch", "heads"} /\ rec.queue # <<>> /\ rec.queue \in Seq(Done)
        /\ indexed \subseteq Done /\ rec = [step |-> rec.step, queue |-> rec.queue]
    BY <1>0, <1>1 DEF CallersAreSound, NoRecovery, Done, None
  <2>2. rec' = [step |-> "index", queue |-> rec.queue]
    BY <1>1, <2>1
  <2> HIDE DEF Done
  <2> QED
    BY <1>1, <2>1, <2>2, RecoveryMoves
<1> QED
  BY <1>4, <1>5, <1>6 DEF KnowledgeInv, GraphInv

\* The process ends, and the next start until it looks for adoptions.
LEMMA CrashStep == ASSUME KnowledgeInv, Crash PROVE KnowledgeInv'
<1>0. Tables /\ RowsAreSound /\ HeadIsSound /\ OneReceipt /\ CallersAreSound
  BY DEF KnowledgeInv
<1>1. /\ engine' = NoWork /\ rec' = NoRecovery /\ job' = NoJob /\ phase' = "scratch"
      /\ UNCHANGED <<gens, head, ledger, docs, ontology, runs, indexed>>
  BY DEF Crash
<1>2. mishaps' \in 0..MaxMishaps
  BY <1>0, KnowledgeAssumption DEF Crash, Mishap, Tables
<1>3. job' \in JobRow
  BY <1>1 DEF NoJob, JobRow, HeadStatuses
<1>4. Tables'
  BY <1>0, <1>1, <1>2, <1>3 DEF Tables
<1>5. RowsAreSound' /\ HeadIsSound' /\ OneReceipt'
  BY <1>0, <1>1 DEF RowsAreSound, HeadIsSound, OneReceipt, Slots
<1>6. JobIsSound'
  BY <1>1 DEF JobIsSound, NoJob, None, Early
<1>7. CallersAreSound'
  <2>1. <<>> \in Seq({r \in Runs : runs'[r] = "succeeded"})
    OBVIOUS
  <2>2. rec' \in [step : {None, "next", "quarantine", "index", "adopt", "adopting"},
                  queue : Seq({r \in Runs : runs'[r] = "succeeded"})]
    BY <1>1, <2>1 DEF NoRecovery
  <2>3. engine' \in [run : Runs \cup {None}, step : {None, "index", "adopt", "adopting"}]
    BY <1>1 DEF NoWork
  <2>4. indexed' \subseteq {r \in Runs : runs'[r] = "succeeded"}
    BY <1>0, <1>1 DEF CallersAreSound
  <2> QED
    BY <1>1, <2>2, <2>3, <2>4 DEF CallersAreSound, NoJob, NoWork, NoRecovery, None
<1> QED
  BY <1>4, <1>5, <1>6, <1>7 DEF KnowledgeInv

LEMMA RemoveScratchStep == ASSUME KnowledgeInv, RemoveScratch PROVE KnowledgeInv'
<1>0. /\ Tables /\ RowsAreSound /\ HeadIsSound /\ OneReceipt /\ CallersAreSound
      /\ gens \in Seq(GenRow)
  BY DEF KnowledgeInv, Tables
<1>1. /\ phase = "scratch" /\ phase' = "heads" /\ job = NoJob
      /\ UNCHANGED <<head, ledger, docs, ontology, runs, indexed, engine, rec, job, mishaps>>
  BY <1>0 DEF RemoveScratch, CallersAreSound
<1>2. Len(gens) \in Slots /\ Last(gens) = gens[Len(gens)]
  <2>1. Len(gens) \in Nat /\ Slots = 1..Len(gens) /\ head.gen \in Slots
    BY JobFacts
  <2> QED
    BY <2>1 DEF Last
<1>3. CallersAreSound'
  BY <1>1, CallersStand
<1>4. GraphInv' /\ gens' \in Seq(GenRow)
  <2>1. CASE Last(gens).origin = "scratch"
    <3>1. gens' = Front(gens)
      BY <2>1 DEF RemoveScratch
    <3>2. ledger' \in [Edits -> Nat] /\ \A e \in Edits : ledger'[e] \in {ledger[e], head.gen}
      BY <1>0, <1>1 DEF HeadIsSound
    <3> QED
      BY <1>1, <1>2, <2>1, <3>1, <3>2, DropStep
  <2>2. CASE Last(gens).origin # "scratch"
    <3>1. gens' = gens
      BY <2>2 DEF RemoveScratch
    <3>2. \A g \in Slots : gens[g].origin # "scratch"
      BY <1>0, <1>2, <2>2 DEF RowsAreSound
    <3>3. RowsAreSound' /\ HeadIsSound' /\ OneReceipt'
      BY <1>0, <1>1, <3>1, <3>2 DEF RowsAreSound, HeadIsSound, OneReceipt, Slots
    <3>4. JobIsSound'
      BY <1>1 DEF JobIsSound, NoJob, None, Early
    <3> QED
      BY <1>0, <3>1, <3>3, <3>4 DEF GraphInv
  <2> QED
    BY <2>1, <2>2
<1>5. Tables'
  BY <1>0, <1>1, <1>4 DEF Tables
<1> QED
  BY <1>3, <1>4, <1>5 DEF KnowledgeInv, GraphInv

LEMMA RecoverHeadStep == ASSUME KnowledgeInv, RecoverHead PROVE KnowledgeInv'
<1>0. Tables /\ CallersAreSound
  BY DEF KnowledgeInv
<1>1. /\ phase = "heads" /\ phase' = "adoptions"
      /\ UNCHANGED <<gens, ledger, docs, ontology, runs, indexed, engine, rec, job>>
  BY DEF RecoverHead, Activate
<1>2. head' \in [gen : Nat \ {0}, status : HeadStatuses] /\ head'.gen = head.gen
  BY <1>0 DEF RecoverHead, Activate, MarkHead, Tables, HeadStatuses
<1>3. mishaps' \in 0..MaxMishaps
  BY <1>0, KnowledgeAssumption DEF RecoverHead, Mishap, Tables
<1>4. Tables'
  BY <1>0, <1>1, <1>2, <1>3 DEF Tables
<1>5. GraphInv'
  BY <1>1, <1>2, GraphStands
<1>6. CallersAreSound'
  BY <1>1, CallersStand
<1> QED
  BY <1>4, <1>5, <1>6 DEF KnowledgeInv, GraphInv

-----------------------------------------------------------------------------
(* The theorems. *)

LEMMA KnowledgeInit == Init => KnowledgeInv
<1> SUFFICES ASSUME Init PROVE KnowledgeInv
  OBVIOUS
<1> DEFINE root == [state |-> "ready", origin |-> "root", ontology |-> 0, run |-> None,
                    batch |-> None, snapshot |-> TRUE, holds |-> {}]
<1>1. /\ gens = <<root>> /\ head = [gen |-> 1, status |-> "ready"] /\ ledger = [e \in Edits |-> 0]
      /\ docs = [d \in Docs |-> "out"] /\ ontology = 0 /\ runs = [r \in Runs |-> "none"]
      /\ indexed = {} /\ engine = NoWork /\ rec = NoRecovery /\ job = NoJob
      /\ phase = "open" /\ mishaps = 0
  BY DEF Init
<1>2. root \in GenRow
  BY KnowledgeAssumption DEF GenRow, GenerationStates
<1>3. /\ gens \in Seq(GenRow) /\ Slots = {1} /\ Len(gens) = 1 /\ gens[1] = root
  BY <1>1, <1>2 DEF Slots
<1>4. /\ root.state = "ready" /\ root.origin = "root" /\ root.run = None /\ root.batch = None
      /\ root.snapshot = TRUE
  OBVIOUS
<1> HIDE DEF root
<1>5. Tables
  <2>1. job \in JobRow
    BY <1>1 DEF NoJob, JobRow, HeadStatuses
  <2> QED
    BY <1>1, <1>3, <2>1, KnowledgeAssumption DEF Tables, HeadStatuses
<1>6. CallersAreSound
  <2>1. <<>> \in Seq({r \in Runs : runs[r] = "succeeded"})
    OBVIOUS
  <2>2. rec \in [step : {None, "next", "quarantine", "index", "adopt", "adopting"},
                 queue : Seq({r \in Runs : runs[r] = "succeeded"})]
    BY <1>1, <2>1 DEF NoRecovery
  <2>3. engine \in [run : Runs \cup {None}, step : {None, "index", "adopt", "adopting"}]
    BY <1>1 DEF NoWork
  <2> QED
    BY <1>1, <2>2, <2>3 DEF CallersAreSound, NoJob, NoWork, NoRecovery, None
<1>7. RowsAreSound /\ HeadIsSound /\ OneReceipt
  BY <1>1, <1>3, <1>4 DEF RowsAreSound, HeadIsSound, OneReceipt
<1>8. JobIsSound
  BY <1>1 DEF JobIsSound, NoJob, None, Early
<1> QED
  BY <1>5, <1>6, <1>7, <1>8 DEF KnowledgeInv

LEMMA KnowledgeStep == KnowledgeInv /\ [Next]_vars => KnowledgeInv'
<1> SUFFICES ASSUME KnowledgeInv, [Next]_vars PROVE KnowledgeInv'
  OBVIOUS
<1>1. CASE JobStep
  BY <1>1, ClaimStep, CreateStep, CopyStep, ProjectStep, BeginExtractionStep, ApplyStep,
     SealStep, SwapStep, JobFailsStep, EditEndsStep DEF JobStep
<1>2. CASE RecoveryStep
  BY <1>2, RecoveryStandsStep, QuarantineStep, RecoverIndexFailsStep, AdoptCallStep
     DEF RecoveryStep, Callers
<1>3. CASE StartStep
  BY <1>3, RemoveScratchStep, RecoverHeadStep, RecoveryStandsStep DEF StartStep
<1>4. CASE EngineStep
  BY <1>4, EngineStandsStep, AdoptCallStep DEF EngineStep, Callers
<1>5. CASE UserStep
  BY <1>5, RebuildRecoversStep, RebuildBeginsStep, OntologyStep, UserStandsStep,
     RecoveryStandsStep, BeginEditStep, EngineStandsStep DEF UserStep
<1>6. CASE Crash
  BY <1>6, CrashStep
<1>7. CASE UNCHANGED vars
  <2>1. UNCHANGED <<gens, head, ledger, docs, ontology, runs, indexed, engine, rec, job, phase, mishaps>>
    BY <1>7 DEF vars
  <2>2. Tables' /\ CallersAreSound'
    BY <2>1 DEF KnowledgeInv, Tables, CallersAreSound
  <2>3. GraphInv'
    BY <2>1, GraphStands
  <2> QED
    BY <2>2, <2>3 DEF KnowledgeInv, GraphInv
<1> QED
  BY <1>1, <1>2, <1>3, <1>4, <1>5, <1>6, <1>7 DEF Next

\* The invariant holds, whatever is submitted, edited or forgotten and
\* wherever the process ends.
THEOREM KnowledgeInvariant == Spec => []KnowledgeInv
<1> QED
  BY KnowledgeInit, KnowledgeStep, PTL DEF Spec

\* The patch of a run is applied to at most one generation that can become
\* or was active (recovery.go:34).
THEOREM PatchIsAppliedOnce == Spec => []PatchAppliedOnce
<1>1. ASSUME KnowledgeInv PROVE PatchAppliedOnce
  <2> SUFFICES ASSUME NEW r \in Runs PROVE Cardinality(Receipts(r, Usable)) <= 1
    BY DEF PatchAppliedOnce
  <2>1. ASSUME NEW g \in Receipts(r, Usable), NEW h \in Receipts(r, Usable) PROVE g = h
    BY <1>1, <2>1 DEF KnowledgeInv, OneReceipt, Receipts, Slots
  <2>2. CASE Receipts(r, Usable) = {}
    <3>1. Cardinality(Receipts(r, Usable)) = 0
      BY <2>2, FS_EmptySet
    <3> QED
      BY <3>1
  <2>3. CASE Receipts(r, Usable) # {}
    <3>1. PICK g \in Receipts(r, Usable) : TRUE
      BY <2>3
    <3>2. Receipts(r, Usable) = {g}
      BY <2>1, <3>1
    <3>3. Cardinality({g}) = 1
      BY FS_Singleton
    <3> QED
      BY <3>2, <3>3
  <2> QED
    BY <2>2, <2>3
<1> QED
  BY <1>1, KnowledgeInvariant, PTL

\* A job that swaps the head loses nothing the head held and uses the
\* ontology that is active at the swap (service_write.go, AdoptRun and
\* Rebuild).
THEOREM SwapLosesNothing == Spec => SwapKeepsTheLedger
<1>1. ASSUME KnowledgeInv, [Next]_vars
      PROVE  [SwapHead =>
               /\ gens[head.gen].holds \cup PendingEdits(head.gen) \subseteq gens[job.gen].holds
               /\ gens[job.gen].ontology = ontology]_vars
  <2>1. ASSUME SwapHead
        PROVE  /\ gens[head.gen].holds \cup PendingEdits(head.gen) \subseteq gens[job.gen].holds
               /\ gens[job.gen].ontology = ontology
    <3>1. job.step \in Filled
      BY <2>1 DEF SwapHead, Filled
    <3> QED
      BY <1>1, <3>1, FilledFacts DEF CandidateIsSound, Candidate
  <2> QED
    BY <2>1
<1> QED
  BY <1>1, KnowledgeInvariant, PTL DEF Spec, SwapKeepsTheLedger, Curated

\* The tables and the rows of the callers have their types, and the head
\* points to a validated generation.
THEOREM KnowledgeTypes == Spec => []KnowledgeTypeOK
<1>1. ASSUME KnowledgeInv PROVE KnowledgeTypeOK
  <2>1. Tables /\ CallersAreSound /\ RowsAreSound /\ HeadIsSound /\ JobIsSound
    BY <1>1 DEF KnowledgeInv
  <2>2. \A g \in DOMAIN gens : gens[g] \in GenRow
    BY <1>1, JobFacts DEF Slots
  <2>3. head \in [gen : DOMAIN gens, status : HeadStatuses]
    BY <2>1 DEF Tables, HeadIsSound, Slots
  <2>4. gens[head.gen].state = "ready" /\ gens[head.gen].snapshot
    BY <2>1 DEF HeadIsSound, RowsAreSound, Usable
  <2>5. ledger \in [Edits -> {0} \cup {g \in DOMAIN gens : gens[g].state \in Usable}]
    BY <2>1 DEF HeadIsSound, Slots
  <2>6. rec.queue \in Seq(Runs)
    <3>1. rec.queue \in Seq(Done) /\ Done \subseteq Runs
      BY <2>1 DEF CallersAreSound, Done
    <3>2. \A U, V : U \subseteq V => Seq(U) \subseteq Seq(V)
      OBVIOUS
    <3> HIDE DEF Done
    <3> QED
      BY <3>1, <3>2
  <2>7. /\ engine \in [run : Runs \cup {None}, step : {None, "index", "adopt", "adopting"}]
        /\ rec.step \in {None, "next", "quarantine", "index", "adopt", "adopting"}
        /\ indexed \subseteq {r \in Runs : runs[r] = "succeeded"}
    BY <2>1 DEF CallersAreSound
  <2>8. job.kind \in {None, "adopt", "rebuild", "edit"} /\ job.gen \in {0} \cup DOMAIN gens
    BY <1>1, <2>1, JobFacts DEF CandidateIsSound, Slots, JobRow
  <2> QED
    BY <2>1, <2>2, <2>3, <2>4, <2>5, <2>6, <2>7, <2>8 DEF KnowledgeTypeOK, Tables, GenRow
<1> QED
  BY <1>1, KnowledgeInvariant, PTL
=============================================================================
