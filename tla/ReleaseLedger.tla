--------------------------- MODULE ReleaseLedger ---------------------------
(***************************************************************************)
(* The release gate: the ledger a release candidate is admitted by, the    *)
(* receipts of evidence attached to it one revision at a time, and the     *)
(* admission verifier (internal/releasegate and cmd/releasegate).  The     *)
(* programs that produce the receipts are in the modules that extend this. *)
(*                                                                         *)
(* Every file is created once and never overwritten, and a SHA-256 names   *)
(* one content: a ledger file and a receipt file are their contents here,  *)
(* the hash of a file is the file, and a ledger carries its predecessor.   *)
(* The candidate's files and the source tree are version numbers that only *)
(* grow: an edit that restores an earlier content is not modelled.         *)
(***************************************************************************)
EXTENDS Integers, Sequences, FiniteSets

CONSTANTS
    Policies,     \* the parts of the fixed gate list looked at: sets of gates
    MaxBuilds,    \* bound: contents of the candidate's directory
    MaxTrees,     \* bound: contents of the source tree
    MaxPrepares,  \* bound: ledgers prepared
    MaxLedgers,   \* bound: ledger files
    MaxReceipts   \* bound: receipts of one kind

VARIABLES
    required,  \* the gates of the policy in force; chosen once
    build,     \* the content of the candidate's directory now
    tree,      \* the content of the source tree now
    ledgers,   \* the ledger files
    receipts,  \* the evidence receipts (each with its details file)
    tool,      \* the admission tool: idle, or in a verification
    admission  \* the first admission receipt that says "passed", or None

ledgerVars == <<required, build, tree, ledgers, receipts, tool, admission>>

(* The fixed list, in its order; the external gates need someone else's    *)
(* machine, account or network.                                            *)
RequiredGates ==
    << "local_source_tests", "gate0_windows_host", "rag_50000",
       "scheduler_recovery", "packaged_blackbox", "live_auth_exact_models",
       "live_embeddings_shadow", "live_end_to_end", "live_quality_12",
       "clean_vm_installer", "clean_vm_portable", "production_update_feed",
       "incompatible_su2_host" >>

Gates == {RequiredGates[i] : i \in DOMAIN RequiredGates}
LocalGates == {RequiredGates[i] : i \in 1..4}
External == {RequiredGates[i] : i \in 6..13}
CleanVM == {"clean_vm_installer", "clean_vm_portable"}

ASSUME LedgerAssumption ==
    /\ \A p \in Policies : p # {} /\ p \subseteq Gates
    /\ {MaxBuilds, MaxTrees, MaxPrepares, MaxLedgers, MaxReceipts}
          \subseteq Nat \ {0}

None == [gate |-> "none"]
NoLedger == [rev |-> 0]
Idle == [mode |-> "idle"]

(***************************************************************************)
(* What a receipt of a gate names besides the candidate, its ledger and    *)
(* its details, as far as this model tells it apart.                       *)
(***************************************************************************)
UsesSourceTree(g) ==
    g \in {"local_source_tests", "rag_50000", "scheduler_recovery"}

EvidencePolicy(g) ==
    CASE g = "rag_50000"              -> {"source-tree", "gate_artifact"}
      [] g = "gate0_windows_host"     -> {"gate_artifact"}
      [] UsesSourceTree(g) /\ g # "rag_50000" -> {"source-tree"}
      [] g = "live_auth_exact_models" -> {"session"}
      [] g = "live_embeddings_shadow" -> {"runner-receipt", "memory-index"}
      [] g = "live_quality_12"        -> {"runner-receipt", "evaluation"}
      [] g = "live_end_to_end" ->
            {"runner-receipt", "evaluation", "session", "run"}
      [] g \in CleanVM ->
            {"source-tree", "runner-receipt", "evaluation", "package"}
      [] g = "production_update_feed" -> {"feed"}
      [] OTHER                        -> {}

(* What the details of a gate's observation must show: every command or    *)
(* scenario of the gate's fixed plan ended as it must.                     *)
LocalContract(g) ==
    CASE g = "local_source_tests" -> {"toolchain", "source_suite"}
      [] g = "gate0_windows_host" -> {"packaged_gate0", "root_removed"}
      [] g = "rag_50000"          -> {"toolchain", "rag_test", "root_removed"}
      [] OTHER                    -> {"toolchain", "contracts", "forced_exit"}

PackagedScenarios == {"forced_termination_recovery", "tamper",
                      "candidate_stability", "fixture_cleanup"}
FeedContract == {"trusted", "fetched", "staged", "activated", "root_removed"}
HostContract == {"incompatible", "preflight_refused"}
AuthContract == {"account", "status"}
ShadowContract == {"documents", "before", "reindexed", "after", "searched",
                   "vectors"}
LiveContract == {"submitted", "succeeded", "read_back", "queried", "edited",
                 "stages", "sources", "solver", "graph"}
CleanVMContract == {"clean_baseline", "package", "workflow", "restart",
                    "quarantine", "uninstall"}

(***************************************************************************)
(* Ledger files.  A ledger has one row per required gate: empty, or the    *)
(* receipt attached.                                                       *)
(***************************************************************************)
Prepared == Cardinality({l \in ledgers : l.rev = 1})

FirstLedger(n, b) ==
    [prep |-> n, build |-> b, rev |-> 1,
     rows |-> [g \in required |-> None], prev |-> NoLedger]

LedgerHolds(l) ==
    /\ DOMAIN l.rows = required
    /\ IF l.rev = 1
       THEN l.prev = NoLedger /\ \A g \in required : l.rows[g] = None
       ELSE l.prev # NoLedger

(* The ledgers from l back to the prepared one, newest first. *)
Line(l) ==
    LET back[i \in 0 .. l.rev - 1] == IF i = 0 THEN l ELSE back[i - 1].prev
    IN  back

(* The rows in which a revision differs from its predecessor; a revision   *)
(* attaches exactly one row and replaces none.                             *)
Changed(prev, cur) == {g \in required : cur.rows[g] # prev.rows[g]}

AttachesOne(prev, cur) ==
    \E g \in required : Changed(prev, cur) = {g} /\ prev.rows[g] = None

ChainHolds(l) ==
    LET line == Line(l)
    IN  /\ l.rev <= Cardinality(required) + 1
        /\ \A i \in DOMAIN line : line[i] \in ledgers /\ LedgerHolds(line[i])
        /\ \A i \in DOMAIN line \ {0} :
              /\ line[i].rev + 1 = line[i - 1].rev
              /\ line[i].build = l.build /\ line[i].prep = l.prep
              /\ AttachesOne(line[i], line[i - 1])

(* The revision the row of g was attached to. *)
PreparedFor(l, g) ==
    LET line == Line(l)
        at == CHOOSE i \in DOMAIN line \ {0} :
                 g \in Changed(line[i], line[i - 1])
    IN  line[at]

(***************************************************************************)
(* Receipts that say "passed".  tip is the ledger the receipt and its      *)
(* details name: its hash, its revision and its prepared_at in one; before *)
(* and after are the candidates the producer bound at its start and at its *)
(* end; shows is what the details show; names are the other files and      *)
(* things named by hash.  saw is not in the file: it records what the      *)
(* producer really looked at, for the properties.                          *)
(***************************************************************************)
ReceiptHolds(r) ==
    /\ r.gate \in required
    /\ DOMAIN r.names = EvidencePolicy(r.gate)

LocalDetailsHold(r) ==
    /\ r.before = r.build /\ r.after = r.build
    /\ ("source-tree" \in DOMAIN r.names) <=> UsesSourceTree(r.gate)
    /\ r.shows = LocalContract(r.gate)

(* Gate 0 and the retrieval gate retain what their command wrote, made     *)
(* while the command ran.                                                  *)
ArtifactHolds(r) ==
    r.gate \in {"gate0_windows_host", "rag_50000"}
        => r.names["gate_artifact"] = r.build

(* The tree is sealed again wherever the details are verified. *)
SealedTreeIs(r) == UsesSourceTree(r.gate) => r.names["source-tree"] = tree

(* Variant: the hash the receipt carries is taken for granted. *)
CarriesATree(r) == UsesSourceTree(r.gate) => r.names["source-tree"] > 0

SourceTreeUnchanged(r) == SealedTreeIs(r)

PackagedDetailsHold(r) == r.shows = PackagedScenarios

AuthDetailsHold(r) ==
    /\ r.before = r.build /\ r.after = r.build
    /\ r.shows = AuthContract
    /\ r.names["session"].build = r.build

ShadowDetailsHold(r) == r.shows = ShadowContract

EvaluationDetailsHold(r) ==
    /\ r.names["evaluation"].build = r.build
    /\ r.names["evaluation"].passed
    /\ r.names["evaluation"].set = r.names["runner-receipt"].set

(* The session of the live run was opened after the evaluation was         *)
(* verified, which was after the ledger was prepared.                      *)
LiveDetailsHold(r, at) ==
    /\ r.names["evaluation"].passed
    /\ r.names["evaluation"].prepared >= at.prep
    /\ r.names["session"].no > r.names["evaluation"].sessions
    /\ r.shows = LiveContract

CleanVMDetailsHold(r) ==
    /\ r.shows = CleanVMContract
    /\ r.names["package"] = r.build

FeedDetailsHold(r) ==
    /\ r.before = r.build /\ r.after = r.build
    /\ r.shows = FeedContract

HostDetailsHold(r) ==
    /\ r.before = r.build /\ r.after = r.build
    /\ r.shows = HostContract

(* at is the ledger revision that precedes the attachment. *)
DetailsHold(r, at) ==
    /\ r.tip = at
    /\ CASE r.gate \in LocalGates ->
               LocalDetailsHold(r) /\ ArtifactHolds(r) /\ SourceTreeUnchanged(r)
         [] r.gate = "packaged_blackbox"      -> PackagedDetailsHold(r)
         [] r.gate = "live_auth_exact_models" -> AuthDetailsHold(r)
         [] r.gate = "live_embeddings_shadow" -> ShadowDetailsHold(r)
         [] r.gate = "live_quality_12"        -> EvaluationDetailsHold(r)
         [] r.gate = "live_end_to_end"        -> LiveDetailsHold(r, at)
         [] r.gate \in CleanVM                -> CleanVMDetailsHold(r)
         [] r.gate = "production_update_feed" -> FeedDetailsHold(r)
         [] OTHER                             -> HostDetailsHold(r)

(***************************************************************************)
(* What every producer does: it loads the ledger's chain, finds it bound   *)
(* to the candidate it was given and the gate's row empty, and writes its  *)
(* receipt to a new file.  A ledger file never changes, so loading it      *)
(* again at the end finds the same.                                        *)
(***************************************************************************)
RowOpen(l, g) == g \in required /\ l.rows[g] = None
LedgerBound(l, g) == RowOpen(l, g) /\ l.build = build /\ ChainHolds(l)

NothingSeen == [builds |-> {}, trees |-> {}]

NewReceipt(g, tip, after, shows, names, saw) ==
    [gate |-> g, build |-> tip.build, tip |-> tip,
     before |-> tip.build, after |-> after, shows |-> shows,
     names |-> names, saw |-> saw]

WriteReceipt(r) ==
    /\ Cardinality(receipts) < MaxReceipts
    /\ receipts' = receipts \union {r}

(***************************************************************************)
(* The admission tool.  It binds the candidate, does its work, binds the   *)
(* candidate again and creates its output: it writes nothing unless the    *)
(* candidate stayed the same, so preparing a ledger and attaching a        *)
(* receipt are one step each.  The verification looks at one gate after    *)
(* the other, and both the candidate and the tree can change in between.   *)
(***************************************************************************)
WriteLedger(l) ==
    /\ Cardinality(ledgers) < MaxLedgers
    /\ ledgers' = ledgers \union {l}
    /\ UNCHANGED <<required, build, tree, receipts, tool, admission>>

(* A further ledger is prepared only for a further build (a bound). *)
Prepare ==
    /\ tool = Idle
    /\ Prepared < MaxPrepares /\ Prepared < build
    /\ WriteLedger(FirstLedger(Prepared + 1, build))

CanAttach(l, r) ==
    /\ l.build = build
    /\ r.build = l.build
    /\ l.rows[r.gate] = None
    /\ r.tip = l
    /\ ChainHolds(l)
    /\ ReceiptHolds(r)
    /\ DetailsHold(r, l)

AttachEvidence(l, r) ==
    /\ tool = Idle
    /\ CanAttach(l, r)
    /\ WriteLedger([prep |-> l.prep, build |-> l.build, rev |-> l.rev + 1,
                    rows |-> [l.rows EXCEPT ![r.gate] = r], prev |-> l])

BeginVerify(l) ==
    /\ tool = Idle
    /\ l.build = build
    /\ ChainHolds(l)
    /\ tool' = [mode |-> "verify", build |-> build, ledger |-> l, at |-> 0]
    /\ UNCHANGED <<required, build, tree, ledgers, receipts, admission>>

GateResult(l, g) ==
    LET r == l.rows[g]
    IN  CASE r = None /\ g \in External    -> "blocked_external"
          [] r = None /\ g \notin External -> "not_evidenced"
          [] r # None /\ ~ /\ r \in receipts
                           /\ ReceiptHolds(r)
                           /\ r.gate = g
                           /\ r.build = l.build
                           /\ r.tip = PreparedFor(l, g)
                           /\ DetailsHold(r, PreparedFor(l, g)) ->
                 "invalid_evidence"
          [] OTHER -> "passed"

(* The gates in the order of the fixed list; each sees the tree of its own *)
(* moment.  Those of the list that are not looked at are passed over.      *)
NoGateWithin(first, last) ==
    \A i \in first .. last : RequiredGates[i] \notin required

(* The other gates are looked at as well when one has not passed; the      *)
(* admission that is then written says "failed" and changes nothing here.  *)
VerifyGate ==
    /\ tool # Idle
    /\ \E i \in DOMAIN RequiredGates :
          /\ tool.at < i /\ RequiredGates[i] \in required
          /\ NoGateWithin(tool.at + 1, i - 1)
          /\ tool' = IF GateResult(tool.ledger, RequiredGates[i]) = "passed"
                     THEN [tool EXCEPT !.at = i]
                     ELSE Idle
    /\ UNCHANGED <<required, build, tree, ledgers, receipts, admission>>

(* reauthenticateCandidate, then the exclusive creation of the output. *)
FinishVerify ==
    /\ tool # Idle
    /\ NoGateWithin(tool.at + 1, Len(RequiredGates))
    /\ admission' = IF build = tool.build
                    THEN [gate |-> "all", ledger |-> tool.ledger]
                    ELSE admission
    /\ tool' = Idle
    /\ UNCHANGED <<required, build, tree, ledgers, receipts>>

(* The candidate is built again; the source is edited. *)
Rebuild ==
    /\ build < MaxBuilds
    /\ build' = build + 1
    /\ UNCHANGED <<required, tree, ledgers, receipts, tool, admission>>

EditSource ==
    /\ tree < MaxTrees
    /\ \E g \in required : UsesSourceTree(g)
    /\ tree' = tree + 1
    /\ UNCHANGED <<required, build, ledgers, receipts, tool, admission>>

LedgerInit ==
    /\ required \in Policies
    /\ build = 1 /\ tree = 1
    /\ ledgers = {} /\ receipts = {}
    /\ tool = Idle
    /\ admission = None

LedgerNext ==
    /\ admission = None
    /\ \/ Prepare
       \/ \E l \in ledgers, r \in receipts : AttachEvidence(l, r)
       \/ \E l \in ledgers : BeginVerify(l)
       \/ VerifyGate
       \/ FinishVerify
       \/ Rebuild
       \/ EditSource
=============================================================================
