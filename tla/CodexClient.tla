----------------------------- MODULE CodexClient -----------------------------
(***************************************************************************)
(* The client of the Codex App Server (internal/codex/client.go and        *)
(* mcp_elicitation.go) with the callers of its turns                       *)
(* (internal/integration/codex.go): one child process, one goroutine that  *)
(* reads its stdout, an event loop between that goroutine and the approval *)
(* router, and any number of goroutines that call, wait and give up.       *)
(*                                                                         *)
(* The App Server is external: it may answer a call before or after the    *)
(* notifications the call leads to, ask for approvals, and die.  A thread  *)
(* has one turn here, so a turn stands for its thread too.  Writes to      *)
(* stdin happen under writeMu and block while the pipe is full.            *)
(***************************************************************************)
EXTENDS Naturals, Sequences, FiniteSets

CONSTANTS
    Turns,         \* the turns AetherOps asks for, each by a goroutine of its own
    Stopper,       \* the browser's hand-over, which interrupts every turn
    Items,         \* the MCP tool calls Codex makes
    TurnOf,        \* the turn of an item
    ContentOf,     \* what the client compares of an item: thread, turn, server, arguments
    Requests,      \* the requests the App Server makes of the client
    AskedFor,      \* the item an elicitation is about, the turn of any other request
    Supported,     \* the requests that are of an approval method
    PipeSize,      \* messages the stdin of the child holds unread
    InputSize,     \* requests eventInput holds
    OutputSize,    \* messages the App Server is ahead of the reader
    Nothing

Elicitations == {r \in Requests : AskedFor[r] \in Items}
RequestTurn(r) == IF r \in Elicitations THEN TurnOf[AskedFor[r]] ELSE AskedFor[r]
Callers == Turns \cup {Stopper}

ASSUME ClientAssumption ==
    /\ Stopper \notin Turns /\ Turns \cap Items = {}
    /\ TurnOf \in [Items -> Turns] /\ DOMAIN ContentOf = Items
    /\ \A i, j \in Items : ContentOf[i] = ContentOf[j] => TurnOf[i] = TurnOf[j]
    /\ AskedFor \in [Requests -> Items \cup Turns]
    /\ Supported \subseteq Requests /\ Elicitations \subseteq Supported
    /\ PipeSize \in Nat \ {0} /\ InputSize \in Nat \ {0} /\ OutputSize \in Nat \ {0}
    /\ {Nothing, "unbound"} \cap Requests = {}
    /\ Nothing \notin {"unbound", "asked", "answered", "running", "stopping", "over",
                       "completed", "interrupted"}

VARIABLES
    caller,        \* each calling goroutine, with its latest call
    ended,         \* the callers whose context is over
    turns,         \* the client's registry of turns
    tracked,       \* the tracked tool calls, with the request bound to each
    offer,         \* the items an elicitation was completed with
    writer,        \* who holds writeMu with its message half written
    replying,      \* the request the reader is answering itself
    input, queue,  \* the requests in eventInput and in the queue of the event loop
    held,          \* the requests the approval router took and nobody has answered
    closing,       \* the call of Close: "open", "waits" for writeMu, "over"
    done,          \* finish has run
    stdin, stdout, \* the pipes
    owed,          \* the calls the App Server has read and not answered
    alive,         \* the child process runs
    served,        \* the turns as the App Server has them
    spoken,        \* the turns whose final answer it has sent
    item, asked    \* its tool calls and its requests

eventVars == <<replying, input, queue, held>>
trackVars == <<tracked, offer>>
serverVars == <<owed, alive, served, spoken, item, asked>>
clientVars == <<caller, ended, turns, trackVars, writer, eventVars, closing, done, stdin, stdout,
          serverVars>>

\* Positions: to write a call, to wait for its answer, to wait for the turn.
Writing == {"start", "stop"}
Awaiting == {"starting", "stopping"}
Statuses == {"completed", "interrupted"}

ClientTypeOK ==
    /\ \A a \in Callers :
        /\ caller[a].at \in {"idle", "turn", "sweep", "returned"} \cup Writing \cup Awaiting
        /\ caller[a].nth \in 0..(Cardinality(Turns) + 2)
        /\ caller[a].call \in {"none", "pending", "ok", "error"}
        /\ caller[a].phase \in {"start", "own", "all"}
        /\ caller[a].target \in Turns \cup {Nothing} /\ caller[a].left \subseteq Turns
        /\ caller[a].got \in {"nothing", "failed", "quiesced", "hurried"} \cup Statuses
        /\ caller[a].text \in BOOLEAN
    /\ ended \subseteq Turns /\ done \in BOOLEAN /\ alive \in BOOLEAN
    /\ turns \in [Turns -> [known : BOOLEAN, text : BOOLEAN,
                            status : {Nothing} \cup Statuses]]
    /\ tracked \in [Items -> {Nothing, "unbound"} \cup Requests]
    /\ offer \in [Requests -> SUBSET Items]
    /\ served \in [Turns -> {Nothing, "running", "stopping", "completed", "interrupted"}]
    /\ asked \in [Requests -> {Nothing, "asked", "answered"}]

Init ==
    /\ caller = [a \in Callers |-> [at |-> "idle", nth |-> 0, call |-> "none", phase |-> "start",
                                    target |-> Nothing, left |-> {}, got |-> "nothing",
                                    text |-> FALSE]]
    /\ turns = [t \in Turns |-> [known |-> FALSE, text |-> FALSE, status |-> Nothing]]
    /\ tracked = [i \in Items |-> Nothing] /\ offer = [r \in Requests |-> {}]
    /\ writer = Nothing /\ replying = Nothing /\ held = {} /\ input = <<>> /\ queue = <<>>
    /\ ended = {} /\ closing = "open" /\ done = FALSE
    /\ stdin = <<>> /\ stdout = <<>> /\ owed = {} /\ alive = TRUE
    /\ served = [t \in Turns |-> Nothing] /\ spoken = {}
    /\ item = [i \in Items |-> Nothing] /\ asked = [r \in Requests |-> Nothing]

-----------------------------------------------------------------------------
\* Writing to the child: the three ways a write goes (writeMessage).

\* writeMu is free, or held by this writer, and the pipe has room.
Writes(who, message) ==
    /\ writer \in {Nothing, who} /\ alive /\ ~done /\ Len(stdin) < PipeSize
    /\ stdin' = Append(stdin, message) /\ writer' = Nothing

\* The pipe is full: the writer keeps writeMu until the child reads.
Blocks(who) ==
    /\ writer = Nothing /\ alive /\ ~done /\ Len(stdin) = PipeSize
    /\ writer' = who /\ UNCHANGED stdin

\* The child is gone: the write fails.
WriteFails(who) ==
    /\ writer \in {Nothing, who} /\ (done \/ ~alive)
    /\ writer' = Nothing /\ UNCHANGED stdin

-----------------------------------------------------------------------------
\* The callers.  A call is registered under a new id, written, and waited for
\* (call); the id leaves the map when the call returns.

Becomes(a, next) == caller' = [caller EXCEPT ![a] = next]

NewCall(a, at, phase, target) ==
    [caller[a] EXCEPT !.at = at, !.nth = @ + 1, !.call = "pending", !.phase = phase, !.target = target]

Sweeping(a, phase, left) ==
    [caller[a] EXCEPT !.at = "sweep", !.call = "none", !.phase = phase, !.target = Nothing, !.left = left]

\* A turn that was interrupted has its result before the sweep its context calls for.
Returned(a, got) ==
    [caller[a] EXCEPT !.at = "returned", !.call = "none", !.target = Nothing, !.left = {},
                      !.got = IF @ = "nothing" THEN got ELSE @]

\* Turn of the adapter: with its context over, it interrupts every live turn before it returns.
AfterFailure(a) == IF a \in ended THEN Sweeping(a, "own", {}) ELSE Returned(a, "failed")

\* The turn's own interruption is followed by InterruptAll, whose calls share one deadline.
AfterStop(a, late) ==
    IF late /\ caller[a].phase = "all" THEN Returned(a, "hurried")
    ELSE Sweeping(a, caller[a].phase, caller[a].left)

AfterCall(a) == IF caller[a].phase = "start" THEN AfterFailure(a) ELSE AfterStop(a, FALSE)

\* The turns that have started and not completed, as far as the client knows (InterruptAll).
Active == {t \in Turns : turns[t].known /\ turns[t].status = Nothing}

\* Turn: turn/start is registered.
StartTurn(t) ==
    /\ caller[t].at = "idle" /\ t \notin ended /\ ~done
    /\ Becomes(t, NewCall(t, "start", "start", t))
    /\ UNCHANGED <<turns, writer, stdin>>

\* A caller whose context is over, or whose client is, does not call.
NeverStarts(t) ==
    /\ caller[t].at = "idle" /\ (t \in ended \/ done)
    /\ Becomes(t, AfterFailure(t))
    /\ UNCHANGED <<turns, writer, stdin>>

WriteCall(a) ==
    /\ caller[a].at \in Writing
    /\ Writes(a, [op |-> caller[a].at, id |-> <<a, caller[a].nth>>, turn |-> caller[a].target])
    /\ Becomes(a, [caller[a] EXCEPT !.at = IF @ = "start" THEN "starting" ELSE "stopping"])
    /\ UNCHANGED turns

BlockCall(a) == caller[a].at \in Writing /\ Blocks(a) /\ UNCHANGED <<caller, turns>>

\* The write fails, the answer is an error, or the client ends.
CallFails(a) ==
    /\ \/ caller[a].at \in Writing /\ WriteFails(a)
       \/ caller[a].at \in Awaiting /\ (done \/ caller[a].call = "error") /\ UNCHANGED <<writer, stdin>>
    /\ Becomes(a, AfterCall(a))
    /\ UNCHANGED turns

\* Variant: the answer always makes the turn's state afresh.
StartAnsweredAfresh(t) ==
    /\ caller[t].at = "starting" /\ caller[t].call = "ok"
    /\ turns' = [turns EXCEPT ![t] = [known |-> TRUE, text |-> FALSE, status |-> Nothing]]
    /\ Becomes(t, [caller[t] EXCEPT !.at = "turn", !.call = "none", !.target = Nothing])
    /\ UNCHANGED <<writer, stdin>>

\* The answer to turn/start names the turn, whose state is looked up or made.
StartAnswered(t) ==
    /\ caller[t].at = "starting" /\ caller[t].call = "ok"
    /\ turns' = [turns EXCEPT ![t].known = TRUE]
    /\ Becomes(t, [caller[t] EXCEPT !.at = "turn", !.call = "none", !.target = Nothing])
    /\ UNCHANGED <<writer, stdin>>

\* Variant: an answer is awaited whatever becomes of the context.
StartAwaited(t) ==
    /\ caller[t].at = "starting" /\ t \in ended /\ done
    /\ Becomes(t, AfterFailure(t))
    /\ UNCHANGED <<turns, writer, stdin>>

\* The context ends while the answer to turn/start is awaited.
StartAbandoned(t) ==
    /\ caller[t].at = "starting" /\ t \in ended
    /\ Becomes(t, AfterFailure(t))
    /\ UNCHANGED <<turns, writer, stdin>>

\* waitForTurn: the turn completed.
TurnReturns(t) ==
    /\ caller[t].at = "turn" /\ turns[t].status # Nothing
    /\ LET next == IF turns[t].status = "interrupted" /\ t \in ended
                   THEN Sweeping(t, "own", {}) ELSE Returned(t, turns[t].status)
       IN  Becomes(t, [next EXCEPT !.got = turns[t].status, !.text = turns[t].text])
    /\ UNCHANGED <<turns, writer, stdin>>

\* waitForTurn: the context ended, and the turn is interrupted unless the client ended too.
TurnAbandoned(t) ==
    /\ caller[t].at = "turn" /\ t \in ended
    /\ Becomes(t, IF done THEN AfterFailure(t) ELSE NewCall(t, "stop", "own", t))
    /\ UNCHANGED <<turns, writer, stdin>>

\* waitForTurn: the client ended before the turn did.
TurnLost(t) ==
    /\ caller[t].at = "turn" /\ done /\ turns[t].status = Nothing
    /\ Becomes(t, AfterFailure(t))
    /\ UNCHANGED <<turns, writer, stdin>>

\* The interruption was answered, or its five seconds are over.
StopAnswered(a, late) ==
    /\ caller[a].at = "stopping" /\ (late \/ caller[a].call = "ok")
    /\ Becomes(a, AfterStop(a, late))
    /\ UNCHANGED <<turns, writer, stdin>>

\* The hand-over of the browser to the user calls InterruptAll; one that finds no turn
\* does nothing.
StopAll ==
    /\ caller[Stopper].at = "idle" /\ Active # {}
    /\ Becomes(Stopper, Sweeping(Stopper, "all", Active))
    /\ UNCHANGED <<turns, writer, stdin>>

\* InterruptAll reads the registry once ...
SweepBegins(a) ==
    /\ caller[a].at = "sweep" /\ caller[a].phase # "all"
    /\ Becomes(a, Sweeping(a, "all", Active))
    /\ UNCHANGED <<turns, writer, stdin>>

\* ... and interrupts the turns it found one after the other; a client that ended refuses.
SweepCalls(a, t) ==
    /\ caller[a].at = "sweep" /\ caller[a].phase = "all" /\ t \in caller[a].left
    /\ LET next == IF done THEN caller[a] ELSE NewCall(a, "stop", "all", t)
       IN  Becomes(a, [next EXCEPT !.left = @ \ {t}])
    /\ UNCHANGED <<turns, writer, stdin>>

SweepEnds(a) ==
    /\ caller[a].at = "sweep" /\ caller[a].phase = "all" /\ caller[a].left = {}
    /\ Becomes(a, Returned(a, "quiesced"))
    /\ UNCHANGED <<turns, writer, stdin>>

CallerWrites(a) == WriteCall(a) \/ BlockCall(a)

CallerStep(a) ==
    /\ \/ CallerWrites(a) \/ CallFails(a)
       \/ SweepBegins(a) \/ SweepEnds(a) \/ \E t \in Turns : SweepCalls(a, t)
       \/ \E late \in BOOLEAN : StopAnswered(a, late)
       \/ /\ a \in Turns
          /\ \/ StartAnswered(a) \/ StartAbandoned(a)
             \/ TurnReturns(a) \/ TurnAbandoned(a) \/ TurnLost(a)
    /\ UNCHANGED <<ended, trackVars, eventVars, closing, done, stdout, serverVars>>

Begins ==
    /\ StopAll \/ \E t \in Turns : StartTurn(t) \/ NeverStarts(t)
    /\ UNCHANGED <<ended, trackVars, eventVars, closing, done, stdout, serverVars>>

\* The user cancels the run, or the turn exceeds the limit of a stage.
ContextEnds(t) ==
    /\ caller[t].at # "returned" /\ t \notin ended
    /\ ended' = ended \cup {t}
    /\ UNCHANGED <<caller, turns, trackVars, writer, eventVars, closing, done, stdin, stdout,
                   serverVars>>

-----------------------------------------------------------------------------
\* The goroutine that reads stdout (readLoop, dispatch).  Notifications are queued
\* with the requests and skipped by the router; here they are only recorded, since
\* the event loop always makes room for them.

Reading == ~done /\ replying = Nothing /\ stdout # <<>>
Kind == Head(stdout).kind

Queues(event) == Len(input) < InputSize /\ input' = Append(input, event)

\* An answer goes to the call that still waits under its id; a late one is dropped.
ReadResponse ==
    /\ Reading /\ Kind = "response"
    /\ LET a == Head(stdout).id[1] IN
       caller' = IF caller[a].call = "pending" /\ caller[a].nth = Head(stdout).id[2]
                 THEN [caller EXCEPT ![a].call = IF Head(stdout).ok THEN "ok" ELSE "error"]
                 ELSE caller
    /\ UNCHANGED <<turns, trackVars, input, replying>>

\* turn/started and an agent message: the turn is looked up or made.
ReadTurnEvent ==
    /\ Reading /\ Kind \in {"started", "message"}
    /\ LET t == Head(stdout).turn IN
       turns' = [turns EXCEPT ![t].known = TRUE, ![t].text = @ \/ Kind = "message"]
    /\ UNCHANGED <<caller, trackVars, input, replying>>

\* turn/completed: its status is final, its waiters are released, its tool calls are over.
ReadCompleted ==
    /\ Reading /\ Kind = "completed"
    /\ LET t == Head(stdout).turn IN
       /\ turns' = [turns EXCEPT ![t].known = TRUE, ![t].status = Head(stdout).status]
       /\ tracked' = [i \in Items |-> IF TurnOf[i] = t THEN Nothing ELSE tracked[i]]
    /\ UNCHANGED <<caller, offer, input, replying>>

\* An MCP tool call starts, ends, or has its request resolved (recordMCPLifecycle).
ReadToolEvent ==
    /\ Reading /\ Kind \in {"tool_started", "tool_ended", "resolved"}
    /\ tracked' = CASE Kind = "tool_started" -> [tracked EXCEPT ![Head(stdout).item] = "unbound"]
                     [] Kind = "tool_ended" -> [tracked EXCEPT ![Head(stdout).item] = Nothing]
                     [] OTHER -> [i \in Items |-> IF tracked[i] = Head(stdout).request THEN Nothing
                                                                                 ELSE tracked[i]]
    /\ UNCHANGED <<caller, turns, offer, input, replying>>

\* The tracked calls an elicitation may be about; it is bound only when there is exactly
\* one and no request is bound to it (uniqueUnboundCall).
Matches(r) == {i \in Items : tracked[i] # Nothing /\ ContentOf[i] = ContentOf[AskedFor[r]]}

\* Variant: any matching call will do.
BindsAnyMatch(r, i) == r \in Elicitations /\ i \in Matches(r) /\ tracked[i] = "unbound"

Binds(r, i) == r \in Elicitations /\ Matches(r) = {i} /\ tracked[i] = "unbound"

\* What the client can pass on: an elicitation with its tool call, or a stable approval.
Presentable(r) == IF r \in Elicitations THEN \E i \in Items : Binds(r, i) ELSE r \in Supported

\* A request is offered to the router, an elicitation with the call it was bound to;
\* any other is refused by the reader itself.
ReadRequest ==
    /\ Reading /\ Kind = "request"
    /\ LET r == Head(stdout).request IN
       \/ /\ Presentable(r) /\ Queues(r)
          /\ tracked' = [i \in Items |-> IF Binds(r, i) THEN r ELSE tracked[i]]
          /\ offer' = [offer EXCEPT ![r] = {i \in Items : Binds(r, i)}]
          /\ UNCHANGED replying
       \/ ~Presentable(r) /\ replying' = r /\ UNCHANGED <<input, trackVars>>
    /\ UNCHANGED <<caller, turns>>

Reads ==
    /\ \/ ReadResponse \/ ReadTurnEvent \/ ReadCompleted \/ ReadToolEvent
       \/ ReadRequest
    /\ stdout' = Tail(stdout)
    /\ UNCHANGED <<ended, writer, queue, held, closing, done, stdin, serverVars>>

Reply(r) == [op |-> "reply", id |-> r, turn |-> Nothing]

\* The reader writes its refusal, and waits with everybody else for room in the pipe.
ReaderReplies ==
    /\ replying # Nothing
    /\ \/ (Writes("reader", Reply(replying)) \/ WriteFails("reader")) /\ replying' = Nothing
       \/ Blocks("reader") /\ UNCHANGED replying
    /\ UNCHANGED <<caller, ended, turns, trackVars, input, queue, held, closing, done, stdout,
                   serverVars>>

\* stdout is at its end: every outstanding call fails, and every later one (finish).
Finish ==
    /\ ~done /\ ~alive /\ stdout = <<>> /\ replying = Nothing
    /\ done' = TRUE
    /\ caller' = [a \in Callers |->
                    IF caller[a].call = "pending" THEN [caller[a] EXCEPT !.call = "error"] ELSE caller[a]]
    /\ tracked' = [i \in Items |-> Nothing]
    /\ UNCHANGED <<ended, turns, offer, writer, eventVars, closing, stdin, stdout, serverVars>>

ReaderStep == Reads \/ ReaderReplies \/ Finish

-----------------------------------------------------------------------------
\* The event loop, and the approval router behind it.

\* The loop empties eventInput into a queue without bound.
LoopTakes ==
    /\ input # <<>>
    /\ queue' = Append(queue, Head(input)) /\ input' = Tail(input)
    /\ UNCHANGED <<caller, ended, turns, trackVars, writer, replying, held, closing, done, stdin,
                   stdout, serverVars>>

\* Once the client is over an empty queue ends the loop, whatever eventInput holds.
LoopEnds ==
    /\ done /\ queue = <<>> /\ input # <<>>
    /\ input' = <<>>
    /\ UNCHANGED <<caller, ended, turns, trackVars, writer, replying, queue, held, closing, done,
                   stdin, stdout, serverVars>>

RouterTakes ==
    /\ queue # <<>> /\ queue' = Tail(queue)
    /\ held' = held \cup {Head(queue)}
    /\ UNCHANGED <<caller, ended, turns, trackVars, writer, replying, input, closing, done, stdin,
                   stdout, serverVars>>

\* The router or the user answers (RespondApproval).
Answers(r) ==
    /\ r \in held
    /\ \/ (Writes(r, Reply(r)) \/ WriteFails(r)) /\ held' = held \ {r}
       \/ Blocks(r) /\ UNCHANGED held
    /\ UNCHANGED <<caller, ended, turns, trackVars, replying, input, queue, closing, done, stdout,
                   serverVars>>

-----------------------------------------------------------------------------
\* The end of the child: Close takes writeMu before it kills; the child may also die.

CloseBegins ==
    /\ closing = "open" /\ closing' = "waits"
    /\ UNCHANGED <<caller, ended, turns, trackVars, writer, eventVars, done, stdin, stdout,
                   serverVars>>

\* What the child wrote stays in the pipe; what it had not read or answered is lost.
\* There is nothing left for a Close to do.
Dies ==
    /\ alive /\ alive' = FALSE /\ closing' = "over"
    /\ stdin' = <<>> /\ owed' = {} /\ item' = [i \in Items |-> Nothing]
    /\ UNCHANGED <<caller, ended, turns, trackVars, writer, eventVars, done, stdout, served,
                   spoken, asked>>

CloseKills == closing = "waits" /\ writer = Nothing /\ Dies

-----------------------------------------------------------------------------
\* The App Server (external): one message of its stdin at a time; answers,
\* notifications and requests in any order it likes.

Says(message) == Len(stdout) < OutputSize /\ stdout' = Append(stdout, message)

\* A turn starts, or is refused; a running turn is asked to stop; a request is answered.
ServerReads ==
    /\ alive /\ stdin # <<>> /\ stdin' = Tail(stdin)
    /\ LET m == Head(stdin) IN
       \/ /\ m.op = "start" /\ owed' = owed \cup {[id |-> m.id, ok |-> TRUE]}
          /\ served' = [served EXCEPT ![m.turn] = "running"]
          /\ stdout' = Append(stdout, [kind |-> "started", turn |-> m.turn]) /\ UNCHANGED asked
       \/ /\ m.op = "start" /\ owed' = owed \cup {[id |-> m.id, ok |-> FALSE]}
          /\ UNCHANGED <<served, asked, stdout>>
       \/ /\ m.op = "stop"
          /\ owed' = owed \cup {[id |-> m.id, ok |-> served[m.turn] = "running"]}
          /\ served' = [served EXCEPT ![m.turn] = IF @ = "running" THEN "stopping" ELSE @]
          /\ UNCHANGED <<asked, stdout>>
       \/ /\ m.op = "reply" /\ asked' = [asked EXCEPT ![m.id] = "answered"]
          /\ stdout' = IF m.id \in Elicitations
                       THEN Append(stdout, [kind |-> "resolved", request |-> m.id]) ELSE stdout
          /\ UNCHANGED <<owed, served>>
    /\ UNCHANGED <<alive, spoken, item>>

ServerResponds ==
    \E o \in owed :
        /\ owed' = owed \ {o} /\ Says([kind |-> "response", id |-> o.id, ok |-> o.ok])
        /\ UNCHANGED <<alive, served, spoken, item, asked, stdin>>

Speaks(t) ==
    /\ served[t] = "running" /\ t \notin spoken /\ spoken' = spoken \cup {t}
    /\ Says([kind |-> "message", turn |-> t])
    /\ UNCHANGED <<alive, owed, served, item, asked, stdin>>

Waiting(t) == \E r \in Requests : RequestTurn(r) = t /\ asked[r] = "asked"

Completes(t) ==
    /\ \/ served[t] = "running" /\ ~Waiting(t) /\ \A i \in Items : TurnOf[i] = t => item[i] # "running"
       \/ served[t] = "stopping"
    /\ LET status == IF served[t] = "running" THEN "completed" ELSE "interrupted" IN
       served' = [served EXCEPT ![t] = status] /\ Says([kind |-> "completed", turn |-> t, status |-> status])
    /\ UNCHANGED <<alive, owed, spoken, item, asked, stdin>>

CallsTool(i) ==
    /\ served[TurnOf[i]] = "running" /\ item[i] = Nothing
    /\ item' = [item EXCEPT ![i] = "running"] /\ Says([kind |-> "tool_started", item |-> i])
    /\ UNCHANGED <<alive, owed, served, spoken, asked, stdin>>

EndsTool(i) ==
    /\ served[TurnOf[i]] = "running" /\ item[i] = "running"
    /\ \A r \in Requests : AskedFor[r] = i => asked[r] # "asked"
    /\ item' = [item EXCEPT ![i] = "over"] /\ Says([kind |-> "tool_ended", item |-> i])
    /\ UNCHANGED <<alive, owed, served, spoken, asked, stdin>>

Asks(r) ==
    /\ served[RequestTurn(r)] = "running" /\ asked[r] = Nothing
    /\ r \in Elicitations => item[AskedFor[r]] = "running"
    /\ asked' = [asked EXCEPT ![r] = "asked"] /\ Says([kind |-> "request", request |-> r])
    /\ UNCHANGED <<alive, owed, served, spoken, item, stdin>>

ServerStep ==
    /\ alive
    /\ \/ ServerReads \/ ServerResponds
       \/ \E t \in Turns : Speaks(t) \/ Completes(t)
       \/ \E i \in Items : CallsTool(i) \/ EndsTool(i)
       \/ \E r \in Requests : Asks(r)
    /\ UNCHANGED <<caller, ended, turns, trackVars, writer, eventVars, closing, done>>

-----------------------------------------------------------------------------
Next ==
    \/ Begins \/ \E a \in Callers : CallerStep(a)
    \/ \E t \in Turns : ContextEnds(t)
    \/ ReaderStep \/ LoopTakes \/ LoopEnds \/ RouterTakes
    \/ \E r \in Requests : Answers(r)
    \/ Dies \/ ServerStep

Spec == Init /\ [][Next]_clientVars

\* The goroutines of the client run, a turn has a limit (turnTimeout), and whoever
\* called Close goes on; users and the App Server owe nothing.
ClientFairness ==
    /\ \A a \in Callers : WF_clientVars(CallerStep(a))
    /\ \A t \in Turns : WF_clientVars(ContextEnds(t))
    /\ \A r \in Requests : WF_clientVars(writer = r /\ Answers(r))
    /\ WF_clientVars(ReaderStep) /\ WF_clientVars(LoopTakes) /\ WF_clientVars(RouterTakes)

\* An App Server that reads its stdin while it lives.
ReadsInput == ServerReads /\ UNCHANGED <<caller, ended, turns, trackVars, writer, eventVars, closing, done>>

FairSpec == Spec /\ ClientFairness /\ WF_clientVars(ReadsInput)

\* With a call of Close, and an App Server that owes nothing at all.
ClosingSpec ==
    /\ Init /\ [][Next \/ CloseBegins \/ CloseKills]_clientVars
    /\ ClientFairness /\ WF_clientVars(CloseKills)

-----------------------------------------------------------------------------
\* What a turn returns is what the App Server completed it with, its final answer
\* included, in whatever order answers and notifications arrive.
TurnAnswersItsCaller ==
    \A t \in Turns : caller[t].got \in Statuses =>
        caller[t].got = served[t] /\ caller[t].text = (t \in spoken)

\* An elicitation is shown to the user with the tool call it is about, although it
\* arrives without a name for it.
OfferNamesItsCall == \A r \in Elicitations : offer[r] \subseteq {AskedFor[r]}

\* Every goroutine that asked for a turn returns: with the turn, its context or the client.
EveryTurnReturns == \A t \in Turns : caller[t].at # "idle" ~> caller[t].at = "returned"

\* Every request of the App Server is answered or reaches the router, until the client is over.
NoRequestIsDropped ==
    \A r \in Requests : asked[r] = "asked" ~> (r \in held \/ asked[r] = "answered" \/ done)

\* A caller that returned after it interrupted every live turn leaves none of its own running.
QuiescedTurnIsOver ==
    \A t \in Turns : caller[t].got = "quiesced" /\ alive =>
        \/ served[t] # "running"
        \/ \E n \in DOMAIN stdin : stdin[n].op = "stop" /\ stdin[n].turn = t

\* Close ends the child process.
CloseEndsTheChild == closing = "waits" ~> ~alive

=============================================================================
