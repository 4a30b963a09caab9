---------------------------- MODULE POpProtocol ----------------------------
(***************************************************************************)
(* The protocol by which a query runs: the root actor of an Execution      *)
(* connects and starts one POpActor per physical operator, the operators   *)
(* exchange TUPLE and COMPLETE messages along the edges of the plan, and   *)
(* the root joins when every operator has reported its completion.         *)
(*                                                                         *)
(* Messages travel over one FIFO channel per ordered pair of actors.  This *)
(* covers both deployments: local mailboxes (every channel of a receiver   *)
(* merged in the order of sending) and operators spawned on other nodes    *)
(* (only the order between two actors is kept).                            *)
(***************************************************************************)
EXTENDS Naturals, Sequences, FiniteSets

CONSTANTS
    Op,          \* the physical operators of the plan
    Root,        \* the root actor of the Execution
    Consumers,   \* Consumers[o]: the operators o produces to
    Kind,        \* Kind[o]: which onReceive the operator runs
    MaxBatches   \* bound on the batches one scan reads

Node == Op \cup {Root}

(* A scan reads its object when started and ignores everything else; a     *)
(* cacheHandler answers the load request of its deltaMerge; a deltaMerge   *)
(* merges stable batches with deltas; a pipe tells on a tuple and          *)
(* completes when its producers have, as merge, collate, project,          *)
(* aggregate, group, sort and the joins do.                                *)
Kinds == {"scan", "cacheHandler", "deltaMerge", "pipe"}

Producers(o) == {p \in Op : o \in Consumers[p]}

ASSUME PlanAssumption ==
    /\ Root \notin Op
    /\ Consumers \in [Op -> SUBSET Op]
    /\ Kind \in [Op -> Kinds]
    /\ MaxBatches \in Nat
    /\ \A o \in Op : o \notin Consumers[o]
    /\ \A o \in Op : \A p \in Consumers[o] : o \notin Consumers[p]
    /\ \A o \in Op : Kind[o] \in {"scan", "cacheHandler"} => Producers(o) = {}

(* DeltaMerge asks the one cacheHandler among its producers, and that      *)
(* handler serves it alone.                                                *)
ASSUME HandlerAssumption ==
    /\ \A o \in Op : Kind[o] = "deltaMerge" =>
           \E h \in Producers(o) : {p \in Producers(o) : Kind[p] = "cacheHandler"} = {h}
    /\ \A h \in Op : Kind[h] = "cacheHandler" =>
           \E o \in Op : Kind[o] = "deltaMerge" /\ Consumers[h] = {o}

CacheHandlerOf(o) == CHOOSE h \in Producers(o) : Kind[h] = "cacheHandler"

VARIABLES
    chan,       \* chan[s][d]: messages sent by s and not yet taken by d
    status,     \* running_ of each actor, and whether it scans or has left
    buffer,     \* buffer_: messages that arrived before START
    entries,    \* operatorMap_: the connections a CONNECT message brought
    done,       \* the entries of operatorMap_ marked complete
    complete,   \* complete_ of each operator's context
    batches,    \* batches a scan has told so far
    root,       \* where the root actor is in execute()
    rootDone    \* the operators opDirectory_ holds as complete

vars == <<chan, status, buffer, entries, done, complete, batches, root, rootDone>>

MsgType == {"CONNECT", "START", "TUPLE", "COMPLETE", "LOAD_REQUEST",
            "LOAD_RESPONSE", "ERROR", "EXIT"}

Statuses == {"idle", "scanning", "running", "failed", "exited"}

(* The only type invariant: every message, status and directory entry is   *)
(* one the code can hold.                                                  *)
TypeOK ==
    /\ chan \in [Node -> [Node -> Seq(MsgType)]]
    /\ status \in [Op -> Statuses]
    /\ buffer \in [Op -> Seq([src : Op, type : MsgType])]
    /\ entries \in [Op -> SUBSET Op]
    /\ done \in [Op -> SUBSET Op]
    /\ complete \in [Op -> BOOLEAN]
    /\ batches \in [Op -> 0 .. MaxBatches]
    /\ root \in {"boot", "join", "joined", "failed", "closed"}
    /\ rootDone \in SUBSET Op

(* Execution::boot: every operator is in opDirectory_ and has an actor,    *)
(* none is connected, running or complete.                                 *)
Init ==
    /\ chan = [s \in Node |-> [d \in Node |-> <<>>]]
    /\ status = [o \in Op |-> "idle"]
    /\ buffer = [o \in Op |-> <<>>]
    /\ entries = [o \in Op |-> {}]
    /\ done = [o \in Op |-> {}]
    /\ complete = [o \in Op |-> FALSE]
    /\ batches = [o \in Op |-> 0]
    /\ root = "boot"
    /\ rootDone = {}

-----------------------------------------------------------------------------
(* Sending.  c is the state of the channels after the message being        *)
(* handled has been taken off.                                             *)

Take(s, d) == [chan EXCEPT ![s][d] = Tail(@)]

(* POpContext::tell, notifyComplete and notifyError put together: msgs go  *)
(* to every consumer, toRoot to the root actor.                            *)
Deliver(c, o, msgs, toRoot) ==
    [c EXCEPT ![o] = [d \in Node |-> IF d \in Consumers[o] THEN @[d] \o msgs
                                     ELSE IF d = Root THEN @[d] \o toRoot
                                     ELSE @[d]]]

SendTo(c, o, d, m) == [c EXCEPT ![o][d] = Append(@, m)]

(* What one handler tells its consumers: a batch (several told in a row    *)
(* count as one), or nothing.                                              *)
Output == {<<>>, <<"TUPLE">>}

(* Telling after completion also sends the root an error, and still tells. *)
Tell(c, o, out) ==
    chan' = Deliver(c, o, out, IF complete[o] /\ out # <<>> THEN <<"ERROR">> ELSE <<>>)

(* The consumers learn of the completion after the last output, the root   *)
(* too; completing twice sends the root an error first.                    *)
NotifyComplete(c, o, out) ==
    /\ chan' = Deliver(c, o, out \o <<"COMPLETE">>,
                       IF complete[o] THEN <<"ERROR", "COMPLETE">> ELSE <<"COMPLETE">>)
    /\ complete' = [complete EXCEPT ![o] = TRUE]

NotifyError(c, o) == chan' = SendTo(c, o, Root, "ERROR")

-----------------------------------------------------------------------------
(* The handlers of a running operator.                                     *)

(* Mutant: the comparison of the two counters is off by one.               *)
AllButOneComplete(o, d) == Cardinality((entries[o] \cap Producers(o)) \ d) <= 1

(* LocalPOpDirectory::allComplete(Producer): the two counters count the    *)
(* producer entries and the complete ones among them.                      *)
AllComplete(o, d) == entries[o] \cap Producers(o) \subseteq d

(* A tuple is forwarded, or kept (buffered, filtered out, still unpaired). *)
OnTuple(c, o) ==
    /\ \E out \in Output : Tell(c, o, out)
    /\ UNCHANGED <<done, complete>>

(* POpActor marks the producer complete, then the operator's onComplete    *)
(* flushes what it kept and completes once all producers have.             *)
OnComplete(c, o, s) ==
    IF s \notin entries[o] \/ s \in done[o]
    THEN /\ NotifyError(c, o)
         /\ UNCHANGED <<done, complete>>
    ELSE /\ done' = [done EXCEPT ![o] = @ \cup {s}]
         /\ IF ~complete[o] /\ AllComplete(o, done[o] \cup {s})
            THEN \E out \in Output : NotifyComplete(c, o, out)
            ELSE chan' = c /\ UNCHANGED complete

(* CacheHandlerPOp asks the DeltaCache actor; the answer comes back as a   *)
(* message the handler sends to itself.                                    *)
OnLoadRequest(c, o) ==
    /\ chan' = SendTo(c, o, o, "LOAD_RESPONSE")
    /\ UNCHANGED <<done, complete>>

(* Mutant: DeltaMerge completes with the deltas, whether or not the stable *)
(* scan has.                                                               *)
OnLoadResponseCompletes(c, o) ==
    /\ Kind[o] \in {"cacheHandler", "deltaMerge"}
    /\ NotifyComplete(c, o, IF Kind[o] = "cacheHandler" THEN <<"LOAD_RESPONSE">> ELSE <<"TUPLE">>)
    /\ UNCHANGED done

(* The handler passes the deltas on to its DeltaMerge and completes;       *)
(* DeltaMerge merges a batch that came early, if there is one.             *)
OnLoadResponse(c, o) ==
    /\ \/ /\ Kind[o] = "cacheHandler"
          /\ NotifyComplete(c, o, <<"LOAD_RESPONSE">>)
       \/ /\ Kind[o] = "deltaMerge"
          /\ \E out \in Output : Tell(c, o, out)
          /\ UNCHANGED complete
    /\ UNCHANGED done

Handle(c, o, s, m) ==
    \/ m = "TUPLE" /\ OnTuple(c, o)
    \/ m = "COMPLETE" /\ OnComplete(c, o, s)
    \/ m = "LOAD_REQUEST" /\ OnLoadRequest(c, o)
    \/ m = "LOAD_RESPONSE" /\ OnLoadResponse(c, o)

-----------------------------------------------------------------------------
(* The steps of an operator's actor.                                       *)

RootSays(o, m) == chan[Root][o] # <<>> /\ Head(chan[Root][o]) = m

(* CONNECT fills the local directory, running or not; a name that is both  *)
(* a producer and a consumer is a duplicate entry.                         *)
RecvConnect(o) ==
    /\ status[o] \in {"idle", "running"}
    /\ RootSays(o, "CONNECT")
    /\ entries' = [entries EXCEPT ![o] = @ \cup Producers(o) \cup Consumers[o]]
    /\ IF Producers(o) \cap Consumers[o] # {}
       THEN NotifyError(Take(Root, o), o)
       ELSE chan' = Take(Root, o)
    /\ UNCHANGED <<status, buffer, done, complete, batches, root, rootDone>>

(* START runs onStart: a scan begins to read, DeltaMerge requests deltas.  *)
RecvStart(o) ==
    /\ status[o] = "idle"
    /\ RootSays(o, "START")
    /\ status' = [status EXCEPT ![o] = IF Kind[o] = "scan" THEN "scanning" ELSE "running"]
    /\ chan' = IF Kind[o] = "deltaMerge"
               THEN SendTo(Take(Root, o), o, CacheHandlerOf(o), "LOAD_REQUEST")
               ELSE Take(Root, o)
    /\ UNCHANGED <<buffer, entries, done, complete, batches, root, rootDone>>

(* Mutant: a scan reads past its last batch.                               *)
ScanBatchPastEnd(o) ==
    /\ status[o] = "scanning"
    /\ batches[o] <= MaxBatches
    /\ batches' = [batches EXCEPT ![o] = @ + 1]
    /\ Tell(chan, o, <<"TUPLE">>)
    /\ UNCHANGED <<status, buffer, entries, done, complete, root, rootDone>>

(* readAndSendTuples: one batch is told, ...                               *)
ScanBatch(o) ==
    /\ status[o] = "scanning"
    /\ batches[o] < MaxBatches
    /\ batches' = [batches EXCEPT ![o] = @ + 1]
    /\ Tell(chan, o, <<"TUPLE">>)
    /\ UNCHANGED <<status, buffer, entries, done, complete, root, rootDone>>

(* Mutant: the read loop is left without returning from onStart, so that   *)
(* the scan completes again.                                               *)
ScanDoneAgain(o) ==
    /\ status[o] = "scanning"
    /\ NotifyComplete(chan, o, <<>>)
    /\ UNCHANGED <<status, buffer, entries, done, batches, root, rootDone>>

(* ... the object is exhausted and the scan completes, ...                 *)
ScanDone(o) ==
    /\ status[o] = "scanning"
    /\ status' = [status EXCEPT ![o] = "running"]
    /\ NotifyComplete(chan, o, <<>>)
    /\ UNCHANGED <<buffer, entries, done, batches, root, rootDone>>

(* ... or the retries are used up: the error is reported and the actor's   *)
(* handles are destroyed, so that nothing the retry loop goes on to do     *)
(* reaches anyone.                                                         *)
ScanError(o) ==
    /\ status[o] = "scanning"
    /\ status' = [status EXCEPT ![o] = "failed"]
    /\ NotifyError(chan, o)
    /\ UNCHANGED <<buffer, entries, done, complete, batches, root, rootDone>>

(* Mutant: a message that comes before START is dropped.                   *)
DropEarly(s, o) ==
    /\ status[o] = "idle"
    /\ chan[s][o] # <<>>
    /\ chan' = Take(s, o)
    /\ UNCHANGED <<status, buffer, entries, done, complete, batches, root, rootDone>>

(* A message that comes before START is kept in buffer_.                   *)
Buffer(s, o) ==
    /\ status[o] = "idle"
    /\ chan[s][o] # <<>>
    /\ buffer' = [buffer EXCEPT ![o] = Append(@, [src |-> s, type |-> Head(chan[s][o])])]
    /\ chan' = Take(s, o)
    /\ UNCHANGED <<status, entries, done, complete, batches, root, rootDone>>

(* START's handler empties buffer_ in order before the actor takes another *)
(* message; what each buffered message sends is visible at once.           *)
Drain(o) ==
    /\ status[o] = "running"
    /\ buffer[o] # <<>>
    /\ Handle(chan, o, Head(buffer[o]).src, Head(buffer[o]).type)
    /\ buffer' = [buffer EXCEPT ![o] = Tail(@)]
    /\ UNCHANGED <<status, entries, batches, root, rootDone>>

Receive(s, o) ==
    /\ status[o] = "running"
    /\ buffer[o] = <<>>
    /\ chan[s][o] # <<>>
    /\ Handle(Take(s, o), o, s, Head(chan[s][o]))
    /\ UNCHANGED <<status, buffer, entries, batches, root, rootDone>>

(* The exit message of close() ends the actor between two handlers; it may *)
(* overtake other messages, which are then never handled.                  *)
RecvExit(o) ==
    /\ \/ status[o] = "idle"
       \/ status[o] = "running" /\ buffer[o] = <<>>
    /\ \E i \in 1 .. Len(chan[Root][o]) : chan[Root][o][i] = "EXIT"
    /\ status' = [status EXCEPT ![o] = "exited"]
    /\ UNCHANGED <<chan, buffer, entries, done, complete, batches, root, rootDone>>

-----------------------------------------------------------------------------
(* The steps of the root actor.                                            *)

(* Execution::start: CONNECT to all the operators, then START to all.      *)
ExecutionStart ==
    /\ root = "boot"
    /\ root' = "join"
    /\ chan' = [chan EXCEPT ![Root] =
                  [d \in Node |-> IF d \in Op THEN <<"CONNECT", "START">> ELSE <<>>]]
    /\ UNCHANGED <<status, buffer, entries, done, complete, batches, rootDone>>

SendExit(c) == [c EXCEPT ![Root] = [d \in Node |-> IF d \in Op THEN Append(@[d], "EXIT") ELSE @[d]]]

(* Mutant: the directory's two counters are compared off by one.           *)
JoinCompleteEarly(s) ==
    /\ root = "join"
    /\ chan[s][Root] # <<>>
    /\ Head(chan[s][Root]) = "COMPLETE"
    /\ rootDone' = rootDone \cup {s}
    /\ root' = IF Cardinality(Op \ rootDone') <= 1 THEN "joined" ELSE "join"
    /\ chan' = Take(s, Root)
    /\ UNCHANGED <<status, buffer, entries, done, complete, batches>>

(* Execution::join on COMPLETE: the directory counts the operator, or      *)
(* refuses a second completion and the query fails.                        *)
JoinComplete(s) ==
    /\ root = "join"
    /\ chan[s][Root] # <<>>
    /\ Head(chan[s][Root]) = "COMPLETE"
    /\ IF s \in rootDone
       THEN /\ root' = "failed"
            /\ chan' = SendExit(Take(s, Root))
            /\ UNCHANGED rootDone
       ELSE /\ rootDone' = rootDone \cup {s}
            /\ root' = IF rootDone' = Op THEN "joined" ELSE "join"
            /\ chan' = Take(s, Root)
    /\ UNCHANGED <<status, buffer, entries, done, complete, batches>>

(* Execution::join on ERROR: close() and throw.                            *)
JoinError(s) ==
    /\ root = "join"
    /\ chan[s][Root] # <<>>
    /\ Head(chan[s][Root]) = "ERROR"
    /\ root' = "failed"
    /\ chan' = SendExit(Take(s, Root))
    /\ UNCHANGED <<status, buffer, entries, done, complete, batches, rootDone>>

(* execute() has returned; the destructor closes the execution.            *)
Close ==
    /\ root = "joined"
    /\ root' = "closed"
    /\ chan' = SendExit(chan)
    /\ UNCHANGED <<status, buffer, entries, done, complete, batches, rootDone>>

(* Nothing is left to do: the query is over and every actor that is not    *)
(* caught in its retry loop has left.                                      *)
Finished ==
    /\ root \in {"failed", "closed"}
    /\ \A o \in Op : status[o] \in {"failed", "exited"}
    /\ UNCHANGED vars

OpStep(o) ==
    \/ RecvConnect(o) \/ RecvStart(o) \/ RecvExit(o)
    \/ ScanBatch(o) \/ ScanDone(o) \/ ScanError(o)
    \/ Drain(o)
    \/ \E s \in Op : Buffer(s, o) \/ Receive(s, o)

RootStep == ExecutionStart \/ Close \/ \E s \in Op : JoinComplete(s) \/ JoinError(s)

Next == RootStep \/ (\E o \in Op : OpStep(o)) \/ Finished

(* CAF runs every actor whose mailbox is not empty, whichever sender the   *)
(* message is from; a scan's loop makes progress until it stops.           *)
Fairness ==
    /\ WF_vars(ExecutionStart) /\ WF_vars(Close)
    /\ \A o \in Op :
         /\ WF_vars(RecvConnect(o)) /\ WF_vars(RecvStart(o)) /\ WF_vars(RecvExit(o))
         /\ WF_vars(ScanBatch(o) \/ ScanDone(o) \/ ScanError(o))
         /\ WF_vars(Drain(o))
         /\ WF_vars(JoinComplete(o) \/ JoinError(o))
         /\ \A s \in Op : WF_vars(Buffer(s, o)) /\ WF_vars(Receive(s, o))

Spec == Init /\ [][Next]_vars
FairSpec == Spec /\ Fairness

-----------------------------------------------------------------------------
(* What one execution promises.                                            *)

(* An operator completes only when it has been connected, each of its      *)
(* producers has completed, and nothing any of them sent is still under    *)
(* way or in buffer_: no batch reaches an operator after its onComplete    *)
(* (POpContext::tell would then report "operator is complete").            *)
CompleteAfterDrain ==
    \A o \in Op : complete[o] =>
        \A p \in Producers(o) :
            /\ complete[p]
            /\ chan[p][o] = <<>>
            /\ \A i \in 1 .. Len(buffer[o]) : buffer[o][i].src # p

(* When Execution::join returns, every operator has completed and no       *)
(* message between operators is unhandled: the exit messages of close()    *)
(* cannot cut a batch, a completion or a delta request off.                *)
JoinLosesNothing ==
    root \in {"joined", "closed"} =>
        \A o \in Op :
            /\ complete[o]
            /\ buffer[o] = <<>>
            /\ \A d \in Op : chan[o][d] = <<>>

(* The errors POpContext and the two directories guard against (telling or *)
(* completing after completion, an unknown or twice completed entry) never *)
(* arise: only a scan that gave up sends the root an ERROR.                *)
OnlyScansReportErrors ==
    \A o \in Op :
        (\E i \in 1 .. Len(chan[o][Root]) : chan[o][Root][i] = "ERROR") => status[o] = "failed"

(* Execution::execute always returns or throws, and then every actor that  *)
(* is not caught in a retry loop leaves: no cycle of operators waiting for *)
(* one another (DeltaMerge and its cache handler talk both ways), and no   *)
(* completion lost in the buffering before START.                          *)
ExecuteEnds ==
    <>[](/\ root \in {"failed", "closed"}
         /\ \A o \in Op : status[o] \in {"failed", "exited"})

(* The execution implements the abstract lifecycle of a query.             *)
Abstract == INSTANCE QueryLifecycle WITH
    finished <- {o \in Op : complete[o]},
    outcome <- CASE root \in {"boot", "join"} -> "running"
                 [] root \in {"joined", "closed"} -> "returned"
                 [] root = "failed" -> "threw"

(* Every step completes one operator whose producers have completed, ends  *)
(* the query (returning only when all the operators have), or stutters.    *)
ImplementsLifecycle == Abstract!Spec
=============================================================================
