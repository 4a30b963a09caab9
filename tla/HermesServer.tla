---------------------------- MODULE HermesServer ----------------------------
(***************************************************************************)
(* The server that hands the rows of a query to its client in chunks.      *)
(* Server threads call TestUtil::execute for one chunk of one table each.  *)
(* The first call of a query becomes its main thread and runs the query,   *)
(* whose DeltaMerge operators fill one queue per table; the other calls    *)
(* wait for chunks meanwhile.                                              *)
(*                                                                         *)
(* Each step is one critical section or one unlocked read.  A chunk is     *)
(* known by its query, its table and its number.                           *)
(***************************************************************************)
EXTENDS Integers, Sequences, FiniteSets

CONSTANTS
    Thread,     \* the server threads a client's connections occupy
    MaxQuery,   \* bound on the queries
    Workload    \* what the clients ask for and the queries deliver

Table == {"lineorder", "customer", "supplier", "part", "date"}

(* The chunks execute() expects of each table but lineorder, literals that *)
(* fit one size of the database.                                           *)
Expected == [customer |-> 3, supplier |-> 1, part |-> 8, date |-> 1]

(* tables[q]: the tables of query q; chunks[q]: how many chunks of each    *)
(* table it delivers; fails: the queries whose execution throws; asks[th]: *)
(* the tables a thread's client reads; before[t]: the tables read to the   *)
(* end before t; patient: a client reads until it gets an empty answer.    *)
ASSUME ServerAssumption ==
    /\ MaxQuery \in Nat
    /\ \A w \in Workload :
         /\ w.tables \in [1 .. MaxQuery -> SUBSET Table]
         /\ w.chunks \in [1 .. MaxQuery -> [Table -> Nat]]
         /\ w.fails \in SUBSET (1 .. MaxQuery)
         /\ w.asks \in [Thread -> SUBSET Table]
         /\ w.before \in [Table -> SUBSET Table]
         /\ w.patient \in BOOLEAN

VARIABLES
    work,          \* the workload, which stays
    query,         \* queryCounter of the client's query, 0: none yet
    closed,        \* the tables of the query the client has read to the end
    pc,            \* where each thread is in execute()
    table,         \* tableName of each thread's call
    runningQuery,  \* runningQuery_
    done,          \* done_
    batchesSeen,   \* batchesSeen_ (lineorder's is never counted)
    queue,         \* the batch queues
    left,          \* the chunks the running query has not pushed yet
    handed         \* history: the chunks handed out, and to which call

clientVars == <<work, query, closed>>
vars == <<clientVars, pc, table, runningQuery, done, batchesSeen, queue, left, handed>>

Chunk == [query : 1 .. MaxQuery, table : Table, number : Nat]

(* "main" runs the query, "taking" has seen that its queue is not empty,   *)
(* "locking" is at the mutex of its table, "asleep" waits to be notified;  *)
(* "crashed" stands for the front() of an empty queue.                     *)
Places == {"idle", "called", "main", "ran", "taking", "testing", "locking",
           "asleep", "crashed"}

(* The one type invariant.                                                 *)
TypeOK ==
    /\ work \in Workload
    /\ query \in 0 .. MaxQuery /\ closed \in SUBSET Table
    /\ pc \in [Thread -> Places]
    /\ table \in [Thread -> Table]
    /\ runningQuery \in 0 .. query
    /\ done \in BOOLEAN
    /\ batchesSeen \in [Table -> Nat]
    /\ queue \in [Table -> Seq(Chunk)]
    /\ left \in [Table -> Nat]
    /\ handed \in SUBSET [chunk : Chunk, query : 1 .. MaxQuery, table : Table]

Init ==
    /\ work \in Workload
    /\ query = 0 /\ closed = {}
    /\ pc = [th \in Thread |-> "idle"]
    /\ table = [th \in Thread |-> "lineorder"]
    /\ runningQuery = 0 /\ done = FALSE
    /\ batchesSeen = [t \in Table |-> 0]
    /\ queue = [t \in Table |-> <<>>]
    /\ left = [t \in Table |-> 0]
    /\ handed = {}

Goto(th, place) == pc' = [pc EXCEPT ![th] = place]

-----------------------------------------------------------------------------
(* The client (external): it asks for chunks of the tables of its query    *)
(* and gives up a query that failed.                                       *)

NextQuery ==
    /\ query < MaxQuery
    /\ \A th \in Thread : pc[th] = "idle"
    /\ query > 0 /\ work.patient => closed = work.tables[query]
    /\ query' = query + 1
    /\ closed' = {}
    /\ UNCHANGED <<work, pc, table, runningQuery, done, batchesSeen, queue, left, handed>>

Request(th, t) ==
    /\ query > 0
    /\ pc[th] = "idle"
    /\ t \in work.asks[th] \cap (work.tables[query] \ closed)
    /\ work.before[t] \cap work.tables[query] \subseteq closed
    /\ table' = [table EXCEPT ![th] = t]
    /\ Goto(th, "called")
    /\ UNCHANGED <<clientVars, runningQuery, done, batchesSeen, queue, left, handed>>

AnswerEmpty(th) ==
    /\ Goto(th, "idle")
    /\ closed' = closed \cup {table[th]}

(* The front chunk leaves the queue and is the answer.                     *)
AnswerFront(th) ==
    LET t == table[th]
    IN  /\ Goto(th, "idle")
        /\ queue' = [queue EXCEPT ![t] = Tail(@)]
        /\ batchesSeen' = IF t = "lineorder" THEN batchesSeen
                          ELSE [batchesSeen EXCEPT ![t] = @ + 1]
        /\ handed' = handed \cup {[chunk |-> Head(queue[t]), query |-> query, table |-> t]}

-----------------------------------------------------------------------------
(* condition(): the first call of a new query.  Five swaps with one and    *)
(* the same local queue exchange the contents instead of clearing them.    *)

Swapped ==
    [queue EXCEPT !["lineorder"] = <<>>,
                  !["customer"] = queue["supplier"],
                  !["supplier"] = queue["customer"],
                  !["date"] = queue["lineorder"]]

(* Mutant: the counters of the last query stay.                            *)
ConditionKeepsSeen(th) ==
    /\ pc[th] = "called"
    /\ IF runningQuery # query
       THEN /\ runningQuery' = query
            /\ done' = FALSE
            /\ queue' = Swapped
            /\ left' = work.chunks[query]
            /\ Goto(th, "main")
       ELSE /\ Goto(th, "testing")
            /\ UNCHANGED <<runningQuery, done, queue, left>>
    /\ UNCHANGED <<clientVars, table, batchesSeen, handed>>

Condition(th) ==
    /\ pc[th] = "called"
    /\ IF runningQuery # query
       THEN /\ runningQuery' = query
            /\ done' = FALSE
            /\ queue' = Swapped
            /\ batchesSeen' = [t \in Table |-> 0]
            /\ left' = work.chunks[query]
            /\ Goto(th, "main")
       ELSE /\ Goto(th, "testing")
            /\ UNCHANGED <<runningQuery, done, batchesSeen, queue, left>>
    /\ UNCHANGED <<clientVars, table, handed>>

-----------------------------------------------------------------------------
(* The main thread.                                                        *)

Main == {th \in Thread : pc[th] = "main"}
Asleep(t) == {th \in Thread : pc[th] = "asleep" /\ table[th] = t}

NextChunk(t) == [query |-> runningQuery, table |-> t, number |-> left[t]]

(* Mutant: the waiting threads are not notified.                           *)
PushSilently(t) ==
    /\ Main # {}
    /\ left[t] > 0
    /\ queue' = [queue EXCEPT ![t] = Append(@, NextChunk(t))]
    /\ left' = [left EXCEPT ![t] = @ - 1]
    /\ UNCHANGED <<clientVars, pc, table, runningQuery, done, batchesSeen, handed>>

(* Mutant: a merge pushes one chunk more than it has rows for.             *)
PushOneMore(t) ==
    /\ Main # {}
    /\ queue' = [queue EXCEPT ![t] = Append(@, NextChunk(t))]
    /\ left' = [left EXCEPT ![t] = @ - 1]
    /\ IF Asleep(t) = {} THEN UNCHANGED pc
       ELSE \E th \in Asleep(t) : Goto(th, "locking")
    /\ UNCHANGED <<clientVars, table, runningQuery, done, batchesSeen, handed>>

(* Mutant: there is no branch for part, its chunks are taken for date's.   *)
PushPartAsDate(t) ==
    LET to == IF t = "part" THEN "date" ELSE t
    IN  /\ Main # {}
        /\ left[t] > 0
        /\ queue' = [queue EXCEPT ![to] = Append(@, NextChunk(t))]
        /\ left' = [left EXCEPT ![t] = @ - 1]
        /\ IF Asleep(to) = {} THEN UNCHANGED pc
           ELSE \E th \in Asleep(to) : Goto(th, "locking")
        /\ UNCHANGED <<clientVars, table, runningQuery, done, batchesSeen, handed>>

(* DeltaMergePOp::addToQueueAndNotify while the query runs: one of the     *)
(* threads that wait for the table is woken.                               *)
Push(t) ==
    /\ Main # {}
    /\ left[t] > 0
    /\ queue' = [queue EXCEPT ![t] = Append(@, NextChunk(t))]
    /\ left' = [left EXCEPT ![t] = @ - 1]
    /\ IF Asleep(t) = {} THEN UNCHANGED pc
       ELSE \E th \in Asleep(t) : Goto(th, "locking")
    /\ UNCHANGED <<clientVars, table, runningQuery, done, batchesSeen, handed>>

(* executeQuery returns, setDone(true).                                    *)
QueryDone(th) ==
    /\ pc[th] = "main"
    /\ query \notin work.fails
    /\ \A t \in Table : left[t] = 0
    /\ done' = TRUE
    /\ Goto(th, "ran")
    /\ UNCHANGED <<clientVars, table, runningQuery, batchesSeen, queue, left, handed>>

(* executeQuery throws: the client gets an error, done_ stays false.       *)
QueryFails(th) ==
    /\ pc[th] = "main"
    /\ query \in work.fails
    /\ left' = [t \in Table |-> 0]
    /\ Goto(th, "idle")
    /\ closed' = work.tables[query]
    /\ UNCHANGED <<work, query, table, runningQuery, done, batchesSeen, queue, handed>>

(* Mutant: the main thread takes a chunk without looking.                  *)
MainTestNever(th) ==
    /\ pc[th] = "ran"
    /\ Goto(th, "taking")
    /\ UNCHANGED <<clientVars, table, runningQuery, done, batchesSeen, queue, left, handed>>

(* The main thread's own chunk: it looks at the queue without the lock ... *)
MainTest(th) ==
    /\ pc[th] = "ran"
    /\ IF queue[table[th]] = <<>>
       THEN AnswerEmpty(th)
       ELSE Goto(th, "taking") /\ UNCHANGED closed
    /\ UNCHANGED <<work, query, table, runningQuery, done, batchesSeen, queue, left, handed>>

(* ... and then takes the front, whatever happened in between.             *)
MainTake(th) ==
    /\ pc[th] = "taking"
    /\ IF queue[table[th]] = <<>>
       THEN /\ Goto(th, "crashed")
            /\ UNCHANGED <<batchesSeen, queue, handed>>
       ELSE AnswerFront(th)
    /\ UNCHANGED <<clientVars, table, runningQuery, done, left>>

-----------------------------------------------------------------------------
(* The other threads.                                                      *)

(* Whether no more chunks of the table are to come.                        *)
AllSeen(t) == IF t = "lineorder" THEN done ELSE batchesSeen[t] = Expected[t]

(* The table is read to the end, or the thread goes for the lock: an       *)
(* unlocked look at the flag or counter and at the queue.                  *)
ThreadTest(th) ==
    /\ pc[th] = "testing"
    /\ IF AllSeen(table[th]) /\ queue[table[th]] = <<>>
       THEN AnswerEmpty(th)
       ELSE Goto(th, "locking") /\ UNCHANGED closed
    /\ UNCHANGED <<work, query, table, runningQuery, done, batchesSeen, queue, left, handed>>

(* Mutant: the front is copied and stays in the queue.                     *)
ThreadTakeCopies(th) ==
    /\ pc[th] = "locking"
    /\ IF queue[table[th]] = <<>>
       THEN Goto(th, "asleep") /\ UNCHANGED <<batchesSeen, handed>>
       ELSE /\ Goto(th, "idle")
            /\ batchesSeen' = [batchesSeen EXCEPT ![table[th]] = @ + 1]
            /\ handed' = handed \cup {[chunk |-> Head(queue[table[th]]), query |-> query, table |-> table[th]]}
    /\ UNCHANGED <<clientVars, table, runningQuery, done, queue, left>>

(* wait(lock, not empty): sleeps, without a time limit, or takes the front.*)
ThreadTake(th) ==
    /\ pc[th] = "locking"
    /\ IF queue[table[th]] = <<>>
       THEN /\ Goto(th, "asleep")
            /\ UNCHANGED <<batchesSeen, queue, handed>>
       ELSE AnswerFront(th)
    /\ UNCHANGED <<clientVars, table, runningQuery, done, left>>

ThreadStep(th) ==
    \/ Condition(th) \/ QueryDone(th) \/ QueryFails(th)
    \/ MainTest(th) \/ MainTake(th) \/ ThreadTest(th) \/ ThreadTake(th)

Next ==
    \/ NextQuery
    \/ \E th \in Thread : ThreadStep(th) \/ \E t \in Table : Request(th, t)
    \/ \E t \in Table : Push(t)

(* The operating system runs every thread, and a query ends.  The client   *)
(* is free to stop asking.                                                 *)
Spec ==
    /\ Init /\ [][Next]_vars
    /\ \A th \in Thread : WF_vars(ThreadStep(th))
    /\ \A t \in Table : WF_vars(Push(t))

-----------------------------------------------------------------------------
(* What the server promises.                                               *)

(* A chunk goes to a call for its own query and its own table: nothing of  *)
(* an earlier query or of another table is left in a queue.                *)
OwnChunks == \A h \in handed : h.chunk.query = h.query /\ h.chunk.table = h.table

(* A chunk that was handed out is in no queue any more and is in one queue *)
(* once, however the threads of several tables and the merge interleave.   *)
HandedOutOnce ==
    \A t \in Table : \A i \in DOMAIN queue[t] :
        /\ \A h \in handed : queue[t][i] # h.chunk
        /\ \A u \in Table : \A j \in DOMAIN queue[u] :
             queue[t][i] = queue[u][j] => t = u /\ i = j

(* An empty answer means that the table is read to the end: every chunk    *)
(* the query delivers for it has been handed out, although the answer      *)
(* depends on a flag or a counter that is read without a lock.             *)
EmptyMeansAll ==
    query > 0 /\ query \notin work.fails =>
        \A t \in closed :
            Cardinality({h \in handed : h.query = query /\ h.table = t}) = work.chunks[query][t]

(* The main thread finds the chunk it saw when it looked at the queue.     *)
NeverCrashes == \A th \in Thread : pc[th] # "crashed"

(* Every call is answered, with a chunk or with the empty table: no thread *)
(* waits for a chunk that never comes.                                     *)
EveryCallAnswered ==
    \A th \in Thread : pc[th] # "idle" ~> pc[th] \in {"idle", "crashed"}
=============================================================================
