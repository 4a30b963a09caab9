------------------------- MODULE HermesServerProofs -------------------------
(***************************************************************************)
(* Proofs about HermesServer: every chunk of a query is handed out once,   *)
(* to a call for its query and its table, and the server does not crash,   *)
(* when every table is read to the end by one connection.                  *)
(***************************************************************************)
EXTENDS HermesServer, FiniteSetTheorems, TLAPS

(* The workloads the promises hold for: a client reads every table of its  *)
(* query to the end and each through one connection, and a query delivers, *)
(* for the tables it reads, the chunks execute() expects.                  *)
Discipline ==
    \A w \in Workload :
        /\ w.patient
        /\ \A th, ot \in Thread : th # ot => w.asks[th] \cap w.asks[ot] = {}
        /\ \A q \in 1 .. MaxQuery, t \in Table :
             /\ q \in w.fails \/ t \notin w.tables[q] => w.chunks[q][t] = 0
             /\ t # "lineorder" => w.chunks[q][t] \in {0, Expected[t]}

(* The chunks of a table that the running query still has to hand out.     *)
Rest(t) == left[t] + Len(queue[t])

(* A thread that is in a call works for the client's query, on a table it  *)
(* asks for; past condition() that query is the running one.               *)
CallsInv ==
    /\ runningQuery <= query
    /\ \A th \in Thread :
         /\ pc[th] # "idle" => query > 0 /\ table[th] \in work.asks[th]
         /\ pc[th] \notin {"idle", "called"} => runningQuery = query

(* Before the first call of a query everything of the last one is gone.    *)
CleanStart ==
    runningQuery # query \/ query = 0 =>
        closed = {} /\ \A t \in Table : left[t] = 0 /\ queue[t] = <<>>

(* The chunks of a table are numbered downwards: those of the running      *)
(* query that are neither pushed nor handed out are in the queue, ...      *)
QueueInv ==
    \A t \in Table : \A i \in DOMAIN queue[t] :
        queue[t][i] = [query |-> query, table |-> t, number |-> Rest(t) + 1 - i]

(* ... and those above them have been handed out, each to its own query.   *)
Answer(q, t, n) ==
    [chunk |-> [query |-> q, table |-> t, number |-> n], query |-> q, table |-> t]

HandedInv ==
    /\ \A h \in handed : h = Answer(h.query, h.table, h.chunk.number) /\ h.query <= runningQuery
    /\ runningQuery = query /\ query > 0 => \A t \in Table :
         /\ Rest(t) <= work.chunks[query][t]
         /\ \A n \in Nat : Answer(query, t, n) \in handed <=> n \in Rest(t) + 1 .. work.chunks[query][t]

(* The counter of a table counts them.                                     *)
SeenInv ==
    runningQuery = query /\ query > 0 => \A t \in Table \ {"lineorder"} :
        batchesSeen[t] = work.chunks[query][t] - Rest(t)

(* The flag and an empty answer are right.                                 *)
EndInv ==
    /\ done => \A t \in Table : left[t] = 0
    /\ \A t \in closed : Rest(t) = 0
    /\ \A th \in Thread : pc[th] \in {"ran", "taking"} => done

(* Nobody takes the chunk the main thread has seen.                        *)
TakeInv ==
    \A th \in Thread :
        /\ pc[th] # "crashed"
        /\ pc[th] = "taking" => queue[table[th]] # <<>>

ServerInv == CallsInv /\ CleanStart /\ QueueInv /\ HandedInv /\ SeenInv /\ EndInv /\ TakeInv

-----------------------------------------------------------------------------
(* Types, for every workload.                                              *)

(* What the workload of a state is.                                        *)
LEMMA WorkType ==
    ASSUME TypeOK
    PROVE  /\ MaxQuery \in Nat
           /\ work.tables \in [1 .. MaxQuery -> SUBSET Table]
           /\ work.chunks \in [1 .. MaxQuery -> [Table -> Nat]]
           /\ work.asks \in [Thread -> SUBSET Table]
BY ServerAssumption DEF TypeOK

(* The tail of a queue.                                                    *)
LEMMA TailOf ==
    ASSUME NEW S, NEW s \in Seq(S), s # <<>>
    PROVE  /\ Head(s) = s[1] /\ s[1] \in S
           /\ Tail(s) \in Seq(S) /\ Len(s) \in Nat /\ Len(s) >= 1 /\ Len(Tail(s)) = Len(s) - 1
           /\ DOMAIN Tail(s) = 1 .. Len(s) - 1
           /\ \A i \in DOMAIN Tail(s) : i + 1 \in DOMAIN s /\ Tail(s)[i] = s[i + 1]
<1>1. Len(s) \in Nat /\ DOMAIN s = 1 .. Len(s) /\ Len(s) >= 1
  OBVIOUS
<1> QED
  BY <1>1

(* The answer of a call that takes the front of its queue.                 *)
LEMMA FrontType ==
    ASSUME TypeOK, CallsInv, NEW th \in Thread, pc[th] # "idle", queue[table[th]] # <<>>, AnswerFront(th)
    PROVE  /\ queue' \in [Table -> Seq(Chunk)] /\ batchesSeen' \in [Table -> Nat]
           /\ handed' \in SUBSET [chunk : Chunk, query : 1 .. MaxQuery, table : Table]
           /\ pc' = [pc EXCEPT ![th] = "idle"]
<1>1. table[th] \in Table /\ queue[table[th]] \in Seq(Chunk) /\ query \in 1 .. MaxQuery
  BY ServerAssumption DEF TypeOK, CallsInv
<1>2. Head(queue[table[th]]) \in Chunk /\ Tail(queue[table[th]]) \in Seq(Chunk)
  BY <1>1, TailOf
<1>3. queue' \in [Table -> Seq(Chunk)]
  BY <1>1, <1>2 DEF AnswerFront, TypeOK
<1>4. batchesSeen' \in [Table -> Nat]
  BY <1>1 DEF AnswerFront, TypeOK
<1>5. handed' \in SUBSET [chunk : Chunk, query : 1 .. MaxQuery, table : Table]
  BY <1>1, <1>2 DEF AnswerFront, TypeOK
<1> QED
  BY <1>3, <1>4, <1>5 DEF AnswerFront, Goto

(* Where the threads are after a step of one of them.                      *)
LEMMA PlaceType ==
    ASSUME TypeOK, NEW th \in Thread, NEW place \in Places, Goto(th, place)
    PROVE  /\ pc' \in [Thread -> Places]
           /\ \A ot \in Thread : pc'[ot] = IF ot = th THEN place ELSE pc[ot]
BY DEF TypeOK, Goto

(* Every step keeps the types and the calls.                               *)
LEMMA TypeStep == TypeOK /\ CallsInv /\ [Next]_vars => TypeOK' /\ CallsInv'
<1> SUFFICES ASSUME TypeOK, CallsInv, [Next]_vars PROVE TypeOK' /\ CallsInv'
  OBVIOUS
<1>0. query \in Nat /\ runningQuery \in Nat /\ runningQuery <= query
  BY DEF TypeOK
<1>1. CASE NextQuery
  <2>1. TypeOK'
    BY <1>1, ServerAssumption DEF NextQuery, TypeOK
  <2> QED
    BY <1>0, <1>1, <2>1 DEF NextQuery, CallsInv
<1>2. ASSUME NEW th \in Thread, NEW t \in Table, Request(th, t) PROVE TypeOK' /\ CallsInv'
  <2>1. Goto(th, "called") /\ "called" \in Places
    BY <1>2 DEF Request, Places
  <2>2. /\ pc' \in [Thread -> Places]
        /\ \A ot \in Thread : pc'[ot] = IF ot = th THEN "called" ELSE pc[ot]
    BY <2>1, PlaceType
  <2>3. /\ table' \in [Thread -> Table]
        /\ \A ot \in Thread : table'[ot] = IF ot = th THEN t ELSE table[ot]
    BY <1>2 DEF Request, TypeOK
  <2>4. TypeOK'
    BY <1>2, <2>2, <2>3 DEF Request, TypeOK, clientVars
  <2>5. CallsInv'
    BY <1>2, <2>2, <2>3 DEF Request, CallsInv, clientVars
  <2> QED
    BY <2>4, <2>5
<1>3. ASSUME NEW th \in Thread, Condition(th) PROVE TypeOK' /\ CallsInv'
  <2>1. PICK place \in {"main", "testing"} : Goto(th, place)
    BY <1>3 DEF Condition
  <2>2. place \in Places
    BY DEF Places
  <2>3. /\ pc' \in [Thread -> Places]
        /\ \A ot \in Thread : pc'[ot] = IF ot = th THEN place ELSE pc[ot]
    BY <2>1, <2>2, PlaceType
  <2>4. /\ runningQuery' = query /\ query > 0 /\ query \in 1 .. MaxQuery /\ pc[th] = "called"
        /\ UNCHANGED <<work, query, closed, table, handed>>
    BY <1>0, <1>3, ServerAssumption DEF Condition, clientVars, CallsInv, TypeOK
  <2>5. CASE runningQuery # query
    <3>1. Swapped \in [Table -> Seq(Chunk)]
      <4>1. /\ queue \in [Table -> Seq(Chunk)] /\ <<>> \in Seq(Chunk)
            /\ \A t \in {"lineorder", "customer", "supplier", "date"} : t \in Table /\ queue[t] \in Seq(Chunk)
        BY DEF TypeOK, Table
      <4> QED
        BY ONLY <4>1 DEF Swapped
    <3>2. work.chunks[query] \in [Table -> Nat]
      BY <2>4, WorkType
    <3>3. /\ queue' = Swapped /\ batchesSeen' = [t \in Table |-> 0]
          /\ left' = work.chunks[query]
      BY <1>3, <2>5 DEF Condition
    <3>4. done' \in BOOLEAN
      BY <1>3, <2>5, Zenon DEF Condition
    <3>5. TypeOK'
      BY <1>0, <2>3, <2>4, <3>1, <3>2, <3>3, <3>4 DEF TypeOK
    <3>6. CallsInv'
      BY <1>0, <2>3, <2>4 DEF CallsInv
    <3> QED
      BY <3>5, <3>6
  <2>6. CASE runningQuery = query
    BY <1>3, <2>3, <2>4, <2>6 DEF Condition, TypeOK, CallsInv
  <2> QED
    BY <2>5, <2>6
<1>4. ASSUME NEW th \in Thread, QueryDone(th) \/ QueryFails(th) \/ MainTest(th) \/ ThreadTest(th)
      PROVE  TypeOK' /\ CallsInv'
  <2>1. PICK place \in {"ran", "idle", "taking", "locking"} : Goto(th, place)
    BY <1>4 DEF QueryDone, QueryFails, MainTest, ThreadTest, AnswerEmpty
  <2>2. place \in Places
    BY DEF Places
  <2>3. /\ pc' \in [Thread -> Places]
        /\ \A ot \in Thread : pc'[ot] = IF ot = th THEN place ELSE pc[ot]
    BY <2>1, <2>2, PlaceType
  <2>4. /\ UNCHANGED <<work, query, table, runningQuery, batchesSeen, queue, handed>>
        /\ pc[th] \in {"main", "ran", "testing"}
    BY <1>4 DEF QueryDone, QueryFails, MainTest, ThreadTest, clientVars
  <2>5. done' \in BOOLEAN /\ left' \in [Table -> Nat]
    <3>1. done' \in BOOLEAN
      BY <1>4, Zenon DEF QueryDone, QueryFails, MainTest, ThreadTest, TypeOK
    <3>2. left' = left \/ left' = [t \in Table |-> 0]
      BY <1>4 DEF QueryDone, QueryFails, MainTest, ThreadTest
    <3> QED
      BY <3>1, <3>2 DEF TypeOK
  <2>6. query > 0 /\ query \in 1 .. MaxQuery
    BY <1>0, <2>4, ServerAssumption DEF TypeOK, CallsInv
  <2>7. closed' \in SUBSET Table
    <3>1. work.tables[query] \in SUBSET Table /\ table[th] \in Table
      BY <2>6, WorkType DEF TypeOK
    <3> QED
      BY <1>4, <3>1 DEF QueryDone, QueryFails, MainTest, ThreadTest, TypeOK, AnswerEmpty, clientVars
  <2>8. TypeOK'
    BY <2>3, <2>4, <2>5, <2>7 DEF TypeOK
  <2>9. CallsInv'
    BY <2>3, <2>4 DEF CallsInv
  <2> QED
    BY <2>8, <2>9
<1>5. ASSUME NEW th \in Thread, MainTake(th) \/ ThreadTake(th) PROVE TypeOK' /\ CallsInv'
  <2>1. /\ UNCHANGED <<work, query, closed, table, runningQuery, done, left>>
        /\ pc[th] \in {"taking", "locking"}
    BY <1>5 DEF MainTake, ThreadTake, clientVars
  <2>2. /\ queue' \in [Table -> Seq(Chunk)] /\ batchesSeen' \in [Table -> Nat]
        /\ handed' \in SUBSET [chunk : Chunk, query : 1 .. MaxQuery, table : Table]
        /\ \E place \in {"idle", "asleep", "crashed"} : pc' = [pc EXCEPT ![th] = place]
    <3>1. CASE queue[table[th]] = <<>>
      BY <1>5, <3>1 DEF MainTake, ThreadTake, TypeOK, Goto
    <3>2. CASE queue[table[th]] # <<>>
      <4>1. AnswerFront(th)
        BY <1>5, <3>2 DEF MainTake, ThreadTake
      <4> QED
        BY <2>1, <3>2, <4>1, FrontType
    <3> QED
      BY <3>1, <3>2
  <2>3. PICK place \in {"idle", "asleep", "crashed"} : Goto(th, place)
    BY <2>2 DEF Goto
  <2>4. place \in Places
    BY DEF Places
  <2>5. /\ pc' \in [Thread -> Places]
        /\ \A ot \in Thread : pc'[ot] = IF ot = th THEN place ELSE pc[ot]
    BY <2>3, <2>4, PlaceType
  <2>6. TypeOK'
    BY <2>1, <2>2, <2>5 DEF TypeOK
  <2>7. CallsInv'
    BY <2>1, <2>5 DEF CallsInv
  <2> QED
    BY <2>6, <2>7
<1>6. ASSUME NEW t \in Table, Push(t) PROVE TypeOK' /\ CallsInv'
  <2>1. PICK mn \in Thread : pc[mn] = "main"
    BY <1>6 DEF Push, Main
  <2>2. runningQuery \in 1 .. MaxQuery
    BY <1>0, <2>1, ServerAssumption DEF CallsInv, TypeOK
  <2>3. left[t] \in Nat /\ left[t] > 0 /\ NextChunk(t) \in Chunk
    BY <1>6, <2>2 DEF Push, TypeOK, NextChunk, Chunk
  <2>4. queue' \in [Table -> Seq(Chunk)]
    <3>1. queue[t] \in Seq(Chunk)
      BY DEF TypeOK
    <3>2. Append(queue[t], NextChunk(t)) \in Seq(Chunk)
      BY <2>3, <3>1
    <3> QED
      BY <1>6, <3>2 DEF Push, TypeOK
  <2>5. left' \in [Table -> Nat]
    BY <1>6, <2>3 DEF Push, TypeOK
  <2>6. /\ pc' \in [Thread -> Places]
        /\ \A ot \in Thread : pc'[ot] = pc[ot] \/ (pc[ot] = "asleep" /\ pc'[ot] = "locking")
    BY <1>6 DEF Push, TypeOK, Goto, Asleep, Places
  <2>7. TypeOK'
    BY <1>6, <2>4, <2>5, <2>6 DEF Push, TypeOK, clientVars
  <2>8. CallsInv'
    BY <1>6, <2>6 DEF Push, CallsInv, clientVars
  <2> QED
    BY <2>7, <2>8
<1>7. CASE UNCHANGED vars
  BY <1>7 DEF vars, clientVars, TypeOK, CallsInv
<1> QED
  BY <1>1, <1>2, <1>3, <1>4, <1>5, <1>6, <1>7 DEF Next, ThreadStep

(* At the start nothing runs.                                              *)
LEMMA InitType == Init => TypeOK /\ CallsInv
<1> SUFFICES ASSUME Init PROVE TypeOK /\ CallsInv
  OBVIOUS
<1>1. "lineorder" \in Table /\ "idle" \in Places /\ <<>> \in Seq(Chunk) /\ MaxQuery \in Nat
  BY ServerAssumption DEF Table, Places
<1>2. TypeOK
  <2>1. done \in BOOLEAN
    BY Zenon DEF Init
  <2>2. /\ work \in Workload /\ query = 0 /\ closed = {} /\ runningQuery = 0 /\ handed = {}
        /\ pc = [th \in Thread |-> "idle"] /\ table = [th \in Thread |-> "lineorder"]
        /\ batchesSeen = [t \in Table |-> 0] /\ queue = [t \in Table |-> <<>>]
        /\ left = [t \in Table |-> 0]
    BY Zenon DEF Init
  <2> QED
    BY <1>1, <2>1, <2>2 DEF TypeOK
<1>3. CallsInv
  BY DEF Init, CallsInv
<1> QED
  BY <1>2, <1>3

(* Whatever the clients ask for and the queries deliver, calls stay at     *)
(* known places of execute() and only chunks of a query that was started   *)
(* are queued and handed out.                                              *)
THEOREM TypeCorrect == Spec => [](TypeOK /\ CallsInv)
<1>1. Init => TypeOK /\ CallsInv
  BY InitType
<1> QED
  BY <1>1, TypeStep, PTL DEF Spec

-----------------------------------------------------------------------------
(* Every chunk once, for disciplined workloads.                            *)

(* An answer names its query, its table and its number.                    *)
LEMMA AnswerParts ==
    ASSUME NEW q, NEW t, NEW n, NEW r, NEW u, NEW m, Answer(q, t, n) = Answer(r, u, m)
    PROVE  q = r /\ t = u /\ n = m
<1>1. Answer(q, t, n).chunk = Answer(r, u, m).chunk
  OBVIOUS
<1>2. [query |-> q, table |-> t, number |-> n] = [query |-> r, table |-> u, number |-> m]
  BY <1>1 DEF Answer
<1> QED
  BY ONLY <1>2

(* What a query delivers.                                                  *)
LEMMA WorkRules ==
    ASSUME Discipline, TypeOK
    PROVE  /\ work.patient
           /\ \A th, ot \in Thread : th # ot => work.asks[th] \cap work.asks[ot] = {}
           /\ \A q \in 1 .. MaxQuery, t \in Table :
                /\ work.chunks[q][t] \in Nat
                /\ q \in work.fails \/ t \notin work.tables[q] => work.chunks[q][t] = 0
                /\ t # "lineorder" => work.chunks[q][t] \in {0, Expected[t]}
<1>1. work \in Workload
  BY DEF TypeOK
<1>2. \A q \in 1 .. MaxQuery, t \in Table : work.chunks[q][t] \in Nat
  BY WorkType
<1> QED
  BY <1>1, <1>2 DEF Discipline

(* execute() expects some chunks of every table but lineorder.             *)
LEMMA ExpectsSome == \A t \in Table : t # "lineorder" => Expected[t] \in Nat /\ Expected[t] > 0
BY DEF Table, Expected

(* How many chunks are left, as numbers.                                   *)
LEMMA RestType ==
    ASSUME TypeOK, NEW t \in Table
    PROVE  /\ left[t] \in Nat /\ queue[t] \in Seq(Chunk) /\ Len(queue[t]) \in Nat
           /\ DOMAIN queue[t] = 1 .. Len(queue[t])
           /\ Rest(t) = left[t] + Len(queue[t]) /\ Rest(t) \in Nat
           /\ queue[t] = <<>> <=> Len(queue[t]) = 0
<1>1. left[t] \in Nat /\ queue[t] \in Seq(Chunk)
  BY DEF TypeOK
<1>2. Len(queue[t]) \in Nat /\ DOMAIN queue[t] = 1 .. Len(queue[t]) /\ (queue[t] = <<>> <=> Len(queue[t]) = 0)
  BY <1>1
<1>3. Rest(t) = left[t] + Len(queue[t])
  BY DEF Rest
<1> QED
  BY <1>1, <1>2, <1>3

(* Steps that leave the queues alone keep what is said of them.            *)
LEMMA QueuesAlone ==
    ASSUME QueueInv, HandedInv, SeenInv,
           UNCHANGED <<work, query, runningQuery, queue, left, handed, batchesSeen>>
    PROVE  QueueInv' /\ HandedInv' /\ SeenInv' /\ \A t : Rest(t)' = Rest(t)
<1>1. \A t : Rest(t)' = Rest(t)
  BY DEF Rest
<1>2. QueueInv'
  BY <1>1 DEF QueueInv
<1>3. HandedInv'
  BY <1>1 DEF HandedInv
<1>4. SeenInv'
  BY <1>1 DEF SeenInv
<1> QED
  BY <1>1, <1>2, <1>3, <1>4

(* A new query starts: nothing of the last one is left in the queues that  *)
(* condition() exchanges, and nothing of the new one is handed out yet.    *)
LEMMA StartKeeps ==
    ASSUME Discipline, TypeOK, ServerInv, NEW th \in Thread, Condition(th), runningQuery # query
    PROVE  CleanStart' /\ QueueInv' /\ HandedInv' /\ SeenInv' /\ EndInv' /\ TakeInv'
<1>1. /\ UNCHANGED <<work, query, closed, table, handed>> /\ runningQuery' = query
      /\ queue' = Swapped /\ left' = work.chunks[query] /\ batchesSeen' = [t \in Table |-> 0]
      /\ pc' = [pc EXCEPT ![th] = "main"] /\ pc[th] = "called"
  BY DEF Condition, clientVars, Goto
<1>2. ~done'
  BY DEF Condition
<1>3. query \in 1 .. MaxQuery /\ runningQuery \in Nat /\ runningQuery < query
  BY <1>1, ServerAssumption DEF ServerInv, CallsInv, TypeOK
<1>4. closed = {} /\ \A t \in Table : left[t] = 0 /\ queue[t] = <<>>
  BY DEF ServerInv, CleanStart
<1>5. \A t \in Table : queue'[t] = <<>>
  <2>1. /\ queue \in [Table -> Seq(Chunk)]
        /\ \A t \in {"lineorder", "customer", "supplier", "date"} : t \in Table /\ queue[t] = <<>>
    BY <1>4 DEF TypeOK, Table
  <2> QED
    BY <1>1, <1>4, <2>1 DEF Swapped
<1>6. \A t \in Table : work.chunks[query][t] \in Nat
  BY <1>3, WorkRules
<1>7. \A t \in Table : Rest(t)' = work.chunks[query][t]
  BY <1>1, <1>5, <1>6 DEF Rest
<1>8. \A ot \in Thread : pc[ot] \in {"idle", "called"} /\ pc'[ot] \in {"idle", "called", "main"}
  BY <1>1 DEF ServerInv, CallsInv, TypeOK
<1>9. CleanStart'
  BY <1>1, <1>3 DEF CleanStart
<1>10. QueueInv'
  BY <1>5 DEF QueueInv
<1>11. HandedInv'
  <2>1. \A h \in handed : h = Answer(h.query, h.table, h.chunk.number) /\ h.query <= runningQuery
    BY DEF ServerInv, HandedInv
  <2>2. \A h \in handed : h.query \in Nat /\ h.query < query
    BY <1>3, <2>1 DEF TypeOK
  <2>3. \A t, n : Answer(query, t, n) \notin handed
    BY <1>3, <2>2 DEF Answer
  <2>4. ASSUME NEW t \in Table, NEW n \in Nat PROVE n \notin Rest(t)' + 1 .. work.chunks[query][t]
    <3>1. PICK c \in Nat : c = work.chunks[query][t]
      BY <1>6
    <3>2. Rest(t)' = c
      BY <1>7, <3>1
    <3>3. n \notin c + 1 .. c
      OBVIOUS
    <3> QED
      BY <3>1, <3>2, <3>3
  <2>5. \A t \in Table : Rest(t)' <= work.chunks[query][t]
    BY <1>6, <1>7
  <2>6. \A h \in handed' : h = Answer(h.query, h.table, h.chunk.number) /\ h.query <= runningQuery'
    BY <1>1, <1>3, <2>1, <2>2
  <2> QED
    BY <1>1, <2>3, <2>4, <2>5, <2>6 DEF HandedInv
<1>12. SeenInv'
  BY <1>1, <1>6, <1>7 DEF SeenInv
<1>13. EndInv'
  BY <1>1, <1>2, <1>4, <1>8 DEF EndInv
<1>14. TakeInv'
  BY <1>8 DEF TakeInv
<1> QED
  BY <1>9, <1>10, <1>11, <1>12, <1>13, <1>14

(* A merge pushes a chunk: it leaves the chunks to push for the queue.     *)
LEMMA PushKeeps ==
    ASSUME Discipline, TypeOK, ServerInv, NEW t \in Table, Push(t)
    PROVE  CleanStart' /\ QueueInv' /\ HandedInv' /\ SeenInv' /\ EndInv' /\ TakeInv'
<1>1. /\ UNCHANGED <<work, query, closed, table, runningQuery, batchesSeen, handed>> /\ left[t] > 0
      /\ queue' = [queue EXCEPT ![t] = Append(@, NextChunk(t))] /\ left' = [left EXCEPT ![t] = @ - 1]
  BY DEF Push, clientVars
<1>2. done' = done
  BY DEF Push
<1>3. PICK mn \in Thread : pc[mn] = "main"
  BY DEF Push, Main
<1>4. runningQuery = query /\ query > 0
  BY <1>3 DEF ServerInv, CallsInv
<1>5. \A ot \in Thread : pc'[ot] = pc[ot] \/ (pc[ot] = "asleep" /\ pc'[ot] = "locking")
  BY DEF Push, TypeOK, Goto, Asleep
<1>6. /\ left[t] \in Nat /\ queue[t] \in Seq(Chunk) /\ Len(queue[t]) \in Nat
      /\ DOMAIN queue[t] = 1 .. Len(queue[t]) /\ Rest(t) = left[t] + Len(queue[t])
  BY RestType
<1>7. /\ left'[t] = left[t] - 1 /\ queue'[t] = Append(queue[t], NextChunk(t))
      /\ \A u \in Table : u # t => left'[u] = left[u] /\ queue'[u] = queue[u]
  BY <1>1 DEF TypeOK
<1>8. /\ Len(queue'[t]) = Len(queue[t]) + 1 /\ DOMAIN queue'[t] = 1 .. Len(queue[t]) + 1
      /\ queue'[t][Len(queue[t]) + 1] = NextChunk(t)
      /\ \A i \in 1 .. Len(queue[t]) : queue'[t][i] = queue[t][i]
  <2>1. NextChunk(t) \in Chunk
    BY <1>4, <1>6, ServerAssumption DEF NextChunk, Chunk, TypeOK
  <2> QED
    BY <1>6, <1>7, <2>1
<1>9. \A u \in Table : Rest(u)' = Rest(u)
  <2>1. Rest(t)' = left'[t] + Len(queue'[t])
    BY DEF Rest
  <2>2. PICK n \in Nat, l \in Nat : n = Len(queue[t]) /\ l = left[t]
    BY <1>6
  <2>3. Rest(t) = l + n /\ Rest(t)' = (l - 1) + (n + 1)
    BY <1>6, <1>7, <1>8, <2>1, <2>2
  <2>4. l + n = (l - 1) + (n + 1)
    OBVIOUS
  <2>5. Rest(t)' = Rest(t)
    BY <2>3, <2>4
  <2> QED
    BY <1>7, <2>5 DEF Rest
<1>10. CleanStart'
  BY <1>1, <1>4 DEF CleanStart
<1>11. QueueInv'
  <2> SUFFICES ASSUME NEW u \in Table, NEW i \in DOMAIN queue'[u]
               PROVE  queue'[u][i] = [query |-> query, table |-> u, number |-> Rest(u)' + 1 - i]
    BY <1>1 DEF QueueInv
  <2>1. Rest(u)' = Rest(u)
    BY <1>9
  <2>2. CASE i \in DOMAIN queue[u] /\ queue'[u][i] = queue[u][i]
    BY <2>1, <2>2 DEF ServerInv, QueueInv
  <2>3. CASE u = t /\ i = Len(queue[t]) + 1
    <3>1. queue'[u][i] = [query |-> query, table |-> t, number |-> left[t]]
      BY <1>4, <1>8, <2>3 DEF NextChunk
    <3>2. left[t] = Rest(t) + 1 - i
      BY <1>6, <2>3
    <3> QED
      BY <2>1, <2>3, <3>1, <3>2
  <2>4. CASE u = t
    <3>1. i \in 1 .. Len(queue[t]) + 1
      BY <1>8, <2>4
    <3>2. i \in 1 .. Len(queue[t]) \/ i = Len(queue[t]) + 1
      BY <1>6, <3>1
    <3> QED
      BY <1>6, <1>8, <2>2, <2>3, <2>4, <3>2
  <2> QED
    BY <1>7, <2>2, <2>4
<1>12. HandedInv'
  BY <1>1, <1>9 DEF ServerInv, HandedInv
<1>13. SeenInv'
  BY <1>1, <1>9 DEF ServerInv, SeenInv
<1>14. EndInv'
  <2>1. ~done
    BY <1>1, <1>6 DEF ServerInv, EndInv
  <2>2. \A u \in closed' : Rest(u)' = 0
    BY <1>1, <1>9 DEF ServerInv, EndInv, TypeOK
  <2>3. \A ot \in Thread : pc'[ot] \in {"ran", "taking"} => done'
    BY <1>2, <1>5 DEF ServerInv, EndInv
  <2> QED
    BY <1>2, <2>1, <2>2, <2>3 DEF EndInv
<1>15. TakeInv'
  <2> SUFFICES ASSUME NEW ot \in Thread
               PROVE  pc'[ot] # "crashed" /\ (pc'[ot] = "taking" => queue'[table[ot]] # <<>>)
    BY <1>1 DEF TakeInv
  <2>1. pc[ot] # "crashed" /\ (pc[ot] = "taking" => queue[table[ot]] # <<>>)
    BY DEF ServerInv, TakeInv
  <2>2. queue'[t] # <<>>
    BY <1>6, <1>8
  <2>3. table[ot] \in Table
    BY DEF TypeOK
  <2> QED
    BY <1>5, <1>7, <2>1, <2>2, <2>3
<1> QED
  BY <1>10, <1>11, <1>12, <1>13, <1>14, <1>15

(* A call takes the front of its queue: the highest number there is handed *)
(* out, and nobody else reads the table.                                   *)
LEMMA FrontKeeps ==
    ASSUME Discipline, TypeOK, ServerInv, NEW th \in Thread, pc[th] \in {"taking", "locking"},
           AnswerFront(th), queue[table[th]] # <<>>,
           UNCHANGED <<clientVars, table, runningQuery, done, left>>
    PROVE  CleanStart' /\ QueueInv' /\ HandedInv' /\ SeenInv' /\ EndInv' /\ TakeInv'
<1>0. UNCHANGED <<work, query, closed, table, runningQuery, left>>
  BY DEF clientVars
<1>1. PICK t \in Table : t = table[th]
  BY DEF TypeOK
<1>2. runningQuery = query /\ query \in 1 .. MaxQuery
  <2>1. runningQuery = query /\ query > 0
    BY DEF ServerInv, CallsInv
  <2>2. query \in 0 .. MaxQuery
    BY DEF TypeOK
  <2> QED
    BY <2>1, <2>2, ServerAssumption
<1>3. /\ left[t] \in Nat /\ queue[t] \in Seq(Chunk) /\ Len(queue[t]) \in Nat
      /\ DOMAIN queue[t] = 1 .. Len(queue[t]) /\ Rest(t) = left[t] + Len(queue[t]) /\ Rest(t) \in Nat
  BY RestType
<1>4. /\ Head(queue[t]) = queue[t][1] /\ Len(queue[t]) >= 1 /\ Len(Tail(queue[t])) = Len(queue[t]) - 1
      /\ DOMAIN Tail(queue[t]) = 1 .. Len(queue[t]) - 1
      /\ \A i \in DOMAIN Tail(queue[t]) : i + 1 \in DOMAIN queue[t] /\ Tail(queue[t])[i] = queue[t][i + 1]
  BY <1>1, <1>3, TailOf
<1>5. /\ queue'[t] = Tail(queue[t]) /\ \A u \in Table : u # t => queue'[u] = queue[u]
      /\ handed' = handed \cup {[chunk |-> Head(queue[t]), query |-> query, table |-> t]}
      /\ t # "lineorder" => batchesSeen'[t] = batchesSeen[t] + 1
      /\ \A u \in Table : u # t => batchesSeen'[u] = batchesSeen[u]
      /\ pc' = [pc EXCEPT ![th] = "idle"]
  <2>1. /\ queue' = [queue EXCEPT ![t] = Tail(@)] /\ pc' = [pc EXCEPT ![th] = "idle"]
        /\ handed' = handed \cup {[chunk |-> Head(queue[t]), query |-> query, table |-> t]}
        /\ batchesSeen' = IF t = "lineorder" THEN batchesSeen ELSE [batchesSeen EXCEPT ![t] = @ + 1]
    BY <1>1, Zenon DEF AnswerFront, Goto
  <2>2. queue'[t] = Tail(queue[t]) /\ \A u \in Table : u # t => queue'[u] = queue[u]
    BY <2>1 DEF TypeOK
  <2>3. t # "lineorder" => batchesSeen'[t] = batchesSeen[t] + 1
    BY <2>1 DEF TypeOK
  <2>4. \A u \in Table : u # t => batchesSeen'[u] = batchesSeen[u]
    BY <2>1 DEF TypeOK
  <2> QED
    BY <2>1, <2>2, <2>3, <2>4
<1>6. Rest(t) >= 1 /\ Rest(t)' = Rest(t) - 1 /\ \A u \in Table : u # t => Rest(u)' = Rest(u)
  <2>1. PICK n \in Nat, l \in Nat : n = Len(queue[t]) /\ l = left[t]
    BY <1>3
  <2>2. n >= 1 /\ Rest(t) = l + n /\ Rest(t)' = l + (n - 1)
    BY <1>0, <1>3, <1>4, <1>5, <2>1 DEF Rest
  <2>3. \A u \in Table : u # t => Rest(u)' = Rest(u)
    BY <1>0, <1>5 DEF Rest
  <2> QED
    BY <2>2, <2>3
<1>7. handed' = handed \cup {Answer(query, t, Rest(t))}
  <2>0. 1 \in DOMAIN queue[t]
    BY <1>3, <1>4
  <2>1. queue[t][1] = [query |-> query, table |-> t, number |-> Rest(t) + 1 - 1]
    BY <2>0 DEF ServerInv, QueueInv
  <2>2. Rest(t) + 1 - 1 = Rest(t)
    BY <1>3
  <2>3. Head(queue[t]) = [query |-> query, table |-> t, number |-> Rest(t)]
    BY <1>4, <2>1, <2>2, Zenon
  <2> QED
    BY <1>5, <2>3, Zenon DEF Answer
<1>8. \A ot \in Thread : pc'[ot] = IF ot = th THEN "idle" ELSE pc[ot]
  BY <1>5 DEF TypeOK
<1>9. CleanStart'
  BY <1>0, <1>2 DEF CleanStart
<1>10. QueueInv'
  <2> SUFFICES ASSUME NEW u \in Table, NEW i \in DOMAIN queue'[u]
               PROVE  queue'[u][i] = [query |-> query, table |-> u, number |-> Rest(u)' + 1 - i]
    BY <1>0 DEF QueueInv
  <2>1. CASE u # t
    BY <1>5, <1>6, <2>1 DEF ServerInv, QueueInv
  <2>2. CASE u = t
    <3>1. i \in 1 .. Len(queue[t]) - 1 /\ i + 1 \in DOMAIN queue[t] /\ queue'[t][i] = queue[t][i + 1]
      BY <1>4, <1>5, <2>2
    <3>2. queue[t][i + 1] = [query |-> query, table |-> t, number |-> Rest(t) + 1 - (i + 1)]
      BY <3>1 DEF ServerInv, QueueInv
    <3>3. Rest(t) + 1 - (i + 1) = Rest(t)' + 1 - i
      BY <1>3, <1>6, <3>1
    <3> QED
      BY <2>2, <3>1, <3>2, <3>3
  <2> QED
    BY <2>1, <2>2
<1>11. HandedInv'
  <2>1. \A h \in handed' : h = Answer(h.query, h.table, h.chunk.number) /\ h.query <= runningQuery'
    <3>1. \A h \in handed : h = Answer(h.query, h.table, h.chunk.number) /\ h.query <= runningQuery
      BY DEF ServerInv, HandedInv
    <3>2. ASSUME NEW h, h = Answer(query, t, Rest(t))
          PROVE  h = Answer(h.query, h.table, h.chunk.number) /\ h.query = query
      BY <3>2 DEF Answer
    <3> QED
      BY <1>0, <1>2, <1>7, <3>1, <3>2
  <2>2. \A u \in Table :
          /\ Rest(u) <= work.chunks[query][u]
          /\ \A n \in Nat : Answer(query, u, n) \in handed <=> n \in Rest(u) + 1 .. work.chunks[query][u]
    BY <1>2 DEF ServerInv, HandedInv
  <2>3. ASSUME NEW u \in Table, u # t
        PROVE  /\ Rest(u)' <= work.chunks[query][u]
               /\ \A n \in Nat : Answer(query, u, n) \in handed' <=> n \in Rest(u)' + 1 .. work.chunks[query][u]
    <3>1. \A n \in Nat : Answer(query, u, n) # Answer(query, t, Rest(t))
      BY <2>3, AnswerParts
    <3> QED
      BY <1>6, <1>7, <2>2, <2>3, <3>1
  <2>4. /\ Rest(t)' <= work.chunks[query][t]
        /\ \A n \in Nat : Answer(query, t, n) \in handed' <=> n \in Rest(t)' + 1 .. work.chunks[query][t]
    <3>1. work.chunks[query][t] \in Nat /\ Rest(t) <= work.chunks[query][t]
      BY <1>2, <2>2, WorkRules
    <3>2. Rest(t)' <= work.chunks[query][t]
      BY <1>3, <1>6, <3>1
    <3>3. ASSUME NEW n \in Nat
          PROVE  Answer(query, t, n) \in handed' <=> n \in Rest(t)' + 1 .. work.chunks[query][t]
      <4>1. Answer(query, t, n) = Answer(query, t, Rest(t)) <=> n = Rest(t)
        BY AnswerParts
      <4>2. Answer(query, t, n) \in handed' <=> Answer(query, t, n) \in handed \/ n = Rest(t)
        BY <1>7, <4>1
      <4>3. Answer(query, t, n) \in handed <=> n \in Rest(t) + 1 .. work.chunks[query][t]
        BY <2>2
      <4>4. n \in Rest(t)' + 1 .. work.chunks[query][t]
              <=> n \in Rest(t) + 1 .. work.chunks[query][t] \/ n = Rest(t)
        BY <1>3, <1>6, <3>1
      <4> QED
        BY <4>2, <4>3, <4>4
    <3> QED
      BY <3>2, <3>3
  <2> QED
    BY <1>0, <2>1, <2>3, <2>4 DEF HandedInv
<1>12. SeenInv'
  <2> SUFFICES ASSUME NEW u \in Table \ {"lineorder"}
               PROVE  batchesSeen'[u] = work.chunks[query][u] - Rest(u)'
    BY <1>0 DEF SeenInv
  <2>1. batchesSeen[u] = work.chunks[query][u] - Rest(u)
    BY <1>2 DEF ServerInv, SeenInv
  <2>2. CASE u # t
    BY <1>5, <1>6, <2>1, <2>2
  <2>3. CASE u = t
    <3>1. work.chunks[query][t] \in Nat /\ Rest(t) \in Nat
      BY <1>2, <1>3, WorkRules
    <3> QED
      BY <1>5, <1>6, <2>1, <2>3, <3>1
  <2> QED
    BY <2>2, <2>3
<1>13. EndInv'
  <2>1. \A u \in closed : Rest(u) = 0 /\ u \in Table
    BY DEF ServerInv, EndInv, TypeOK
  <2>2. \A u \in closed' : Rest(u)' = 0
    BY <1>0, <1>6, <2>1
  <2>3. done' = done
    OBVIOUS
  <2>4. done' => \A u \in Table : left'[u] = 0
    BY <1>0, <2>3 DEF ServerInv, EndInv
  <2>5. \A ot \in Thread : pc'[ot] \in {"ran", "taking"} => done'
    BY <1>8, <2>3 DEF ServerInv, EndInv
  <2> QED
    BY <2>2, <2>4, <2>5 DEF EndInv
<1>14. TakeInv'
  <2> SUFFICES ASSUME NEW ot \in Thread
               PROVE  pc'[ot] # "crashed" /\ (pc'[ot] = "taking" => queue'[table[ot]] # <<>>)
    BY <1>0 DEF TakeInv
  <2>1. pc[ot] # "crashed" /\ (pc[ot] = "taking" => queue[table[ot]] # <<>>) /\ table[ot] \in Table
    BY DEF ServerInv, TakeInv, TypeOK
  <2>2. ASSUME ot # th, pc[ot] = "taking" PROVE table[ot] # t
    <3>1. table[th] \in work.asks[th] /\ table[ot] \in work.asks[ot]
      BY <2>2 DEF ServerInv, CallsInv
    <3>2. work.asks[th] \cap work.asks[ot] = {}
      BY <2>2, WorkRules
    <3> QED
      BY <1>1, <3>1, <3>2
  <2> QED
    BY <1>5, <1>8, <2>1, <2>2
<1> QED
  BY <1>9, <1>10, <1>11, <1>12, <1>13, <1>14

(* When a call is told that its table is read to the end, it is: the       *)
(* counter or the flag it looks at counts the chunks that were pushed.     *)
LEMMA SeenAll ==
    ASSUME Discipline, TypeOK, ServerInv, NEW t \in Table, runningQuery = query, query > 0,
           queue[t] = <<>>, AllSeen(t) \/ done
    PROVE  Rest(t) = 0
<1>1. /\ left[t] \in Nat /\ Len(queue[t]) = 0 /\ Rest(t) = left[t] + Len(queue[t])
  BY RestType
<1>2. CASE done
  BY <1>1, <1>2 DEF ServerInv, EndInv
<1>3. CASE ~done
  <2>1. t # "lineorder" /\ batchesSeen[t] = Expected[t]
    BY <1>3 DEF AllSeen
  <2>2. batchesSeen[t] = work.chunks[query][t] - Rest(t)
    BY <2>1 DEF ServerInv, SeenInv
  <2>3. query \in 1 .. MaxQuery
    BY ServerAssumption DEF TypeOK
  <2>4. work.chunks[query][t] \in {0, Expected[t]} /\ Expected[t] \in Nat /\ Expected[t] > 0
    BY <2>1, <2>3, WorkRules, ExpectsSome
  <2>5. Rest(t) \in Nat
    BY <1>1
  <2> QED
    BY <2>1, <2>2, <2>4, <2>5
<1> QED
  BY <1>2, <1>3

(* Steps that close at most finished tables, and leave the queues alone.   *)
LEMMA CloseKeeps ==
    ASSUME TypeOK, ServerInv, NEW th \in Thread,
           UNCHANGED <<work, query, runningQuery, queue, left, handed, batchesSeen>>,
           \A ot \in Thread : ot # th => pc'[ot] = pc[ot] /\ table'[ot] = table[ot],
           pc'[th] # "crashed", pc'[th] = "taking" => queue[table[th]] # <<>> /\ table'[th] = table[th],
           pc'[th] \in {"ran", "taking"} => done', done => done',
           done' => \A t \in Table : left[t] = 0,
           runningQuery # query \/ query = 0 => closed' = closed,
           \A t \in closed' : Rest(t) = 0
    PROVE  CleanStart' /\ QueueInv' /\ HandedInv' /\ SeenInv' /\ EndInv' /\ TakeInv'
<1>1. QueueInv' /\ HandedInv' /\ SeenInv' /\ \A t : Rest(t)' = Rest(t)
  BY QueuesAlone DEF ServerInv
<1>2. CleanStart'
  BY DEF ServerInv, CleanStart
<1>3. EndInv'
  <2>1. \A t \in closed' : Rest(t)' = 0
    BY <1>1
  <2>2. \A ot \in Thread : pc'[ot] \in {"ran", "taking"} => done'
    BY DEF ServerInv, EndInv
  <2> QED
    BY <2>1, <2>2 DEF EndInv
<1>4. TakeInv'
  BY DEF ServerInv, TakeInv
<1> QED
  BY <1>1, <1>2, <1>3, <1>4

(* Every step keeps the invariant.                                         *)
LEMMA ServerStep ==
    ASSUME Discipline, TypeOK, ServerInv, [Next]_vars
    PROVE  CleanStart' /\ QueueInv' /\ HandedInv' /\ SeenInv' /\ EndInv' /\ TakeInv'
<1> DEFINE Kept == CleanStart' /\ QueueInv' /\ HandedInv' /\ SeenInv' /\ EndInv' /\ TakeInv'
<1>1. CASE NextQuery
  <2>1. /\ \A th \in Thread : pc[th] = "idle" /\ pc'[th] = "idle"
        /\ query' = query + 1 /\ closed' = {} /\ query < MaxQuery
        /\ query > 0 /\ work.patient => closed = work.tables[query]
        /\ UNCHANGED <<work, runningQuery, queue, left, handed, batchesSeen>>
    BY <1>1 DEF NextQuery
  <2>2. query \in Nat /\ runningQuery \in Nat /\ runningQuery <= query /\ query \in 0 .. MaxQuery
    BY ServerAssumption DEF TypeOK
  <2>3. \A t \in Table : left[t] = 0 /\ queue[t] = <<>>
    <3>1. CASE runningQuery # query \/ query = 0
      BY <3>1 DEF ServerInv, CleanStart
    <3>2. CASE runningQuery = query /\ query # 0
      <4> SUFFICES ASSUME NEW t \in Table PROVE left[t] = 0 /\ queue[t] = <<>>
        OBVIOUS
      <4>1. query > 0 /\ query \in 1 .. MaxQuery
        BY <2>2, <3>2
      <4>2. closed = work.tables[query]
        BY <2>1, <4>1, WorkRules
      <4>3. Rest(t) <= work.chunks[query][t]
        BY <3>2, <4>1 DEF ServerInv, HandedInv
      <4>4. t \notin work.tables[query] => work.chunks[query][t] = 0
        BY <4>1, WorkRules
      <4>5. t \in work.tables[query] => Rest(t) = 0
        BY <4>2 DEF ServerInv, EndInv
      <4>6. /\ left[t] \in Nat /\ Len(queue[t]) \in Nat /\ Rest(t) = left[t] + Len(queue[t])
            /\ queue[t] = <<>> <=> Len(queue[t]) = 0
        BY RestType
      <4>7. Rest(t) <= 0
        BY <4>3, <4>4, <4>5
      <4> QED
        BY <4>6, <4>7
    <3> QED
      BY <3>1, <3>2
  <2>4. runningQuery' # query' /\ query' # 0
    BY <2>1, <2>2
  <2>5. CleanStart'
    BY <2>1, <2>3 DEF CleanStart
  <2>6. QueueInv'
    BY <2>1, <2>3 DEF QueueInv
  <2>7. HandedInv'
    BY <2>1, <2>4 DEF ServerInv, HandedInv
  <2>8. SeenInv'
    BY <2>4 DEF SeenInv
  <2>9. EndInv'
    <3>1. \A t \in Table : left'[t] = 0
      BY <2>1, <2>3
    <3> QED
      BY <2>1, <3>1 DEF EndInv
  <2>10. TakeInv'
    BY <2>1 DEF TakeInv
  <2> QED
    BY <2>5, <2>6, <2>7, <2>8, <2>9, <2>10
<1>2. ASSUME NEW th \in Thread, NEW t \in Table, Request(th, t) PROVE Kept
  <2>1. /\ UNCHANGED <<work, query, runningQuery, queue, left, handed, batchesSeen>> /\ closed' = closed
        /\ pc'[th] = "called"
        /\ \A ot \in Thread : ot # th => pc'[ot] = pc[ot] /\ table'[ot] = table[ot]
    BY <1>2 DEF Request, clientVars, Goto, TypeOK
  <2>2. done' = done /\ (done => \A u \in Table : left[u] = 0) /\ \A u \in closed : Rest(u) = 0
    BY <1>2 DEF Request, ServerInv, EndInv
  <2> QED
    BY <2>1, <2>2, CloseKeeps, Zenon
<1>3. ASSUME NEW th \in Thread, Condition(th) PROVE Kept
  <2>1. CASE runningQuery # query
    BY <1>3, <2>1, StartKeeps
  <2>2. CASE runningQuery = query
    <3>1. /\ UNCHANGED <<work, query, runningQuery, queue, left, handed, batchesSeen>> /\ closed' = closed
          /\ pc'[th] = "testing"
          /\ \A ot \in Thread : ot # th => pc'[ot] = pc[ot] /\ table'[ot] = table[ot]
      BY <1>3, <2>2 DEF Condition, clientVars, Goto, TypeOK
    <3>2. done' = done /\ (done => \A u \in Table : left[u] = 0) /\ \A u \in closed : Rest(u) = 0
      BY <1>3, <2>2 DEF Condition, ServerInv, EndInv
    <3> QED
      BY <3>1, <3>2, CloseKeeps, Zenon
  <2> QED
    BY <2>1, <2>2
<1>4. ASSUME NEW th \in Thread, QueryDone(th) PROVE Kept
  <2>1. /\ UNCHANGED <<work, query, runningQuery, queue, left, handed, batchesSeen>> /\ closed' = closed
        /\ pc'[th] = "ran" /\ \A u \in Table : left[u] = 0
        /\ \A ot \in Thread : ot # th => pc'[ot] = pc[ot] /\ table'[ot] = table[ot]
    BY <1>4 DEF QueryDone, clientVars, Goto, TypeOK
  <2>2. done' /\ \A u \in closed : Rest(u) = 0
    BY <1>4 DEF QueryDone, ServerInv, EndInv
  <2> QED
    BY <2>1, <2>2, CloseKeeps, Zenon
<1>5. ASSUME NEW th \in Thread, QueryFails(th) PROVE Kept
  <2>0. runningQuery = query /\ query \in 1 .. MaxQuery /\ query \in work.fails
    BY <1>5, ServerAssumption DEF QueryFails, ServerInv, CallsInv, TypeOK
  <2>1. ASSUME NEW u \in Table PROVE Rest(u) = 0 /\ left[u] = 0
    <3>1. Rest(u) <= work.chunks[query][u] /\ work.chunks[query][u] = 0
      BY <2>0, WorkRules DEF ServerInv, HandedInv
    <3>2. left[u] \in Nat /\ Len(queue[u]) \in Nat /\ Rest(u) = left[u] + Len(queue[u])
      BY RestType
    <3> QED
      BY <3>1, <3>2
  <2>2. left' = left
    BY <1>5, <2>1 DEF QueryFails, TypeOK
  <2>3. /\ UNCHANGED <<work, query, runningQuery, queue, left, handed, batchesSeen>>
        /\ closed' = work.tables[query] /\ pc'[th] = "idle"
        /\ \A ot \in Thread : ot # th => pc'[ot] = pc[ot] /\ table'[ot] = table[ot]
    BY <1>5, <2>2 DEF QueryFails, Goto, TypeOK
  <2>4. \A u \in closed' : Rest(u) = 0
    BY <2>0, <2>1, <2>3, WorkType
  <2>5. done' = done /\ (done => \A u \in Table : left[u] = 0)
    BY <1>5 DEF QueryFails, ServerInv, EndInv
  <2>6. ~(runningQuery # query \/ query = 0)
    BY <2>0
  <2> QED
    BY <2>3, <2>4, <2>5, <2>6, CloseKeeps, Zenon
<1>6. ASSUME NEW th \in Thread, MainTest(th) \/ ThreadTest(th) PROVE Kept
  <2>1. /\ UNCHANGED <<work, query, runningQuery, queue, left, handed, batchesSeen, table>>
        /\ \A ot \in Thread : ot # th => pc'[ot] = pc[ot] /\ table'[ot] = table[ot]
    BY <1>6 DEF MainTest, ThreadTest, AnswerEmpty, Goto, TypeOK
  <2>2. done' = done /\ (done => \A u \in Table : left[u] = 0) /\ \A u \in closed : Rest(u) = 0
    BY <1>6 DEF MainTest, ThreadTest, ServerInv, EndInv
  <2>3. runningQuery = query /\ query > 0 /\ table[th] \in Table
    BY <1>6 DEF MainTest, ThreadTest, ServerInv, CallsInv, TypeOK
  <2>4. \/ closed' = closed
        \/ closed' = closed \cup {table[th]} /\ queue[table[th]] = <<>> /\ (AllSeen(table[th]) \/ done)
    BY <1>6 DEF MainTest, ThreadTest, AnswerEmpty, ServerInv, EndInv
  <2>5. \A u \in closed' : Rest(u) = 0
    BY <2>2, <2>3, <2>4, SeenAll
  <2>6. pc'[th] # "crashed" /\ (pc'[th] = "taking" => queue[table[th]] # <<>>)
    BY <1>6 DEF MainTest, ThreadTest, AnswerEmpty, Goto, TypeOK
  <2>7. pc'[th] \in {"ran", "taking"} => done'
    <3>1. CASE MainTest(th)
      BY <2>2, <3>1 DEF MainTest, ServerInv, EndInv
    <3>2. CASE ThreadTest(th)
      BY <3>2 DEF ThreadTest, AnswerEmpty, Goto, TypeOK
    <3> QED
      BY <1>6, <3>1, <3>2
  <2>8. ~(runningQuery # query \/ query = 0)
    BY <2>3 DEF TypeOK
  <2> QED
    BY <2>1, <2>2, <2>5, <2>6, <2>7, <2>8, CloseKeeps, Zenon
<1>7. ASSUME NEW th \in Thread, MainTake(th) \/ ThreadTake(th) PROVE Kept
  <2>1. CASE queue[table[th]] = <<>>
    <3>1. ThreadTake(th)
      BY <1>7, <2>1 DEF MainTake, ServerInv, TakeInv
    <3>2. /\ UNCHANGED <<work, query, runningQuery, queue, left, handed, batchesSeen>> /\ closed' = closed
          /\ pc'[th] = "asleep"
          /\ \A ot \in Thread : ot # th => pc'[ot] = pc[ot] /\ table'[ot] = table[ot]
      BY <2>1, <3>1 DEF ThreadTake, clientVars, Goto, TypeOK
    <3>3. done' = done /\ (done => \A u \in Table : left[u] = 0) /\ \A u \in closed : Rest(u) = 0
      BY <3>1 DEF ThreadTake, ServerInv, EndInv
    <3> QED
      BY <3>2, <3>3, CloseKeeps, Zenon
  <2>2. CASE queue[table[th]] # <<>>
    <3>1. /\ AnswerFront(th) /\ pc[th] \in {"taking", "locking"}
          /\ UNCHANGED <<clientVars, table, runningQuery, done, left>>
      BY <1>7, <2>2 DEF MainTake, ThreadTake
    <3> QED
      BY <2>2, <3>1, FrontKeeps
  <2> QED
    BY <2>1, <2>2
<1>8. ASSUME NEW t \in Table, Push(t) PROVE Kept
  BY <1>8, PushKeeps
<1>9. CASE UNCHANGED vars
  <2>1. UNCHANGED <<work, query, closed, pc, table, runningQuery, queue, left, handed, batchesSeen>>
    BY <1>9 DEF vars, clientVars
  <2>2. QueueInv' /\ HandedInv' /\ SeenInv' /\ \A t : Rest(t)' = Rest(t)
    BY <2>1, QueuesAlone DEF ServerInv
  <2>3. CleanStart' /\ TakeInv'
    BY <2>1 DEF ServerInv, CleanStart, TakeInv
  <2>4. EndInv'
    BY <1>9, <2>2 DEF vars, clientVars, ServerInv, EndInv
  <2> QED
    BY <2>2, <2>3, <2>4
<1> QED
  BY <1>1, <1>2, <1>3, <1>4, <1>5, <1>6, <1>7, <1>8, <1>9 DEF Next, ThreadStep

(* The invariant, for every number of threads, queries and chunks.         *)
THEOREM Invariance == ASSUME Discipline PROVE Spec => [](TypeOK /\ ServerInv)
<1>1. Init => TypeOK /\ ServerInv
  <2> SUFFICES ASSUME Init, TypeOK, CallsInv PROVE ServerInv
    <3>1. Init => TypeOK /\ CallsInv
      BY InitType
    <3> QED
      BY <3>1
  <2>1. CleanStart /\ QueueInv /\ SeenInv /\ TakeInv
    BY DEF Init, CleanStart, QueueInv, SeenInv, TakeInv
  <2>2. HandedInv
    BY DEF Init, HandedInv
  <2>3. EndInv
    BY DEF Init, EndInv
  <2> QED
    BY <2>1, <2>2, <2>3 DEF ServerInv
<1>2. TypeOK /\ ServerInv /\ [Next]_vars => (TypeOK /\ ServerInv)'
  <2> SUFFICES ASSUME TypeOK, ServerInv, [Next]_vars PROVE (TypeOK /\ ServerInv)'
    OBVIOUS
  <2>1. TypeOK' /\ CallsInv'
    BY TypeStep DEF ServerInv
  <2>2. CleanStart' /\ QueueInv' /\ HandedInv' /\ SeenInv' /\ EndInv' /\ TakeInv'
    BY ServerStep
  <2> QED
    BY <2>1, <2>2 DEF ServerInv
<1> QED
  BY <1>1, <1>2, PTL DEF Spec

(* A chunk goes to a call for its own query and its own table.             *)
THEOREM ChunksReachTheirCall == ASSUME Discipline PROVE Spec => []OwnChunks
<1>1. ServerInv => OwnChunks
  <2>1. ASSUME NEW h, h = Answer(h.query, h.table, h.chunk.number)
        PROVE  h.chunk.query = h.query /\ h.chunk.table = h.table
    <3>1. h.chunk = [query |-> h.query, table |-> h.table, number |-> h.chunk.number]
      BY <2>1 DEF Answer
    <3> QED
      BY <3>1
  <2> QED
    BY <2>1 DEF ServerInv, HandedInv, OwnChunks
<1> QED
  BY <1>1, Invariance, PTL

(* A chunk leaves its queue when it is handed out and is queued once,      *)
(* however the threads and the merges interleave.                          *)
THEOREM ChunksOnce == ASSUME Discipline PROVE Spec => []HandedOutOnce
<1>1. TypeOK /\ ServerInv => HandedOutOnce
  <2> SUFFICES ASSUME TypeOK, ServerInv, NEW t \in Table, NEW i \in DOMAIN queue[t]
               PROVE  /\ \A h \in handed : queue[t][i] # h.chunk
                      /\ \A u \in Table : \A j \in DOMAIN queue[u] :
                           queue[t][i] = queue[u][j] => t = u /\ i = j
    BY DEF HandedOutOnce
  <2>1. \A u \in Table : \A j \in DOMAIN queue[u] :
          /\ queue[u][j] = [query |-> query, table |-> u, number |-> Rest(u) + 1 - j]
          /\ j \in Nat /\ j >= 1 /\ j <= Rest(u) /\ Rest(u) \in Nat
    <3> TAKE u \in Table
    <3> TAKE j \in DOMAIN queue[u]
    <3>1. queue[u][j] = [query |-> query, table |-> u, number |-> Rest(u) + 1 - j]
      BY DEF ServerInv, QueueInv
    <3>2. /\ left[u] \in Nat /\ Len(queue[u]) \in Nat /\ j \in 1 .. Len(queue[u])
          /\ Rest(u) = left[u] + Len(queue[u])
      BY RestType
    <3> QED
      BY <3>1, <3>2
  <2>2. runningQuery = query /\ query > 0
    <3>1. queue[t] # <<>>
      OBVIOUS
    <3> QED
      BY <3>1 DEF ServerInv, CleanStart, TypeOK
  <2>3. ASSUME NEW h \in handed, queue[t][i] = h.chunk PROVE FALSE
    <3>1. h = Answer(h.query, h.table, h.chunk.number)
      BY DEF ServerInv, HandedInv
    <3>2. h.chunk = [query |-> h.query, table |-> h.table, number |-> h.chunk.number]
      BY <3>1 DEF Answer
    <3>3. h.chunk = [query |-> query, table |-> t, number |-> Rest(t) + 1 - i]
      BY <2>1, <2>3
    <3>4. h.query = query /\ h.table = t /\ h.chunk.number = Rest(t) + 1 - i
      BY ONLY <3>2, <3>3
    <3>5. PICK n \in Nat : n = h.chunk.number
      BY DEF TypeOK, Chunk
    <3>6. Answer(query, t, n) \in handed
      BY <3>1, <3>4, <3>5
    <3>7. n \in Rest(t) + 1 .. work.chunks[query][t]
      BY <2>2, <3>6 DEF ServerInv, HandedInv
    <3>8. Rest(t) \in Nat /\ i \in Nat /\ i >= 1 /\ n = Rest(t) + 1 - i
      BY <2>1, <3>4, <3>5
    <3>9. n >= Rest(t) + 1
      BY <3>7, <3>8
    <3> QED
      BY <3>8, <3>9
  <2>4. ASSUME NEW u \in Table, NEW j \in DOMAIN queue[u], queue[t][i] = queue[u][j]
        PROVE  t = u /\ i = j
    <3>1. [query |-> query, table |-> t, number |-> Rest(t) + 1 - i]
            = [query |-> query, table |-> u, number |-> Rest(u) + 1 - j]
      BY <2>1, <2>4
    <3>2. t = u /\ Rest(t) + 1 - i = Rest(u) + 1 - j
      BY ONLY <3>1
    <3>3. Rest(t) \in Nat /\ i \in Nat /\ j \in Nat
      BY <2>1
    <3> QED
      BY <3>2, <3>3
  <2> QED
    BY <2>3, <2>4
<1> QED
  BY <1>1, Invariance, PTL

(* The main thread finds the chunk it saw when it looked at the queue      *)
(* without the lock.                                                       *)
THEOREM MainThreadIsSafe == ASSUME Discipline PROVE Spec => []NeverCrashes
<1>1. ServerInv => NeverCrashes
  BY DEF ServerInv, TakeInv, NeverCrashes
<1> QED
  BY <1>1, Invariance, PTL

(* An empty answer means that every chunk of the table has been handed     *)
(* out, although the call looked at a flag or a counter without the lock.  *)
THEOREM EmptyIsTheEnd == ASSUME Discipline PROVE Spec => []EmptyMeansAll
<1>1. TypeOK /\ ServerInv => EmptyMeansAll
  <2> SUFFICES ASSUME TypeOK, ServerInv, query > 0, NEW t \in closed
               PROVE  Cardinality({h \in handed : h.query = query /\ h.table = t}) = work.chunks[query][t]
    BY DEF EmptyMeansAll
  <2>1. t \in Table /\ Rest(t) = 0 /\ runningQuery = query /\ query \in 1 .. MaxQuery
    <3>1. t \in Table /\ query \in 1 .. MaxQuery
      BY ServerAssumption DEF TypeOK
    <3> QED
      BY <3>1 DEF ServerInv, EndInv, CleanStart
  <2>2. PICK c \in Nat : c = work.chunks[query][t]
    BY <2>1, WorkRules
  <2> DEFINE A == {h \in handed : h.query = query /\ h.table = t}
  <2> DEFINE f == [n \in 1 .. c |-> Answer(query, t, n)]
  <2>3. \A n \in Nat : Answer(query, t, n) \in handed <=> n \in 1 .. c
    BY <2>1, <2>2 DEF ServerInv, HandedInv
  <2>4. f \in [1 .. c -> A]
    BY <2>3 DEF Answer
  <2>5. \A n, m \in 1 .. c : f[n] = f[m] => n = m
    BY AnswerParts
  <2>6. ASSUME NEW h \in A PROVE \E n \in 1 .. c : f[n] = h
    <3>1. h = Answer(query, t, h.chunk.number) /\ h.chunk.number \in Nat
      BY DEF ServerInv, HandedInv, TypeOK, Chunk
    <3>2. h.chunk.number \in 1 .. c
      BY <2>3, <3>1
    <3> QED
      BY <3>1, <3>2
  <2> HIDE DEF A, f
  <2>7. f \in Bijection(1 .. c, A)
    BY <2>4, <2>5, <2>6 DEF Bijection, Injection, Surjection, IsInjective
  <2>8. ExistsBijection(1 .. c, A)
    BY <2>7 DEF ExistsBijection
  <2>9. IsFiniteSet(1 .. c) /\ Cardinality(1 .. c) = c
    BY FS_Interval
  <2>10. Cardinality(A) = c
    BY <2>8, <2>9, FS_Bijection
  <2> QED
    BY <2>2, <2>10 DEF A
<1> QED
  BY <1>1, Invariance, PTL
=============================================================================
