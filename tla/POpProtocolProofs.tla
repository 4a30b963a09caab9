------------------------- MODULE POpProtocolProofs -------------------------
(***************************************************************************)
(* Proofs, for every plan, that an execution loses no message and          *)
(* implements QueryLifecycle.                                              *)
(***************************************************************************)
EXTENDS POpProtocol, TLAPS, SequenceTheorems

(* The inductive invariant.  Its parts speak of channels c, buffers b and  *)
(* directories dn, so that they can be stated of the moment at which a     *)
(* message has been taken and not yet handled.                             *)

Connected(o) == entries[o] = Producers(o) \cup Consumers[o]

(* CONNECT comes before START, and only connected operators run.           *)
ConnectInv ==
    \A o \in Op :
        /\ entries[o] \subseteq Producers(o) \cup Consumers[o]
        /\ status[o] \in {"scanning", "running"} \/ complete[o] => Connected(o)
        /\ status[o] \in {"idle", "scanning"} => ~complete[o]
        /\ status[o] = "scanning" => Kind[o] = "scan"
        /\ \A i \in 1 .. Len(chan[Root][o]) : chan[Root][o][i] = "START" =>
               \/ i = 1 /\ Connected(o)
               \/ i = 2 /\ chan[Root][o][1] = "CONNECT"

(* Which messages two operators exchange.                                  *)
Allowed(s, d, m) ==
    \/ m \in {"TUPLE", "COMPLETE"} /\ d \in Consumers[s]
    \/ m = "LOAD_REQUEST" /\ Kind[d] = "cacheHandler" /\ s \in Consumers[d]
    \/ m = "LOAD_RESPONSE" /\ Kind[s] = "cacheHandler" /\ d \in Consumers[s] \cup {s}

Vocabulary(c, b) ==
    /\ \A s, d \in Op : \A i \in 1 .. Len(c[s][d]) : Allowed(s, d, c[s][d][i])
    /\ \A d \in Op : \A i \in 1 .. Len(b[d]) : Allowed(b[d][i].src, d, b[d][i].type)

NotBuffered(b, p, o) == \A j \in 1 .. Len(b[o]) : b[o][j].src # p

(* A COMPLETE message is the last its sender ever sends on an edge, and    *)
(* what the consumer has marked complete has nothing more to deliver.      *)
CompleteIsLast(c, b, dn) ==
    \A p \in Op : \A o \in Consumers[p] :
        /\ \A i \in 1 .. Len(c[p][o]) : c[p][o][i] = "COMPLETE" => complete[p] /\ i = Len(c[p][o])
        /\ \A i \in 1 .. Len(b[o]) : b[o][i].src = p /\ b[o][i].type = "COMPLETE" =>
               /\ complete[p]
               /\ c[p][o] = <<>>
               /\ \A j \in 1 .. Len(b[o]) : b[o][j].src = p => j <= i
        /\ p \in dn[o] => complete[p] /\ c[p][o] = <<>> /\ NotBuffered(b, p, o)

AfterProducers == \A o \in Op : complete[o] => Producers(o) \subseteq done[o]

(* The one load request of a DeltaMerge: not sent yet, on its way to the   *)
(* cache handler, kept there, being answered, or answered.                 *)
Sent(c, s, d) == Len(c[s][d])
Kept(b, h) == Len(b[h])
Answered(h) == IF complete[h] THEN 1 ELSE 0

Token(c, b, o, h) == Sent(c, o, h) + Kept(b, h) + Sent(c, h, h) + Answered(h)

OneRequest(c, b) ==
    \A h \in Op : Kind[h] = "cacheHandler" =>
        \A o \in Consumers[h] :
            Token(c, b, o, h) <= (IF status[o] = "idle" THEN 0 ELSE 1)

(* What the root actor has been told, and what it believes.                *)
RootInv ==
    /\ \A o \in Op : \A i \in 1 .. Len(chan[o][Root]) :
           /\ chan[o][Root][i] = "COMPLETE" => complete[o]
           /\ chan[o][Root][i] = "ERROR" => status[o] = "failed"
    /\ \A o \in rootDone : complete[o]
    /\ root \in {"joined", "closed"} => rootDone = Op

IInv ==
    /\ TypeOK
    /\ ConnectInv
    /\ Vocabulary(chan, buffer)
    /\ CompleteIsLast(chan, buffer, done)
    /\ AfterProducers
    /\ OneRequest(chan, buffer)
    /\ RootInv

-----------------------------------------------------------------------------
(* Sequences and channels.                                                 *)

Chans == [Node -> [Node -> Seq(MsgType)]]

(* What Tail and Head give at each index.                                  *)
LEMMA TailFacts ==
    ASSUME NEW S, NEW q \in Seq(S), q # <<>>
    PROVE  /\ Tail(q) \in Seq(S) /\ Len(Tail(q)) = Len(q) - 1
           /\ Head(q) = q[1] /\ Len(q) \in Nat \ {0}
           /\ \A i \in 1 .. Len(Tail(q)) : i + 1 \in 1 .. Len(q) /\ Tail(q)[i] = q[i + 1]
  OBVIOUS

(* What concatenation gives at each index.                                 *)
LEMMA ConcatFacts ==
    ASSUME NEW S, NEW q \in Seq(S), NEW r \in Seq(S)
    PROVE  /\ q \o r \in Seq(S) /\ Len(q \o r) = Len(q) + Len(r)
           /\ \A i \in 1 .. Len(q) : (q \o r)[i] = q[i]
           /\ \A i \in 1 .. Len(r) : (q \o r)[Len(q) + i] = r[i]
           /\ \A i \in 1 .. Len(q \o r) : i \in 1 .. Len(q) \/ i - Len(q) \in 1 .. Len(r)
           /\ \A i \in 1 .. Len(q \o r) :
                (q \o r)[i] = IF i <= Len(q) THEN q[i] ELSE r[i - Len(q)]
  OBVIOUS

(* What Append gives at each index.                                        *)
LEMMA AppendFacts ==
    ASSUME NEW S, NEW q \in Seq(S), NEW e \in S
    PROVE  /\ Append(q, e) \in Seq(S) /\ Len(Append(q, e)) = Len(q) + 1
           /\ \A i \in 1 .. Len(q) : Append(q, e)[i] = q[i]
           /\ Append(q, e)[Len(q) + 1] = e
           /\ Append(q, e) # <<>>
  OBVIOUS

(* Taking a message shortens one channel.                                  *)
LEMMA TakeFacts ==
    ASSUME TypeOK, NEW s \in Node, NEW d \in Node, chan[s][d] # <<>>
    PROVE  /\ Take(s, d) \in Chans
           /\ \A x, y \in Node :
                Take(s, d)[x][y] = IF x = s /\ y = d THEN Tail(chan[s][d]) ELSE chan[x][y]
<1>1. chan \in Chans  BY DEF TypeOK, Chans
<1>2. Tail(chan[s][d]) \in Seq(MsgType)  BY <1>1, TailFacts DEF Chans
<1> QED  BY <1>1, <1>2 DEF Take, Chans

(* Delivering appends to the channels of one sender.                       *)
LEMMA DeliverFacts ==
    ASSUME NEW c \in Chans, NEW o \in Op,
           NEW msgs \in Seq(MsgType), NEW toRoot \in Seq(MsgType)
    PROVE  /\ Deliver(c, o, msgs, toRoot) \in Chans
           /\ \A x, y \in Node :
                Deliver(c, o, msgs, toRoot)[x][y] =
                    IF x = o /\ y \in Consumers[o] THEN c[x][y] \o msgs
                    ELSE IF x = o /\ y = Root THEN c[x][y] \o toRoot ELSE c[x][y]
<1>1. \A d \in Node : c[o][d] \o msgs \in Seq(MsgType) /\ c[o][d] \o toRoot \in Seq(MsgType)
  BY ConcatFacts DEF Chans, Node
<1> QED  BY <1>1, PlanAssumption DEF Deliver, Chans, Node

(* Sending appends to one channel.                                         *)
LEMMA SendToFacts ==
    ASSUME NEW c \in Chans, NEW o \in Node, NEW d \in Node, NEW m \in MsgType
    PROVE  /\ SendTo(c, o, d, m) \in Chans
           /\ \A x, y \in Node :
                SendTo(c, o, d, m)[x][y] = IF x = o /\ y = d THEN Append(c[o][d], m) ELSE c[x][y]
<1>1. Append(c[o][d], m) \in Seq(MsgType)  BY AppendFacts DEF Chans
<1> QED  BY <1>1 DEF SendTo, Chans

(* An exit message is appended to what the root sends each operator.       *)
LEMMA SendExitFacts ==
    ASSUME NEW c \in Chans
    PROVE  /\ SendExit(c) \in Chans
           /\ \A x, y \in Node :
                SendExit(c)[x][y] = IF x = Root /\ y \in Op THEN Append(c[x][y], "EXIT") ELSE c[x][y]
<1>1. \A d \in Node : Append(c[Root][d], "EXIT") \in Seq(MsgType)
  BY AppendFacts DEF Chans, Node, MsgType
<1> QED  BY <1>1 DEF SendExit, Chans, Node

-----------------------------------------------------------------------------
(* What an operator sends keeps the invariant.                             *)

Buffers == [Op -> Seq([src : Op, type : MsgType])]

(* The parts of the invariant that sending can disturb.                    *)
SendInv(c, b, dn) ==
    /\ c \in Chans
    /\ Vocabulary(c, b)
    /\ CompleteIsLast(c, b, dn)
    /\ OneRequest(c, b)

(* A cache handler has no producer, so nothing is told to it.              *)
LEMMA HandlerHasNoProducer ==
    ASSUME NEW o \in Op, NEW h \in Consumers[o]
    PROVE  h \in Op /\ Kind[h] \notin {"scan", "cacheHandler"} /\ h # o /\ h # Root
<1>1. h \in Op /\ o \in Producers(h)  BY PlanAssumption DEF Producers
<1> QED  BY <1>1, PlanAssumption

(* Sums of four terms of which one is smaller by one, or none: the token   *)
(* when a message is taken from a channel, or (below) from a buffer.       *)
LEMMA SumDrops ==
    ASSUME NEW a \in Nat, NEW k \in Nat, NEW e \in Nat, NEW n \in Nat,
           NEW a1 \in Nat, NEW e1 \in Nat
    PROVE  /\ a1 = a - 1 /\ e1 = e => a1 + k + e1 + n = a + k + e + n - 1
           /\ a1 = a /\ e1 = e - 1 => a1 + k + e1 + n = a + k + e + n - 1
           /\ (a1 = a \/ a1 = a - 1) /\ (e1 = e \/ e1 = e - 1) => a1 + k + e1 + n <= a + k + e + n
  OBVIOUS

(* The same for the second term.                                           *)
LEMMA SumDropsMiddle ==
    ASSUME NEW a \in Nat, NEW k \in Nat, NEW e \in Nat, NEW n \in Nat, NEW k1 \in Nat, k1 = k - 1
    PROVE  a + k1 + e + n = a + k + e + n - 1
  OBVIOUS

(* The four terms of Token are natural numbers.                            *)
LEMMA TokenTerms ==
    ASSUME NEW c \in Chans, NEW b \in Buffers, NEW o \in Op, NEW h \in Op
    PROVE  /\ Sent(c, o, h) \in Nat /\ Kept(b, h) \in Nat /\ Sent(c, h, h) \in Nat
           /\ Answered(h) \in Nat
           /\ Token(c, b, o, h) \in Nat
<1>1. c[o][h] \in Seq(MsgType) /\ c[h][h] \in Seq(MsgType)  BY DEF Chans, Node
<1>2. b[h] \in Seq([src : Op, type : MsgType])  BY DEF Buffers
<1>3. Sent(c, o, h) \in Nat /\ Sent(c, h, h) \in Nat  BY <1>1 DEF Sent
<1>4. Kept(b, h) \in Nat  BY <1>2 DEF Kept
<1>5. Answered(h) \in Nat  BY DEF Answered
<1> QED  BY <1>3, <1>4, <1>5 DEF Token

(* No operator starts in this step.                                        *)
SameIdle == \A x \in Op : status'[x] = "idle" <=> status[x] = "idle"

(* Telling a batch before completion keeps the invariant.                  *)
LEMMA TellKeeps ==
    ASSUME NEW c, NEW b \in Buffers, NEW dn \in [Op -> SUBSET Op], SendInv(c, b, dn),
           NEW o \in Op, ~complete[o], NEW out \in Output, Tell(c, o, out),
           buffer' = b, done' = dn, UNCHANGED complete,
           SameIdle
    PROVE  /\ SendInv(chan, buffer, done)'
           /\ \A x \in Op : chan'[x][Root] = c[x][Root] /\ chan'[Root][x] = c[Root][x]
<1>1. out \in Seq(MsgType) /\ \A i \in 1 .. Len(out) : out[i] = "TUPLE"
  <2>1. CASE out = <<>>  BY <2>1
  <2>2. CASE out = <<"TUPLE">>  BY <2>2 DEF MsgType
  <2> QED  BY <2>1, <2>2 DEF Output
<1>2. <<>> \in Seq(MsgType)  OBVIOUS
<1>3. chan' = Deliver(c, o, out, <<>>)  BY DEF Tell
<1>4. c \in Chans  BY DEF SendInv
<1>5. /\ chan' \in Chans
      /\ \A x, y \in Node :
            chan'[x][y] = IF x = o /\ y \in Consumers[o] THEN c[x][y] \o out
                          ELSE IF x = o /\ y = Root THEN c[x][y] \o <<>> ELSE c[x][y]
  <2>1. \A r \in Seq(MsgType) :
          /\ Deliver(c, o, out, r) \in Chans
          /\ \A x, y \in Node :
               Deliver(c, o, out, r)[x][y] =
                   IF x = o /\ y \in Consumers[o] THEN c[x][y] \o out
                   ELSE IF x = o /\ y = Root THEN c[x][y] \o r ELSE c[x][y]
    BY <1>1, <1>4, DeliverFacts
  <2> QED  BY <2>1, <1>2, <1>3, Zenon
<1>6. \A x, y \in Node : c[x][y] \in Seq(MsgType) /\ c[x][y] \o <<>> = c[x][y]
  BY <1>4 DEF Chans
<1>7. \A x \in Op : chan'[x][Root] = c[x][Root] /\ chan'[Root][x] = c[Root][x]
  BY <1>5, <1>6, PlanAssumption DEF Node
<1>8. \A y \in Op : y \notin Consumers[o] => chan'[o][y] = c[o][y]
  BY <1>5, PlanAssumption DEF Node
<1>9. \A x, y \in Op : x # o => chan'[x][y] = c[x][y]
  BY <1>5 DEF Node
<1>10. \A y \in Consumers[o] :
          /\ y \in Op
          /\ chan'[o][y] = c[o][y] \o out
          /\ \A i \in 1 .. Len(chan'[o][y]) :
                chan'[o][y][i] = "TUPLE" \/ (i \in 1 .. Len(c[o][y]) /\ chan'[o][y][i] = c[o][y][i])
  <2> SUFFICES ASSUME NEW y \in Consumers[o]
               PROVE  /\ y \in Op
                      /\ chan'[o][y] = c[o][y] \o out
                      /\ \A i \in 1 .. Len(chan'[o][y]) :
                           chan'[o][y][i] = "TUPLE" \/ (i \in 1 .. Len(c[o][y]) /\ chan'[o][y][i] = c[o][y][i])
    OBVIOUS
  <2>1. y \in Op  BY PlanAssumption
  <2>2. chan'[o][y] = c[o][y] \o out  BY <2>1, <1>5 DEF Node
  <2>3. c[o][y] \in Seq(MsgType)  BY <2>1, <1>6 DEF Node
  <2> QED  BY <2>1, <2>2, <2>3, <1>1, ConcatFacts
<1>11. Vocabulary(chan', b)
  <2>1. \A x, y \in Op : \A i \in 1 .. Len(chan'[x][y]) : Allowed(x, y, chan'[x][y][i])
    <3> SUFFICES ASSUME NEW x \in Op, NEW y \in Op, NEW i \in 1 .. Len(chan'[x][y])
                 PROVE  Allowed(x, y, chan'[x][y][i])
      OBVIOUS
    <3>1. \A j \in 1 .. Len(c[x][y]) : Allowed(x, y, c[x][y][j])  BY DEF SendInv, Vocabulary
    <3>2. CASE x = o /\ y \in Consumers[o]
      <4>1. CASE chan'[x][y][i] = "TUPLE"  BY <3>2, <4>1 DEF Allowed
      <4>2. CASE i \in 1 .. Len(c[o][y]) /\ chan'[o][y][i] = c[o][y][i]  BY <3>1, <3>2, <4>2
      <4> QED  BY <3>2, <4>1, <4>2, <1>10
    <3>3. CASE ~(x = o /\ y \in Consumers[o])  BY <3>1, <3>3, <1>8, <1>9
    <3> QED  BY <3>2, <3>3
  <2> QED  BY <2>1 DEF SendInv, Vocabulary
<1>12. CompleteIsLast(chan, buffer, done)'
  <2> SUFFICES ASSUME NEW p \in Op, NEW y \in Consumers[p]
               PROVE  CompleteIsLast(chan, buffer, done)!(p)!(y)'
    BY DEF CompleteIsLast
  <2>1. y \in Op  BY PlanAssumption
  <2>2. CompleteIsLast(c, b, dn)!(p)!(y)  BY DEF SendInv, CompleteIsLast
  <2>3. CASE p = o  BY <2>1, <2>2, <2>3, <1>10
  <2>4. CASE p # o  BY <2>1, <2>2, <2>4, <1>9 DEF NotBuffered
  <2> QED  BY <2>3, <2>4
<1>13. OneRequest(chan, buffer)'
  <2> SUFFICES ASSUME NEW h \in Op, Kind[h] = "cacheHandler", NEW x \in Consumers[h]
               PROVE  (Token(chan, buffer, x, h) <= IF status[x] = "idle" THEN 0 ELSE 1)'
    BY DEF OneRequest
  <2>1. h \notin Consumers[o] /\ x \in Op  BY HandlerHasNoProducer
  <2>2. Token(chan, buffer, x, h)' = Token(c, b, x, h)  BY <2>1, <1>8, <1>9 DEF Token, Sent, Kept, Answered
  <2>3. Token(c, b, x, h) <= IF status[x] = "idle" THEN 0 ELSE 1  BY DEF SendInv, OneRequest
  <2> QED  BY <2>1, <2>2, <2>3 DEF SameIdle
<1> QED  BY <1>5, <1>7, <1>11, <1>12, <1>13 DEF SendInv

(* What an operator may tell as it completes.                              *)
LastOutput(o) == Output \cup {m \in {<<"LOAD_RESPONSE">>} : Kind[o] = "cacheHandler"}

(* A cache handler that handles a message holds the one request.           *)
HoldsRequest(c, b, o) ==
    Kind[o] = "cacheHandler" =>
        \A x \in Consumers[o] : Token(c, b, x, o) = 0 /\ status[x] # "idle"

(* The root is told that o completed, and nothing else.                    *)
RootHears(c, o) ==
    \A x \in Op :
        /\ chan'[Root][x] = c[Root][x]
        /\ chan'[x][Root] = IF x = o THEN c[x][Root] \o <<"COMPLETE">> ELSE c[x][Root]

(* Completing, once all the producers have, keeps the invariant: COMPLETE  *)
(* becomes the last message on every edge of the operator.  A cache        *)
(* handler completes holding the one request.                              *)
LEMMA CompleteKeeps ==
    ASSUME NEW c, NEW b \in Buffers, NEW dn \in [Op -> SUBSET Op], SendInv(c, b, dn),
           NEW o \in Op, ~complete[o], complete \in [Op -> BOOLEAN],
           NEW out \in LastOutput(o), HoldsRequest(c, b, o),
           NotifyComplete(c, o, out), buffer' = b, done' = dn,
           SameIdle
    PROVE  /\ SendInv(chan, buffer, done)'
           /\ complete' = [complete EXCEPT ![o] = TRUE]
           /\ RootHears(c, o)
<1> DEFINE msgs == out \o <<"COMPLETE">>
<1>1. /\ msgs \in Seq(MsgType) /\ Len(msgs) >= 1 /\ msgs[Len(msgs)] = "COMPLETE"
      /\ \A i \in 1 .. Len(msgs) : Len(msgs) # i => (msgs[i] = "TUPLE" \/ (msgs[i] = "LOAD_RESPONSE" /\ Kind[o] = "cacheHandler"))
      /\ \A i \in 1 .. Len(msgs) : msgs[i] = "COMPLETE" => i = Len(msgs)
  <2>1. CASE out = <<>>  BY <2>1 DEF MsgType
  <2>2. CASE out = <<"TUPLE">>  BY <2>2 DEF MsgType
  <2>3. CASE out = <<"LOAD_RESPONSE">> /\ Kind[o] = "cacheHandler"  BY <2>3 DEF MsgType
  <2> QED  BY <2>1, <2>2, <2>3 DEF Output, LastOutput
<1>2. <<"COMPLETE">> \in Seq(MsgType)  BY DEF MsgType
<1>3. chan' = Deliver(c, o, msgs, <<"COMPLETE">>) /\ complete' = [complete EXCEPT ![o] = TRUE]
  BY DEF NotifyComplete
<1> HIDE DEF msgs
<1>4. c \in Chans  BY DEF SendInv
<1>5. /\ chan' \in Chans
      /\ \A x, y \in Node :
            chan'[x][y] = IF x = o /\ y \in Consumers[o] THEN c[x][y] \o msgs
                          ELSE IF x = o /\ y = Root THEN c[x][y] \o <<"COMPLETE">> ELSE c[x][y]
  <2>1. \A r \in Seq(MsgType) :
          /\ Deliver(c, o, msgs, r) \in Chans
          /\ \A x, y \in Node :
               Deliver(c, o, msgs, r)[x][y] =
                   IF x = o /\ y \in Consumers[o] THEN c[x][y] \o msgs
                   ELSE IF x = o /\ y = Root THEN c[x][y] \o r ELSE c[x][y]
    BY <1>1, <1>4, DeliverFacts
  <2> QED  BY <2>1, <1>2, <1>3, Zenon
<1>6. \A x, y \in Node : c[x][y] \in Seq(MsgType)
  BY <1>4 DEF Chans
<1>7. \A x \in Op : /\ chan'[Root][x] = c[Root][x]
                    /\ chan'[x][Root] = IF x = o THEN c[x][Root] \o <<"COMPLETE">> ELSE c[x][Root]
  BY <1>5, PlanAssumption DEF Node
<1>8. \A y \in Op : y \notin Consumers[o] => chan'[o][y] = c[o][y]
  BY <1>5, PlanAssumption DEF Node
<1>9. \A x, y \in Op : x # o => chan'[x][y] = c[x][y]
  BY <1>5 DEF Node
<1>10. \A y \in Consumers[o] :
          /\ y \in Op
          /\ chan'[o][y] = c[o][y] \o msgs
          /\ chan'[o][y] \in Seq(MsgType) /\ Len(chan'[o][y]) = Len(c[o][y]) + Len(msgs)
          /\ Len(c[o][y]) \in Nat /\ Len(msgs) \in Nat
          /\ \A i \in 1 .. Len(chan'[o][y]) :
                \/ i \in 1 .. Len(c[o][y]) /\ chan'[o][y][i] = c[o][y][i]
                \/ i - Len(c[o][y]) \in 1 .. Len(msgs) /\ chan'[o][y][i] = msgs[i - Len(c[o][y])]
  <2> SUFFICES ASSUME NEW y \in Consumers[o] PROVE <1>10!(y)
    OBVIOUS
  <2>1. y \in Op  BY PlanAssumption
  <2>2. chan'[o][y] = c[o][y] \o msgs  BY <2>1, <1>5 DEF Node
  <2>3. c[o][y] \in Seq(MsgType)  BY <2>1, <1>6 DEF Node
  <2> QED  BY <2>1, <2>2, <2>3, <1>1, ConcatFacts
<1>11. Vocabulary(chan', b)
  <2>1. \A x, y \in Op : \A i \in 1 .. Len(chan'[x][y]) : Allowed(x, y, chan'[x][y][i])
    <3> SUFFICES ASSUME NEW x \in Op, NEW y \in Op, NEW i \in 1 .. Len(chan'[x][y])
                 PROVE  Allowed(x, y, chan'[x][y][i])
      OBVIOUS
    <3>1. \A j \in 1 .. Len(c[x][y]) : Allowed(x, y, c[x][y][j])  BY DEF SendInv, Vocabulary
    <3>2. CASE x = o /\ y \in Consumers[o]
      <4>1. CASE i \in 1 .. Len(c[o][y]) /\ chan'[o][y][i] = c[o][y][i]  BY <3>1, <3>2, <4>1
      <4>2. CASE i - Len(c[o][y]) \in 1 .. Len(msgs) /\ chan'[o][y][i] = msgs[i - Len(c[o][y])]
        <5>1. \/ chan'[x][y][i] \in {"TUPLE", "COMPLETE"}
              \/ chan'[x][y][i] = "LOAD_RESPONSE" /\ Kind[o] = "cacheHandler"
          BY <1>1, <3>2, <4>2
        <5> QED  BY <3>2, <5>1 DEF Allowed
      <4> QED  BY <3>2, <4>1, <4>2, <1>10
    <3>3. CASE ~(x = o /\ y \in Consumers[o])  BY <3>1, <3>3, <1>8, <1>9
    <3> QED  BY <3>2, <3>3
  <2> QED  BY <2>1 DEF SendInv, Vocabulary
<1>12. CompleteIsLast(chan, buffer, done)'
  <2> SUFFICES ASSUME NEW p \in Op, NEW y \in Consumers[p]
               PROVE  CompleteIsLast(chan, buffer, done)!(p)!(y)'
    BY DEF CompleteIsLast
  <2>1. y \in Op  BY PlanAssumption
  <2>2. CompleteIsLast(c, b, dn)!(p)!(y)  BY DEF SendInv, CompleteIsLast
  <2>3. CASE p = o
    <3>1. \A i \in 1 .. Len(c[o][y]) : c[o][y][i] # "COMPLETE"  BY <2>2, <2>3
    <3>2. complete'[p]  BY <1>3, <2>3
    <3>3. \A i \in 1 .. Len(chan'[p][y]) : chan'[p][y][i] = "COMPLETE" => i = Len(chan'[p][y])
      <4> SUFFICES ASSUME NEW i \in 1 .. Len(chan'[o][y]), chan'[o][y][i] = "COMPLETE"
                   PROVE  i = Len(chan'[o][y])
        BY <2>3
      <4>1. y \in Consumers[o]  BY <2>3
      <4>2. i - Len(c[o][y]) \in 1 .. Len(msgs) /\ chan'[o][y][i] = msgs[i - Len(c[o][y])]
        BY <1>10, <3>1, <4>1
      <4>3. i - Len(c[o][y]) = Len(msgs)  BY <1>1, <4>2
      <4> QED  BY <1>10, <4>1, <4>3
    <3>4. y \in Consumers[o] /\ o \notin dn[y]  BY <2>2, <2>3
    <3>5. \A i \in 1 .. Len(b[y]) : ~(b[y][i].src = p /\ b[y][i].type = "COMPLETE")  BY <2>2, <2>3
    <3> QED  BY <3>2, <3>3, <3>4, <3>5, <2>3
  <2>4. CASE p # o
    <3>1. complete'[p] = complete[p] /\ chan'[p][y] = c[p][y]  BY <1>3, <1>9, <2>1, <2>4
    <3> QED  BY <2>2, <3>1 DEF NotBuffered
  <2> QED  BY <2>3, <2>4
<1>13. OneRequest(chan, buffer)'
  <2> SUFFICES ASSUME NEW h \in Op, Kind[h] = "cacheHandler", NEW x \in Consumers[h]
               PROVE  (Token(chan, buffer, x, h) <= IF status[x] = "idle" THEN 0 ELSE 1)'
    BY DEF OneRequest
  <2>1. h \notin Consumers[o] /\ x \in Op  BY HandlerHasNoProducer
  <2>2. chan'[x][h] = c[x][h] /\ chan'[h][h] = c[h][h]  BY <2>1, <1>8, <1>9
  <2>3. Token(c, b, x, h) <= IF status[x] = "idle" THEN 0 ELSE 1  BY DEF SendInv, OneRequest
  <2>4. CASE h = o
    <3>1. Token(c, b, x, h) = 0 /\ status'[x] # "idle"  BY <2>1, <2>4 DEF HoldsRequest, SameIdle
    <3>2. ~complete[h] /\ complete'[h]  BY <1>3, <2>4
    <3>3. /\ Sent(c, x, h) \in Nat /\ Kept(b, h) \in Nat /\ Sent(c, h, h) \in Nat
          /\ Sent(chan, x, h)' = Sent(c, x, h) /\ Sent(chan, h, h)' = Sent(c, h, h)
          /\ Kept(buffer, h)' = Kept(b, h)
      BY <1>4, <2>1, <2>2, TokenTerms DEF Sent, Kept
    <3>5. Answered(h) = 0 /\ Answered(h)' = 1  BY <3>2 DEF Answered
    <3>6. Token(chan, buffer, x, h)' = Token(c, b, x, h) + 1
      BY <3>3, <3>5 DEF Token
    <3> QED  BY <3>1, <3>6
  <2>5. CASE h # o
    <3>1. Token(chan, buffer, x, h)' = Token(c, b, x, h)  BY <1>3, <2>2, <2>5 DEF Token, Sent, Kept, Answered
    <3> QED  BY <2>1, <2>3, <3>1 DEF SameIdle
  <2> QED  BY <2>4, <2>5
<1> QED  BY <1>3, <1>5, <1>7, <1>11, <1>12, <1>13 DEF SendInv, RootHears

-----------------------------------------------------------------------------
(* Taking a message.                                                       *)

(* What is known of a message m of s that o has taken and not yet handled. *)
InHand(c, b, o, s, m) ==
    /\ Allowed(s, o, m)
    /\ o \in Consumers[s] => s \notin done[o]
    /\ m = "COMPLETE" => complete[s] /\ c[s][o] = <<>>
    /\ HoldsRequest(c, b, o)

(* A cache handler hears only from its DeltaMerge and from itself.         *)
LEMMA HandlerHears ==
    ASSUME NEW s \in Op, NEW h \in Op, Kind[h] = "cacheHandler", NEW m, Allowed(s, h, m)
    PROVE  s \in Consumers[h] \cup {h}
BY HandlerHasNoProducer DEF Allowed

(* The head of a channel is in hand, the rest keeps the invariant.         *)
LEMMA TakeFromChannel ==
    ASSUME IInv, NEW s \in Op, NEW o \in Op, chan[s][o] # <<>>
    PROVE  /\ SendInv(Take(s, o), buffer, done)
           /\ InHand(Take(s, o), buffer, o, s, Head(chan[s][o]))
           /\ \A x \in Op : Take(s, o)[x][Root] = chan[x][Root] /\ Take(s, o)[Root][x] = chan[Root][x]
<1> DEFINE c == Take(s, o)
           m == Head(chan[s][o])
<1>1. s \in Node /\ o \in Node  BY DEF Node
<1>2. /\ c \in Chans
      /\ \A x, y \in Node : c[x][y] = IF x = s /\ y = o THEN Tail(chan[s][o]) ELSE chan[x][y]
  BY <1>1, TakeFacts DEF IInv
<1>3. chan[s][o] \in Seq(MsgType) /\ \A x \in Op : chan[x][o] \in Seq(MsgType)
  BY <1>1 DEF IInv, TypeOK, Node
<1>a. c[s][o] = Tail(chan[s][o])  BY <1>1, <1>2
<1>4. /\ c[s][o] \in Seq(MsgType) /\ Len(c[s][o]) = Len(chan[s][o]) - 1
      /\ m = chan[s][o][1] /\ Len(chan[s][o]) \in Nat \ {0}
      /\ \A i \in 1 .. Len(c[s][o]) : i + 1 \in 1 .. Len(chan[s][o]) /\ c[s][o][i] = chan[s][o][i + 1]
  BY <1>a, <1>3, TailFacts
<1>5. \A x, y \in Op : ~(x = s /\ y = o) => c[x][y] = chan[x][y]
  BY <1>2 DEF Node
<1>6. \A x \in Op : c[x][Root] = chan[x][Root] /\ c[Root][x] = chan[Root][x]
  BY <1>2, PlanAssumption DEF Node
<1> HIDE DEF c, m
<1>7. Allowed(s, o, m)
  <2>1. \A i \in 1 .. Len(chan[s][o]) : Allowed(s, o, chan[s][o][i])  BY DEF IInv, Vocabulary
  <2> QED  BY <1>4, <2>1
<1>8. Vocabulary(c, buffer)
  <2>1. \A x, y \in Op : \A i \in 1 .. Len(chan[x][y]) : Allowed(x, y, chan[x][y][i])
    BY DEF IInv, Vocabulary
  <2>2. \A x, y \in Op : \A i \in 1 .. Len(c[x][y]) : Allowed(x, y, c[x][y][i])
    <3> SUFFICES ASSUME NEW x \in Op, NEW y \in Op, NEW i \in 1 .. Len(c[x][y])
                 PROVE  Allowed(x, y, c[x][y][i])
      OBVIOUS
    <3>1. CASE x = s /\ y = o
      <4>1. i + 1 \in 1 .. Len(chan[s][o]) /\ c[s][o][i] = chan[s][o][i + 1]  BY <1>4, <3>1
      <4> QED  BY <2>1, <3>1, <4>1
    <3>2. CASE ~(x = s /\ y = o)  BY <2>1, <1>5, <3>2
    <3> QED  BY <3>1, <3>2
  <2> QED  BY <2>2 DEF IInv, Vocabulary
<1>9. CompleteIsLast(c, buffer, done)
  <2> SUFFICES ASSUME NEW p \in Op, NEW y \in Consumers[p]
               PROVE  CompleteIsLast(c, buffer, done)!(p)!(y)
    BY DEF CompleteIsLast
  <2>1. y \in Op  BY PlanAssumption
  <2>2. CompleteIsLast(chan, buffer, done)!(p)!(y)  BY DEF IInv, CompleteIsLast
  <2>3. CASE p = s /\ y = o
    <3>1. chan[p][y] # <<>>  BY <2>3
    <3>2. \A i \in 1 .. Len(c[p][y]) : c[p][y][i] = "COMPLETE" => complete[p] /\ i = Len(c[p][y])
      <4> SUFFICES ASSUME NEW i \in 1 .. Len(c[s][o]), c[s][o][i] = "COMPLETE"
                   PROVE  complete[s] /\ i = Len(c[s][o])
        BY <2>3
      <4>1. i + 1 \in 1 .. Len(chan[s][o]) /\ chan[s][o][i + 1] = "COMPLETE"  BY <1>4
      <4>2. complete[s] /\ i + 1 = Len(chan[s][o])  BY <2>2, <2>3, <4>1
      <4> QED  BY <1>4, <4>2
    <3> QED  BY <2>2, <3>1, <3>2
  <2>4. CASE ~(p = s /\ y = o)  BY <1>5, <2>1, <2>2, <2>4
  <2> QED  BY <2>3, <2>4
<1>10. OneRequest(c, buffer)
  <2> SUFFICES ASSUME NEW h \in Op, Kind[h] = "cacheHandler", NEW x \in Consumers[h]
               PROVE  Token(c, buffer, x, h) <= IF status[x] = "idle" THEN 0 ELSE 1
    BY DEF OneRequest
  <2>1. x \in Op /\ x # h  BY HandlerHasNoProducer
  <2>2. Token(chan, buffer, x, h) <= IF status[x] = "idle" THEN 0 ELSE 1  BY DEF IInv, OneRequest
  <2>3. chan \in Chans /\ buffer \in Buffers  BY DEF IInv, TypeOK, Chans, Buffers
  <2>4. /\ Sent(chan, x, h) \in Nat /\ Kept(buffer, h) \in Nat /\ Sent(chan, h, h) \in Nat
        /\ Sent(c, x, h) \in Nat /\ Sent(c, h, h) \in Nat /\ Answered(h) \in Nat
    BY <1>2, <2>1, <2>3, TokenTerms
  <2>5. /\ Sent(c, x, h) = Sent(chan, x, h) \/ Sent(c, x, h) = Sent(chan, x, h) - 1
        /\ Sent(c, h, h) = Sent(chan, h, h) \/ Sent(c, h, h) = Sent(chan, h, h) - 1
    BY <1>4, <1>5, <2>1 DEF Sent
  <2>6. Token(c, buffer, x, h) <= Token(chan, buffer, x, h)  BY <2>4, <2>5, SumDrops DEF Token
  <2>7. Token(c, buffer, x, h) \in Nat /\ Token(chan, buffer, x, h) \in Nat
    BY <1>2, <2>1, <2>3, TokenTerms
  <2> QED  BY <2>2, <2>6, <2>7
<1>11. InHand(c, buffer, o, s, m)
  <2>1. o \in Consumers[s] => s \notin done[o]  BY DEF IInv, CompleteIsLast
  <2>2. ASSUME m = "COMPLETE"
        PROVE  complete[s] /\ c[s][o] = <<>>
    <3>1. o \in Consumers[s]  BY <1>7, <2>2 DEF Allowed
    <3>2. CompleteIsLast(chan, buffer, done)!(s)!(o)  BY <3>1 DEF IInv, CompleteIsLast
    <3>a. 1 \in 1 .. Len(chan[s][o]) /\ chan[s][o][1] = "COMPLETE"  BY <1>4, <2>2
    <3>3. complete[s] /\ Len(chan[s][o]) = 1  BY <3>2, <3>a
    <3>4. c[s][o] = <<>>  BY <1>4, <3>3
    <3> QED  BY <3>3, <3>4
  <2>3. ASSUME Kind[o] = "cacheHandler", NEW x \in Consumers[o]
        PROVE  Token(c, buffer, x, o) = 0 /\ status[x] # "idle"
    <3>1. x \in Op /\ x # o  BY HandlerHasNoProducer
    <3>2. s \in {x, o}
      <4>1. \E d \in Op : Consumers[o] = {d}  BY <2>3, HandlerAssumption
      <4> QED  BY <4>1, <1>7, <2>3, HandlerHears
    <3>3. Token(chan, buffer, x, o) <= IF status[x] = "idle" THEN 0 ELSE 1  BY <2>3 DEF IInv, OneRequest
    <3>4. chan \in Chans /\ buffer \in Buffers  BY DEF IInv, TypeOK, Chans, Buffers
    <3>5. /\ Sent(chan, x, o) \in Nat /\ Kept(buffer, o) \in Nat /\ Sent(chan, o, o) \in Nat
          /\ Sent(c, x, o) \in Nat /\ Sent(c, o, o) \in Nat /\ Answered(o) \in Nat
      BY <1>2, <3>1, <3>4, TokenTerms
    <3>6. \/ Sent(c, x, o) = Sent(chan, x, o) - 1 /\ Sent(c, o, o) = Sent(chan, o, o)
          \/ Sent(c, x, o) = Sent(chan, x, o) /\ Sent(c, o, o) = Sent(chan, o, o) - 1
      BY <1>4, <1>5, <3>1, <3>2 DEF Sent
    <3>7. Token(c, buffer, x, o) = Token(chan, buffer, x, o) - 1
      <4>1. CASE Sent(c, x, o) = Sent(chan, x, o) - 1 /\ Sent(c, o, o) = Sent(chan, o, o)
        BY <3>5, <4>1, SumDrops DEF Token
      <4>2. CASE Sent(c, x, o) = Sent(chan, x, o) /\ Sent(c, o, o) = Sent(chan, o, o) - 1
        BY <3>5, <4>2, SumDrops DEF Token
      <4> QED  BY <3>6, <4>1, <4>2
    <3>8. Token(c, buffer, x, o) \in Nat /\ Token(chan, buffer, x, o) \in Nat
      BY <1>2, <3>1, <3>4, TokenTerms
    <3> QED  BY <3>3, <3>7, <3>8
  <2> QED  BY <1>7, <2>1, <2>2, <2>3 DEF InHand, HoldsRequest
<1> QED  BY <1>2, <1>6, <1>8, <1>9, <1>10, <1>11 DEF SendInv, c, m

(* The first buffered message is in hand, the rest keeps the invariant.    *)
LEMMA TakeFromBuffer ==
    ASSUME IInv, NEW o \in Op, buffer[o] # <<>>,
           NEW b, b = [buffer EXCEPT ![o] = Tail(@)]
    PROVE  /\ b \in Buffers
           /\ SendInv(chan, b, done)
           /\ Head(buffer[o]).src \in Op
           /\ InHand(chan, b, o, Head(buffer[o]).src, Head(buffer[o]).type)
           /\ Head(buffer[o]).type = "COMPLETE" => NotBuffered(b, Head(buffer[o]).src, o)
<1> DEFINE q == buffer[o]
           e == Head(buffer[o])
           Entry == [src : Op, type : MsgType]
<1>1. buffer \in Buffers /\ chan \in Chans /\ q \in Seq(Entry)
  BY DEF IInv, TypeOK, Buffers, Chans
<1>2. /\ Tail(q) \in Seq(Entry) /\ Len(Tail(q)) = Len(q) - 1
      /\ e = q[1] /\ Len(q) \in Nat \ {0}
      /\ \A i \in 1 .. Len(Tail(q)) : i + 1 \in 1 .. Len(q) /\ Tail(q)[i] = q[i + 1]
  BY <1>1, TailFacts
<1>3. b \in Buffers /\ b[o] = Tail(q) /\ \A d \in Op : d # o => b[d] = buffer[d]
  BY <1>1, <1>2 DEF Buffers
<1>5. 1 \in 1 .. Len(q) /\ e = buffer[o][1]  BY <1>2
<1> HIDE DEF q, e
<1>a. e \in Entry  BY <1>1, <1>5, ElementOfSeq DEF q
<1>4. e.src \in Op  BY <1>a
<1> HIDE DEF Entry
<1>6. \A i \in 1 .. Len(b[o]) : i + 1 \in 1 .. Len(buffer[o]) /\ b[o][i] = buffer[o][i + 1]
  BY <1>2, <1>3 DEF q
<1>7. Len(b[o]) = Len(buffer[o]) - 1 /\ Len(buffer[o]) \in Nat  BY <1>2, <1>3 DEF q
<1>8. Vocabulary(chan, b)
  <2>1. \A d \in Op : \A i \in 1 .. Len(b[d]) : Allowed(b[d][i].src, d, b[d][i].type)
    <3> SUFFICES ASSUME NEW d \in Op, NEW i \in 1 .. Len(b[d])
                 PROVE  Allowed(b[d][i].src, d, b[d][i].type)
      OBVIOUS
    <3>1. \A j \in 1 .. Len(buffer[d]) : Allowed(buffer[d][j].src, d, buffer[d][j].type)
      BY DEF IInv, Vocabulary
    <3>2. CASE d = o
      <4>1. i + 1 \in 1 .. Len(buffer[o]) /\ b[o][i] = buffer[o][i + 1]  BY <1>6, <3>2
      <4> QED  BY <3>1, <3>2, <4>1
    <3>3. CASE d # o  BY <1>3, <3>1, <3>3
    <3> QED  BY <3>2, <3>3
  <2> QED  BY <2>1 DEF IInv, Vocabulary
<1>9. CompleteIsLast(chan, b, done)
  <2> SUFFICES ASSUME NEW p \in Op, NEW y \in Consumers[p]
               PROVE  CompleteIsLast(chan, b, done)!(p)!(y)
    BY DEF CompleteIsLast
  <2>1. y \in Op  BY PlanAssumption
  <2>2. CompleteIsLast(chan, buffer, done)!(p)!(y)  BY DEF IInv, CompleteIsLast
  <2>3. CASE y = o
    <3>1. p \in done[o] => NotBuffered(b, p, o)
      BY <1>6, <2>2, <2>3 DEF NotBuffered
    <3>2. ASSUME NEW i \in 1 .. Len(b[o]), b[o][i].src = p, b[o][i].type = "COMPLETE"
          PROVE  complete[p] /\ chan[p][o] = <<>> /\ \A j \in 1 .. Len(b[o]) : b[o][j].src = p => j <= i
      <4>1. i + 1 \in 1 .. Len(buffer[o]) /\ buffer[o][i + 1].src = p /\ buffer[o][i + 1].type = "COMPLETE"
        BY <1>6, <3>2
      <4>2. /\ complete[p] /\ chan[p][o] = <<>>
            /\ \A j \in 1 .. Len(buffer[o]) : buffer[o][j].src = p => j <= i + 1
        BY <2>2, <2>3, <4>1
      <4>3. ASSUME NEW j \in 1 .. Len(b[o]), b[o][j].src = p PROVE j <= i
        <5>1. j + 1 \in 1 .. Len(buffer[o]) /\ buffer[o][j + 1].src = p  BY <1>6, <4>3
        <5>2. j + 1 <= i + 1  BY <4>2, <5>1
        <5> QED  BY <5>2, <1>7
      <4> QED  BY <4>2, <4>3
    <3> QED  BY <2>2, <2>3, <3>1, <3>2
  <2>4. CASE y # o  BY <1>3, <2>1, <2>2, <2>4 DEF NotBuffered
  <2> QED  BY <2>3, <2>4
<1>10. \A h \in Op : Kept(b, h) = IF h = o THEN Kept(buffer, h) - 1 ELSE Kept(buffer, h)
  BY <1>3, <1>7 DEF Kept
<1>11. \A h, x \in Op : /\ Sent(chan, x, h) \in Nat /\ Kept(buffer, h) \in Nat /\ Kept(b, h) \in Nat
                        /\ Sent(chan, h, h) \in Nat /\ Answered(h) \in Nat
                        /\ Token(chan, b, x, h) \in Nat /\ Token(chan, buffer, x, h) \in Nat
  BY <1>1, <1>3, TokenTerms
<1>12. ASSUME NEW h \in Op, NEW x \in Op
       PROVE  /\ h = o => Token(chan, b, x, h) = Token(chan, buffer, x, h) - 1
              /\ h # o => Token(chan, b, x, h) = Token(chan, buffer, x, h)
  <2>1. ASSUME h = o PROVE Token(chan, b, x, h) = Token(chan, buffer, x, h) - 1
    <3>1. Kept(b, h) = Kept(buffer, h) - 1  BY <1>10, <2>1
    <3>2. /\ Sent(chan, x, h) \in Nat /\ Kept(buffer, h) \in Nat /\ Kept(b, h) \in Nat
          /\ Sent(chan, h, h) \in Nat /\ Answered(h) \in Nat
      BY <1>11
    <3> QED  BY <3>1, <3>2, SumDropsMiddle DEF Token
  <2>2. ASSUME h # o PROVE Token(chan, b, x, h) = Token(chan, buffer, x, h)
    BY <1>10, <2>2 DEF Token
  <2> QED  BY <2>1, <2>2
<1>13. \A h \in Op : Kind[h] = "cacheHandler" => \A x \in Consumers[h] :
           x \in Op /\ Token(chan, buffer, x, h) <= IF status[x] = "idle" THEN 0 ELSE 1
  BY HandlerHasNoProducer DEF IInv, OneRequest
<1>14. OneRequest(chan, b)
  <2> SUFFICES ASSUME NEW h \in Op, Kind[h] = "cacheHandler", NEW x \in Consumers[h]
               PROVE  Token(chan, b, x, h) <= IF status[x] = "idle" THEN 0 ELSE 1
    BY DEF OneRequest
  <2>1. x \in Op /\ Token(chan, buffer, x, h) <= IF status[x] = "idle" THEN 0 ELSE 1  BY <1>13
  <2>2. Token(chan, b, x, h) \in Nat /\ Token(chan, buffer, x, h) \in Nat  BY <1>11, <2>1
  <2>3. \/ Token(chan, b, x, h) = Token(chan, buffer, x, h)
        \/ Token(chan, b, x, h) = Token(chan, buffer, x, h) - 1
    BY <1>12, <2>1
  <2> QED  BY <2>1, <2>2, <2>3
<1>15. InHand(chan, b, o, e.src, e.type)
  <2>1. Allowed(e.src, o, e.type)  BY <1>5 DEF IInv, Vocabulary
  <2>2. ASSUME o \in Consumers[e.src] PROVE e.src \notin done[o]
    BY <1>4, <1>5, <2>2 DEF IInv, CompleteIsLast, NotBuffered
  <2>3. ASSUME e.type = "COMPLETE" PROVE complete[e.src] /\ chan[e.src][o] = <<>>
    <3>1. o \in Consumers[e.src]  BY <2>1, <2>3 DEF Allowed
    <3>2. CompleteIsLast(chan, buffer, done)!(e.src)!(o)  BY <1>4, <3>1 DEF IInv, CompleteIsLast
    <3> QED  BY <1>5, <2>3, <3>2
  <2>4. ASSUME Kind[o] = "cacheHandler", NEW x \in Consumers[o]
        PROVE  Token(chan, b, x, o) = 0 /\ status[x] # "idle"
    <3>1. x \in Op /\ Token(chan, buffer, x, o) <= IF status[x] = "idle" THEN 0 ELSE 1  BY <1>13, <2>4
    <3>2. Token(chan, b, x, o) \in Nat /\ Token(chan, buffer, x, o) \in Nat  BY <1>11, <3>1
    <3>3. Token(chan, b, x, o) = Token(chan, buffer, x, o) - 1  BY <1>12, <3>1
    <3> QED  BY <3>1, <3>2, <3>3
  <2> QED  BY <2>1, <2>2, <2>3, <2>4 DEF InHand, HoldsRequest
<1>16. ASSUME e.type = "COMPLETE" PROVE NotBuffered(b, e.src, o)
  <2>1. o \in Consumers[e.src]  BY <1>15, <1>16 DEF InHand, Allowed
  <2>2. CompleteIsLast(chan, buffer, done)!(e.src)!(o)  BY <1>4, <2>1 DEF IInv, CompleteIsLast
  <2>3. \A j \in 1 .. Len(buffer[o]) : buffer[o][j].src = e.src => j <= 1
    BY <1>5, <1>16, <2>2
  <2> QED  BY <1>6, <1>7, <2>3 DEF NotBuffered
<1> QED  BY <1>1, <1>3, <1>4, <1>8, <1>9, <1>14, <1>15, <1>16 DEF SendInv, e

-----------------------------------------------------------------------------
(* Handling a message.                                                     *)

(* What one producer has marked complete in the directory is drained.      *)
LEMMA MarkComplete ==
    ASSUME NEW c, NEW b \in Buffers, SendInv(c, b, done), done \in [Op -> SUBSET Op],
           NEW o \in Op, NEW s \in Op,
           complete[s], c[s][o] = <<>>, NotBuffered(b, s, o),
           NEW dn, dn = [done EXCEPT ![o] = @ \cup {s}]
    PROVE  dn \in [Op -> SUBSET Op] /\ SendInv(c, b, dn)
<1>1. dn \in [Op -> SUBSET Op]  OBVIOUS
<1>2. CompleteIsLast(c, b, dn)
  <2> SUFFICES ASSUME NEW p \in Op, NEW y \in Consumers[p]
               PROVE  CompleteIsLast(c, b, dn)!(p)!(y)
    BY DEF CompleteIsLast
  <2>1. y \in Op  BY PlanAssumption
  <2>2. CompleteIsLast(c, b, done)!(p)!(y)  BY DEF SendInv, CompleteIsLast
  <2>3. p \in dn[y] => p \in done[y] \/ (p = s /\ y = o)  BY <2>1
  <2> QED  BY <2>2, <2>3
<1> QED  BY <1>1, <1>2 DEF SendInv

(* An operator that handles a message of a producer has not completed.     *)
LEMMA StillRunning ==
    ASSUME IInv, NEW c, NEW b, NEW o \in Op, NEW s \in Op, NEW m, InHand(c, b, o, s, m),
           o \in Consumers[s]
    PROVE  ~complete[o]
BY DEF IInv, AfterProducers, InHand, Producers

(* A cache handler that handles a message has not completed either.        *)
LEMMA HandlerStillRunning ==
    ASSUME IInv, NEW c \in Chans, NEW b \in Buffers, NEW o \in Op, NEW s \in Op, NEW m,
           InHand(c, b, o, s, m), Kind[o] = "cacheHandler"
    PROVE  ~complete[o]
<1>1. PICK x \in Op : Consumers[o] = {x}  BY HandlerAssumption
<1>2. Token(c, b, x, o) = 0  BY <1>1 DEF InHand, HoldsRequest
<1>3. /\ Sent(c, x, o) \in Nat /\ Kept(b, o) \in Nat /\ Sent(c, o, o) \in Nat /\ Answered(o) \in Nat
  BY TokenTerms
<1>4. Answered(o) = 0  BY <1>2, <1>3 DEF Token
<1> QED  BY <1>4 DEF Answered

(* The rest of the invariant when no operator completes ...                *)
LEMMA StepWithoutCompletion ==
    ASSUME IInv, SendInv(chan, buffer, done)', buffer' \in Buffers, done' \in [Op -> SUBSET Op],
           \A x \in Op : done[x] \subseteq done'[x],
           batches' \in [Op -> 0 .. MaxBatches],
           UNCHANGED <<status, complete, entries, root, rootDone>>,
           \A x \in Op : chan'[x][Root] = chan[x][Root] /\ chan'[Root][x] = chan[Root][x]
    PROVE  IInv'
<1>1. TypeOK'  BY DEF IInv, SendInv, TypeOK, Chans, Buffers
<1>2. ConnectInv'
  BY DEF IInv, ConnectInv, Connected
<1>3. AfterProducers'  BY DEF IInv, AfterProducers
<1>4. RootInv'  BY DEF IInv, RootInv
<1> QED  BY <1>1, <1>2, <1>3, <1>4 DEF IInv, SendInv

(* ... and when o completes after all of its producers.                    *)
LEMMA StepWithCompletion ==
    ASSUME IInv, SendInv(chan, buffer, done)', buffer' \in Buffers, done' \in [Op -> SUBSET Op],
           \A x \in Op : done[x] \subseteq done'[x],
           NEW o \in Op, Producers(o) \subseteq done'[o],
           status[o] \in {"scanning", "running"}, status' = [status EXCEPT ![o] = "running"],
           complete' = [complete EXCEPT ![o] = TRUE],
           UNCHANGED <<batches, entries, root, rootDone>>,
           \A x \in Op : /\ chan'[Root][x] = chan[Root][x]
                         /\ chan'[x][Root] = IF x = o THEN chan[x][Root] \o <<"COMPLETE">> ELSE chan[x][Root]
    PROVE  IInv'
<1>0. status \in [Op -> Statuses] /\ complete \in [Op -> BOOLEAN]  BY DEF IInv, TypeOK
<1>1. TypeOK'
  <2>1. status' \in [Op -> Statuses]  BY <1>0 DEF Statuses
  <2>2. complete' \in [Op -> BOOLEAN]  BY <1>0
  <2> QED  BY <2>1, <2>2 DEF IInv, SendInv, TypeOK, Chans, Buffers
<1>2. ConnectInv'
  <2> SUFFICES ASSUME NEW x \in Op PROVE ConnectInv!(x)'
    BY DEF ConnectInv
  <2>1. ConnectInv!(x)  BY DEF IInv, ConnectInv
  <2>2. Connected(x)' <=> Connected(x)  BY DEF Connected
  <2>3. CASE x = o  BY <1>0, <2>1, <2>2, <2>3
  <2>4. CASE x # o  BY <1>0, <2>1, <2>2, <2>4
  <2> QED  BY <2>3, <2>4
<1>3. AfterProducers'  BY <1>0 DEF IInv, AfterProducers
<1>4. RootInv'
  <2>1. \A x \in Op : complete[x] => complete'[x]  BY <1>0
  <2>2. ASSUME NEW x \in Op, NEW i \in 1 .. Len(chan'[x][Root])
        PROVE  /\ chan'[x][Root][i] = "COMPLETE" => complete'[x]
               /\ chan'[x][Root][i] = "ERROR" => status'[x] = "failed"
    <3>1. \A j \in 1 .. Len(chan[x][Root]) : /\ chan[x][Root][j] = "COMPLETE" => complete[x]
                                             /\ chan[x][Root][j] = "ERROR" => status[x] = "failed"
      BY DEF IInv, RootInv
    <3>2. CASE x # o  BY <1>0, <2>2, <3>1, <3>2
    <3>3. CASE x = o
      <4>1. chan[o][Root] \in Seq(MsgType) /\ <<"COMPLETE">> \in Seq(MsgType)
        BY DEF IInv, TypeOK, Node, MsgType
      <4>2. \/ i \in 1 .. Len(chan[o][Root]) /\ chan'[o][Root][i] = chan[o][Root][i]
            \/ chan'[o][Root][i] = "COMPLETE"
        <5> DEFINE q == chan[o][Root]
                   r == <<"COMPLETE">>
        <5>1. \A j \in 1 .. Len(q \o r) : (q \o r)[j] = IF j <= Len(q) THEN q[j] ELSE r[j - Len(q)]
          BY <4>1, ConcatFacts
        <5>2. \A j \in 1 .. Len(q \o r) : j \in 1 .. Len(q) \/ j - Len(q) \in 1 .. Len(r)
          BY <4>1, ConcatFacts
        <5>3. Len(r) = 1 /\ r[1] = "COMPLETE" /\ Len(q) \in Nat  BY <4>1
        <5>4. chan'[o][Root] = q \o r /\ i \in 1 .. Len(q \o r)  BY <2>2, <3>3
        <5> HIDE DEF q, r
        <5>5. (i \in 1 .. Len(q) /\ (q \o r)[i] = q[i]) \/ (q \o r)[i] = "COMPLETE"
          BY <5>1, <5>2, <5>3, <5>4
        <5> QED  BY <5>4, <5>5 DEF q
      <4>3. complete'[o]  BY <1>0
      <4> QED  BY <3>1, <3>3, <4>2, <4>3
    <3> QED  BY <3>2, <3>3
  <2> QED  BY <2>1, <2>2 DEF IInv, RootInv
<1> QED  BY <1>1, <1>2, <1>3, <1>4 DEF IInv, SendInv

(* SendInv speaks of nothing but its parameters, complete_ and running_.   *)
LEMMA SameSendInv ==
    ASSUME NEW c, NEW b, NEW dn, SendInv(c, b, dn), chan' = c, buffer' = b, done' = dn,
           UNCHANGED <<complete, status>>
    PROVE  SendInv(chan, buffer, done)'
<1>1. chan' \in Chans /\ Vocabulary(chan, buffer)'  BY DEF SendInv, Vocabulary
<1>2. CompleteIsLast(chan, buffer, done)'
  BY DEF SendInv, CompleteIsLast, NotBuffered
<1>3. \A x, h : Token(chan, buffer, x, h)' = Token(c, b, x, h)  BY DEF Token, Sent, Kept, Answered
<1>4. OneRequest(chan, buffer)'  BY <1>3 DEF SendInv, OneRequest
<1> QED  BY <1>1, <1>2, <1>4 DEF SendInv

(* Every handler of a running operator keeps the invariant.                *)
LEMMA HandleKeeps ==
    ASSUME IInv, NEW c, NEW b \in Buffers, NEW o \in Op, NEW s \in Op, NEW m,
           SendInv(c, b, done), InHand(c, b, o, s, m),
           m = "COMPLETE" => NotBuffered(b, s, o),
           \A x \in Op : c[x][Root] = chan[x][Root] /\ c[Root][x] = chan[Root][x],
           status[o] = "running", Handle(c, o, s, m), buffer' = b,
           UNCHANGED <<status, entries, batches, root, rootDone>>
    PROVE  IInv'
<1>0. /\ complete \in [Op -> BOOLEAN] /\ done \in [Op -> SUBSET Op] /\ c \in Chans
      /\ batches' \in [Op -> 0 .. MaxBatches]
      /\ status \in [Op -> Statuses] /\ status' = [status EXCEPT ![o] = "running"]
      /\ Connected(o)
  BY DEF IInv, TypeOK, SendInv, ConnectInv
<1>1. ASSUME ~complete[o], NEW out \in Output, Tell(c, o, out), UNCHANGED <<done, complete>>
      PROVE  IInv'
  <2>1. /\ SendInv(chan, buffer, done)'
        /\ \A x \in Op : chan'[x][Root] = c[x][Root] /\ chan'[Root][x] = c[Root][x]
    BY <1>0, <1>1, TellKeeps DEF SameIdle
  <2>2. \A x \in Op : chan'[x][Root] = chan[x][Root] /\ chan'[Root][x] = chan[Root][x]
    BY <2>1
  <2> QED  BY <1>0, <1>1, <2>1, <2>2, StepWithoutCompletion
<1>2. ASSUME ~complete[o], NEW dn \in [Op -> SUBSET Op], SendInv(c, b, dn), done' = dn,
             \A x \in Op : done[x] \subseteq dn[x], Producers(o) \subseteq dn[o],
             NEW out \in LastOutput(o),
             NotifyComplete(c, o, out)
      PROVE  IInv'
  <2>1. HoldsRequest(c, b, o)  BY DEF InHand
  <2>2. /\ SendInv(chan, buffer, done)'
        /\ complete' = [complete EXCEPT ![o] = TRUE]
        /\ RootHears(c, o)
    <3>1. SameIdle  BY DEF SameIdle
    <3>2. ~complete[o] /\ complete \in [Op -> BOOLEAN]  BY <1>0, <1>2
    <3> QED  BY <1>2, <2>1, <3>1, <3>2, CompleteKeeps
  <2>3. \A x \in Op : /\ chan'[Root][x] = chan[Root][x]
                      /\ chan'[x][Root] = IF x = o THEN chan[x][Root] \o <<"COMPLETE">> ELSE chan[x][Root]
    BY <2>2 DEF RootHears
  <2> QED  BY <1>0, <1>2, <2>2, <2>3, StepWithCompletion
<1>3. CASE m = "TUPLE" /\ OnTuple(c, o)
  <2>1. ~complete[o]  BY <1>3, StillRunning DEF InHand, Allowed
  <2>2. PICK out \in Output : Tell(c, o, out)  BY <1>3 DEF OnTuple
  <2> QED  BY <1>1, <1>3, <2>1, <2>2 DEF OnTuple
<1>4. CASE m = "COMPLETE" /\ OnComplete(c, o, s)
  <2>1. o \in Consumers[s] /\ complete[s] /\ c[s][o] = <<>> /\ NotBuffered(b, s, o) /\ s \notin done[o]
    BY <1>4 DEF InHand, Allowed
  <2>2. ~complete[o]  BY <2>1, StillRunning
  <2>3. s \in entries[o]  BY <1>0, <2>1 DEF Connected, Producers
  <2> DEFINE dn == [done EXCEPT ![o] = @ \cup {s}]
  <2>4. dn \in [Op -> SUBSET Op] /\ SendInv(c, b, dn)  BY <1>0, <2>1, MarkComplete
  <2>5. \A x \in Op : done[x] \subseteq dn[x]  BY <1>0
  <2>6. dn[o] = done[o] \cup {s}  BY <1>0
  <2>7. /\ done' = dn
        /\ IF ~complete[o] /\ AllComplete(o, done[o] \cup {s})
           THEN \E out \in Output : NotifyComplete(c, o, out)
           ELSE chan' = c /\ UNCHANGED complete
    BY <1>4, <2>1, <2>3 DEF OnComplete
  <2> HIDE DEF dn
  <2>8. CASE AllComplete(o, done[o] \cup {s})
    <3>1. Producers(o) \subseteq dn[o]  BY <1>0, <2>6, <2>8 DEF AllComplete, Connected
    <3>2. PICK out \in Output : NotifyComplete(c, o, out)  BY <2>2, <2>7, <2>8
    <3>3. out \in LastOutput(o)  BY <3>2 DEF LastOutput
    <3> QED  BY <1>2, <2>2, <2>4, <2>5, <2>7, <3>1, <3>2, <3>3
  <2>9. CASE ~AllComplete(o, done[o] \cup {s})
    <3>1. chan' = c /\ UNCHANGED complete  BY <2>7, <2>9
    <3>2. SendInv(chan, buffer, done)'  BY <2>4, <2>7, <3>1, SameSendInv
    <3> QED  BY <1>0, <2>4, <2>5, <2>7, <3>1, <3>2, StepWithoutCompletion
  <2> QED  BY <2>8, <2>9
<1>5. CASE m = "LOAD_REQUEST" /\ OnLoadRequest(c, o)
  <2>1. Kind[o] = "cacheHandler" /\ s \in Consumers[o]  BY <1>5 DEF InHand, Allowed
  <2>2. chan' = SendTo(c, o, o, "LOAD_RESPONSE") /\ UNCHANGED <<done, complete>>
    BY <1>5 DEF OnLoadRequest
  <2>3. o \in Node /\ "LOAD_RESPONSE" \in MsgType  BY DEF Node, MsgType
  <2>4. /\ chan' \in Chans
        /\ \A x, y \in Node : chan'[x][y] = IF x = o /\ y = o THEN Append(c[o][o], "LOAD_RESPONSE") ELSE c[x][y]
    BY <1>0, <2>2, <2>3, SendToFacts
  <2>5. \A x \in Op : chan'[x][Root] = chan[x][Root] /\ chan'[Root][x] = chan[Root][x]
    BY <2>4, PlanAssumption DEF Node
  <2>6. \A x, y \in Op : ~(x = o /\ y = o) => chan'[x][y] = c[x][y]  BY <2>4 DEF Node
  <2>7. /\ Len(chan'[o][o]) = Len(c[o][o]) + 1
        /\ \A i \in 1 .. Len(chan'[o][o]) :
             (i \in 1 .. Len(c[o][o]) /\ chan'[o][o][i] = c[o][o][i]) \/ chan'[o][o][i] = "LOAD_RESPONSE"
    <3>1. c[o][o] \in Seq(MsgType)  BY <1>0, <2>3 DEF Chans
    <3>2. chan'[o][o] = Append(c[o][o], "LOAD_RESPONSE")  BY <2>3, <2>4
    <3> QED  BY <2>3, <3>1, <3>2, AppendFacts
  <2>8. Vocabulary(chan', b)
    <3>1. ASSUME NEW x \in Op, NEW y \in Op, NEW i \in 1 .. Len(chan'[x][y])
          PROVE  Allowed(x, y, chan'[x][y][i])
      <4>1. \A j \in 1 .. Len(c[x][y]) : Allowed(x, y, c[x][y][j])  BY DEF SendInv, Vocabulary
      <4>2. CASE x = o /\ y = o /\ chan'[o][o][i] = "LOAD_RESPONSE"  BY <2>1, <4>2 DEF Allowed
      <4>3. CASE x = o /\ y = o /\ i \in 1 .. Len(c[o][o]) /\ chan'[o][o][i] = c[o][o][i]
        BY <4>1, <4>3
      <4>4. CASE ~(x = o /\ y = o)  BY <2>6, <4>1, <4>4
      <4> QED  BY <2>7, <4>2, <4>3, <4>4
    <3> QED  BY <3>1 DEF SendInv, Vocabulary
  <2>9. CompleteIsLast(chan, buffer, done)'
    <3> SUFFICES ASSUME NEW p \in Op, NEW y \in Consumers[p]
                 PROVE  CompleteIsLast(chan, buffer, done)!(p)!(y)'
      BY DEF CompleteIsLast
    <3>1. chan'[p][y] = c[p][y]  BY <2>6, HandlerHasNoProducer
    <3>2. CompleteIsLast(c, b, done)!(p)!(y)  BY DEF SendInv, CompleteIsLast
    <3> QED  BY <2>2, <3>1, <3>2 DEF NotBuffered
  <2>10. OneRequest(chan, buffer)'
    <3> SUFFICES ASSUME NEW h \in Op, Kind[h] = "cacheHandler", NEW x \in Consumers[h]
                 PROVE  (Token(chan, buffer, x, h) <= IF status[x] = "idle" THEN 0 ELSE 1)'
      BY DEF OneRequest
    <3>1. x \in Op /\ x # h  BY HandlerHasNoProducer
    <3>2. Sent(chan, x, h)' = Sent(c, x, h) /\ Kept(buffer, h)' = Kept(b, h) /\ Answered(h)' = Answered(h)
      BY <2>2, <2>6, <3>1 DEF Sent, Kept, Answered
    <3>3. CASE h = o
      <4>1. Sent(chan, h, h)' = Sent(c, h, h) + 1  BY <2>7, <3>3 DEF Sent
      <4>2. /\ Sent(c, x, h) \in Nat /\ Kept(b, h) \in Nat /\ Sent(c, h, h) \in Nat /\ Answered(h) \in Nat
        BY <1>0, <3>1, TokenTerms
      <4>3. Token(chan, buffer, x, h)' = Token(c, b, x, h) + 1  BY <3>2, <4>1, <4>2 DEF Token
      <4>4. Token(c, b, x, h) = 0 /\ status[x] # "idle"  BY <3>3 DEF InHand, HoldsRequest
      <4> QED  BY <4>3, <4>4
    <3>4. CASE h # o
      <4>1. Sent(chan, h, h)' = Sent(c, h, h)  BY <2>6, <3>4 DEF Sent
      <4>2. Token(chan, buffer, x, h)' = Token(c, b, x, h)  BY <3>2, <4>1 DEF Token
      <4>3. Token(c, b, x, h) <= IF status[x] = "idle" THEN 0 ELSE 1  BY DEF SendInv, OneRequest
      <4> QED  BY <4>2, <4>3
    <3> QED  BY <3>3, <3>4
  <2>11. SendInv(chan, buffer, done)'  BY <2>4, <2>8, <2>9, <2>10 DEF SendInv
  <2> QED  BY <1>0, <2>2, <2>5, <2>11, StepWithoutCompletion
<1>6. CASE m = "LOAD_RESPONSE" /\ OnLoadResponse(c, o)
  <2>1. CASE Kind[o] = "cacheHandler" /\ NotifyComplete(c, o, <<"LOAD_RESPONSE">>) /\ UNCHANGED done
    <3>1. ~complete[o]  BY <1>0, <2>1, HandlerStillRunning
    <3>2. Producers(o) = {}  BY <2>1, PlanAssumption
    <3>3. <<"LOAD_RESPONSE">> \in LastOutput(o)  BY <2>1 DEF LastOutput
    <3> QED  BY <1>0, <1>2, <2>1, <3>1, <3>2, <3>3
  <2>2. CASE Kind[o] = "deltaMerge" /\ (\E out \in Output : Tell(c, o, out)) /\ UNCHANGED <<done, complete>>
    <3>1. o \in Consumers[s]  BY <1>6, <2>2 DEF InHand, Allowed
    <3>2. ~complete[o]  BY <3>1, StillRunning
    <3> QED  BY <1>1, <2>2, <3>2
  <2> QED  BY <1>6, <2>1, <2>2 DEF OnLoadResponse
<1> QED  BY <1>3, <1>4, <1>5, <1>6 DEF Handle

-----------------------------------------------------------------------------
(* The steps of the actors.                                                *)

(* What a step leaves alone between operators keeps the invariant.         *)
LEMMA QuietStep ==
    ASSUME IInv, chan' \in Chans, \A x, y \in Op : chan'[x][y] = chan[x][y],
           UNCHANGED <<buffer, done, complete>>,
           \A x \in Op : status[x] # "idle" => status'[x] # "idle"
    PROVE  SendInv(chan, buffer, done)' /\ AfterProducers'
<1>1. Vocabulary(chan, buffer)'  BY DEF IInv, Vocabulary
<1>2. CompleteIsLast(chan, buffer, done)'
  <2> SUFFICES ASSUME NEW p \in Op, NEW y \in Consumers[p]
               PROVE  CompleteIsLast(chan, buffer, done)!(p)!(y)'
    BY DEF CompleteIsLast
  <2>1. y \in Op  BY PlanAssumption
  <2>2. CompleteIsLast(chan, buffer, done)!(p)!(y)  BY DEF IInv, CompleteIsLast
  <2> QED  BY <2>1, <2>2 DEF NotBuffered
<1>3. OneRequest(chan, buffer)'
  <2> SUFFICES ASSUME NEW h \in Op, Kind[h] = "cacheHandler", NEW x \in Consumers[h]
               PROVE  (Token(chan, buffer, x, h) <= IF status[x] = "idle" THEN 0 ELSE 1)'
    BY DEF OneRequest
  <2>1. x \in Op  BY PlanAssumption
  <2>2. Token(chan, buffer, x, h)' = Token(chan, buffer, x, h)
    BY <2>1 DEF Token, Sent, Kept, Answered
  <2>3. Token(chan, buffer, x, h) <= IF status[x] = "idle" THEN 0 ELSE 1  BY DEF IInv, OneRequest
  <2>4. chan \in Chans /\ buffer \in Buffers  BY DEF IInv, TypeOK, Chans, Buffers
  <2>5. Token(chan, buffer, x, h) \in Nat  BY <2>1, <2>4, TokenTerms
  <2> QED  BY <2>1, <2>2, <2>3, <2>5
<1>4. AfterProducers'  BY DEF IInv, AfterProducers
<1> QED  BY <1>1, <1>2, <1>3, <1>4 DEF SendInv

(* CONNECT is the first message an operator takes.                         *)
LEMMA RecvConnectKeeps ==
    ASSUME IInv, NEW o \in Op, RecvConnect(o)
    PROVE  IInv'
<1>1. chan' = Take(Root, o)
  <2>1. Producers(o) \cap Consumers[o] = {}  BY PlanAssumption DEF Producers
  <2> QED  BY <2>1 DEF RecvConnect
<1>2. o \in Node /\ Root \in Node /\ chan[Root][o] # <<>>  BY DEF Node, RecvConnect, RootSays
<1>3. /\ chan' \in Chans
      /\ \A x, y \in Node : chan'[x][y] = IF x = Root /\ y = o THEN Tail(chan[Root][o]) ELSE chan[x][y]
  BY <1>1, <1>2, TakeFacts DEF IInv
<1>4. \A x, y \in Op : chan'[x][y] = chan[x][y]  BY <1>3, PlanAssumption DEF Node
<1>5. \A x \in Op : chan'[x][Root] = chan[x][Root] /\ (x # o => chan'[Root][x] = chan[Root][x])
  BY <1>3, PlanAssumption DEF Node
<1>6. entries \in [Op -> SUBSET Op] /\ entries' = [entries EXCEPT ![o] = @ \cup Producers(o) \cup Consumers[o]]
  BY DEF IInv, TypeOK, RecvConnect
<1>7. SendInv(chan, buffer, done)' /\ AfterProducers'
  BY <1>3, <1>4, QuietStep DEF RecvConnect
<1>8. TypeOK'
  <2>1. entries' \in [Op -> SUBSET Op]  BY <1>6, PlanAssumption DEF Producers
  <2> QED  BY <1>3, <2>1 DEF IInv, TypeOK, RecvConnect, Chans
<1>9. ConnectInv'
  <2> SUFFICES ASSUME NEW x \in Op PROVE ConnectInv!(x)'
    BY DEF ConnectInv
  <2>1. ConnectInv!(x)  BY DEF IInv, ConnectInv
  <2>2. CASE x = o
    <3>1. Connected(o)'  BY <1>6, <2>1, <2>2 DEF Connected
    <3>2. chan'[Root][o] = Tail(chan[Root][o])  BY <1>2, <1>3
    <3>3. chan[Root][o] \in Seq(MsgType)  BY <1>2 DEF IInv, TypeOK
    <3>4. ASSUME NEW i \in 1 .. Len(chan'[Root][o]), chan'[Root][o][i] = "START" PROVE i = 1
      <4>1. i + 1 \in 1 .. Len(chan[Root][o]) /\ chan[Root][o][i + 1] = "START" /\ i \in Nat
        BY <1>2, <3>2, <3>3, <3>4, TailFacts
      <4>2. i + 1 = 1 \/ i + 1 = 2  BY <2>1, <2>2, <4>1
      <4> QED  BY <3>4, <4>1, <4>2
    <3>5. UNCHANGED <<status, complete>>  BY DEF RecvConnect
    <3> QED  BY <2>1, <2>2, <3>1, <3>4, <3>5 DEF Connected
  <2>3. CASE x # o
    <3>1. entries'[x] = entries[x] /\ chan'[Root][x] = chan[Root][x] /\ UNCHANGED <<status, complete>>
      BY <1>5, <1>6, <2>3 DEF RecvConnect
    <3> QED  BY <2>1, <3>1 DEF Connected
  <2> QED  BY <2>2, <2>3
<1>10. RootInv'  BY <1>5 DEF IInv, RootInv, RecvConnect
<1> QED  BY <1>7, <1>8, <1>9, <1>10 DEF IInv, SendInv

(* START comes to a connected operator, once; a DeltaMerge sends its one   *)
(* load request with it.                                                   *)
LEMMA RecvStartKeeps ==
    ASSUME IInv, NEW o \in Op, RecvStart(o)
    PROVE  IInv'
<1> DEFINE c == Take(Root, o)
           h == CacheHandlerOf(o)
<1>1. o \in Node /\ Root \in Node /\ chan[Root][o] # <<>> /\ Head(chan[Root][o]) = "START"
  BY DEF Node, RecvStart, RootSays
<1>2. /\ c \in Chans
      /\ \A x, y \in Node : c[x][y] = IF x = Root /\ y = o THEN Tail(chan[Root][o]) ELSE chan[x][y]
  BY <1>1, TakeFacts DEF IInv
<1>3. status \in [Op -> Statuses] /\ complete \in [Op -> BOOLEAN] /\ chan \in Chans /\ buffer \in Buffers
  BY DEF IInv, TypeOK, Chans, Buffers
<1>4. /\ status[o] = "idle"
      /\ status' = [status EXCEPT ![o] = IF Kind[o] = "scan" THEN "scanning" ELSE "running"]
      /\ chan' = IF Kind[o] = "deltaMerge" THEN SendTo(c, o, h, "LOAD_REQUEST") ELSE c
      /\ UNCHANGED <<buffer, entries, done, complete, batches, root, rootDone>>
  BY DEF RecvStart
<1>5. ASSUME Kind[o] = "deltaMerge" PROVE h \in Op /\ Kind[h] = "cacheHandler" /\ o \in Consumers[h]
  <2>1. \E x \in Producers(o) : Kind[x] = "cacheHandler"  BY <1>5, HandlerAssumption
  <2>2. h \in Producers(o) /\ Kind[h] = "cacheHandler"  BY <2>1 DEF CacheHandlerOf
  <2> QED  BY <2>2 DEF Producers
<1> HIDE DEF c, h
<1>6. /\ chan' \in Chans
      /\ \A x, y \in Node : chan'[x][y] = IF Kind[o] = "deltaMerge" /\ x = o /\ y = h
                                          THEN Append(c[o][h], "LOAD_REQUEST") ELSE c[x][y]
  <2>1. CASE Kind[o] = "deltaMerge"
    <3>1. h \in Node /\ "LOAD_REQUEST" \in MsgType  BY <1>5, <2>1 DEF Node, MsgType
    <3>2. chan' = SendTo(c, o, h, "LOAD_REQUEST")  BY <1>4, <2>1
    <3>3. \A m \in MsgType :
            /\ SendTo(c, o, h, m) \in Chans
            /\ \A x, y \in Node : SendTo(c, o, h, m)[x][y] = IF x = o /\ y = h THEN Append(c[o][h], m) ELSE c[x][y]
      BY <1>1, <1>2, <3>1, SendToFacts
    <3> QED  BY <2>1, <3>1, <3>2, <3>3
  <2>2. CASE Kind[o] # "deltaMerge"  BY <1>2, <1>4, <2>2
  <2> QED  BY <2>1, <2>2
<1>7. \A x, y \in Op : ~(Kind[o] = "deltaMerge" /\ x = o /\ y = h) => chan'[x][y] = chan[x][y]
  BY <1>2, <1>6, PlanAssumption DEF Node
<1>8. \A x \in Op : chan'[x][Root] = chan[x][Root] /\ (x # o => chan'[Root][x] = chan[Root][x])
  BY <1>2, <1>5, <1>6, PlanAssumption DEF Node
<1>9. chan'[Root][o] = Tail(chan[Root][o])  BY <1>1, <1>2, <1>6, PlanAssumption
<1>10. ASSUME Kind[o] = "deltaMerge"
       PROVE  /\ Len(chan'[o][h]) = Len(chan[o][h]) + 1
              /\ \A i \in 1 .. Len(chan'[o][h]) :
                   (i \in 1 .. Len(chan[o][h]) /\ chan'[o][h][i] = chan[o][h][i]) \/ chan'[o][h][i] = "LOAD_REQUEST"
  <2>1. h \in Node /\ h # Root /\ "LOAD_REQUEST" \in MsgType
    BY <1>5, <1>10, PlanAssumption DEF Node, MsgType
  <2>2. c[o][h] = chan[o][h] /\ chan[o][h] \in Seq(MsgType)  BY <1>1, <1>2, <1>3, <2>1, PlanAssumption DEF Chans
  <2>3. chan'[o][h] = Append(chan[o][h], "LOAD_REQUEST")  BY <1>1, <1>6, <1>10, <2>1, <2>2
  <2> QED  BY <2>1, <2>2, <2>3, AppendFacts
<1>11. Vocabulary(chan, buffer)'
  <2>1. ASSUME NEW x \in Op, NEW y \in Op, NEW i \in 1 .. Len(chan'[x][y])
        PROVE  Allowed(x, y, chan'[x][y][i])
    <3>1. \A j \in 1 .. Len(chan[x][y]) : Allowed(x, y, chan[x][y][j])  BY DEF IInv, Vocabulary
    <3>2. CASE Kind[o] = "deltaMerge" /\ x = o /\ y = h
      <4>1. Allowed(o, h, "LOAD_REQUEST")  BY <1>5, <3>2 DEF Allowed
      <4> QED  BY <1>10, <3>1, <3>2, <4>1
    <3>3. CASE ~(Kind[o] = "deltaMerge" /\ x = o /\ y = h)  BY <1>7, <3>1, <3>3
    <3> QED  BY <3>2, <3>3
  <2> QED  BY <1>4, <2>1 DEF IInv, Vocabulary
<1>12. CompleteIsLast(chan, buffer, done)'
  <2> SUFFICES ASSUME NEW p \in Op, NEW y \in Consumers[p]
               PROVE  CompleteIsLast(chan, buffer, done)!(p)!(y)'
    BY DEF CompleteIsLast
  <2>1. chan'[p][y] = chan[p][y]  BY <1>5, <1>7, HandlerHasNoProducer
  <2>2. CompleteIsLast(chan, buffer, done)!(p)!(y)  BY DEF IInv, CompleteIsLast
  <2> QED  BY <1>4, <2>1, <2>2 DEF NotBuffered
<1>13. OneRequest(chan, buffer)'
  <2> SUFFICES ASSUME NEW g \in Op, Kind[g] = "cacheHandler", NEW x \in Consumers[g]
               PROVE  (Token(chan, buffer, x, g) <= IF status[x] = "idle" THEN 0 ELSE 1)'
    BY DEF OneRequest
  <2>1. x \in Op /\ x # g  BY HandlerHasNoProducer
  <2>2. Token(chan, buffer, x, g) <= IF status[x] = "idle" THEN 0 ELSE 1  BY DEF IInv, OneRequest
  <2>3. /\ Sent(chan, x, g) \in Nat /\ Kept(buffer, g) \in Nat /\ Sent(chan, g, g) \in Nat /\ Answered(g) \in Nat
        /\ Token(chan, buffer, x, g) \in Nat
    BY <1>3, <2>1, TokenTerms
  <2>4. Kept(buffer, g)' = Kept(buffer, g) /\ Answered(g)' = Answered(g)  BY <1>4 DEF Kept, Answered
  <2>5. Sent(chan, g, g)' = Sent(chan, g, g)  BY <1>5, <1>7, HandlerHasNoProducer DEF Sent
  <2>6. CASE Kind[o] = "deltaMerge" /\ x = o /\ g = h
    <3>1. Sent(chan, x, g)' = Sent(chan, x, g) + 1  BY <1>10, <2>6 DEF Sent
    <3>2. Token(chan, buffer, x, g)' = Token(chan, buffer, x, g) + 1
      BY <2>3, <2>4, <2>5, <3>1 DEF Token
    <3>3. Token(chan, buffer, x, g) = 0  BY <1>4, <2>2, <2>3, <2>6
    <3>4. status'[x] # "idle"  BY <1>3, <1>4, <2>6
    <3> QED  BY <3>2, <3>3, <3>4
  <2>7. CASE ~(Kind[o] = "deltaMerge" /\ x = o /\ g = h)
    <3>1. Sent(chan, x, g)' = Sent(chan, x, g)  BY <1>7, <2>1, <2>7 DEF Sent
    <3>2. Token(chan, buffer, x, g)' = Token(chan, buffer, x, g)  BY <2>4, <2>5, <3>1 DEF Token
    <3>3. status[x] # "idle" => status'[x] # "idle"  BY <1>3, <1>4, <2>1
    <3> QED  BY <2>2, <2>3, <3>2, <3>3
  <2> QED  BY <2>6, <2>7
<1>14. TypeOK'
  <2>1. status' \in [Op -> Statuses]  BY <1>3, <1>4 DEF Statuses
  <2> QED  BY <1>4, <1>6, <2>1 DEF IInv, TypeOK, Chans
<1>15. ConnectInv'
  <2> SUFFICES ASSUME NEW x \in Op PROVE ConnectInv!(x)'
    BY DEF ConnectInv
  <2>1. ConnectInv!(x)  BY DEF IInv, ConnectInv
  <2>2. Connected(x)' <=> Connected(x)  BY <1>4 DEF Connected
  <2>3. CASE x = o
    <3>1. chan[Root][o] \in Seq(MsgType)  BY <1>1, <1>3 DEF Chans
    <3>2. 1 \in 1 .. Len(chan[Root][o]) /\ chan[Root][o][1] = "START"  BY <1>1, <3>1, TailFacts
    <3>3. Connected(o) /\ ~complete[o]  BY <1>4, <2>1, <2>3, <3>2
    <3>4. ASSUME NEW i \in 1 .. Len(chan'[Root][o]), chan'[Root][o][i] = "START" PROVE FALSE
      <4>1. i + 1 \in 1 .. Len(chan[Root][o]) /\ chan[Root][o][i + 1] = "START" /\ i \in Nat /\ i >= 1
        BY <1>1, <1>9, <3>1, <3>4, TailFacts
      <4>2. i + 1 = 1 \/ chan[Root][o][1] = "CONNECT"  BY <2>1, <2>3, <4>1
      <4> QED  BY <3>2, <4>1, <4>2
    <3> QED  BY <1>3, <1>4, <2>1, <2>2, <2>3, <3>3, <3>4
  <2>4. CASE x # o
    <3>1. status'[x] = status[x] /\ chan'[Root][x] = chan[Root][x] /\ complete'[x] = complete[x] /\ entries'[x] = entries[x]
      BY <1>3, <1>4, <1>8, <2>4
    <3> QED  BY <2>1, <2>2, <3>1
  <2> QED  BY <2>3, <2>4
<1>16. RootInv'
  <2>1. \A x \in Op : status[x] = "failed" => status'[x] = "failed"  BY <1>3, <1>4
  <2> QED  BY <1>4, <1>8, <2>1 DEF IInv, RootInv
<1>17. AfterProducers'  BY <1>4 DEF IInv, AfterProducers
<1> QED  BY <1>6, <1>11, <1>12, <1>13, <1>14, <1>15, <1>16, <1>17 DEF IInv

(* A scan tells its batches before it completes.                           *)
LEMMA ScanBatchKeeps ==
    ASSUME IInv, NEW o \in Op, ScanBatch(o)
    PROVE  IInv'
<1>1. /\ chan \in Chans /\ buffer \in Buffers /\ done \in [Op -> SUBSET Op]
      /\ batches \in [Op -> 0 .. MaxBatches] /\ ~complete[o] /\ SendInv(chan, buffer, done)
  BY DEF IInv, TypeOK, SendInv, Chans, Buffers, ConnectInv, ScanBatch
<1>2. <<"TUPLE">> \in Output /\ Tell(chan, o, <<"TUPLE">>)  BY DEF Output, ScanBatch
<1>3. UNCHANGED <<status, buffer, entries, done, complete, root, rootDone>> /\ SameIdle
  BY DEF ScanBatch, SameIdle
<1>4. batches' \in [Op -> 0 .. MaxBatches]  BY <1>1, PlanAssumption DEF ScanBatch
<1>5. \A out \in Output : Tell(chan, o, out) =>
          /\ SendInv(chan, buffer, done)'
          /\ \A x \in Op : chan'[x][Root] = chan[x][Root] /\ chan'[Root][x] = chan[Root][x]
  BY <1>1, <1>3, TellKeeps
<1> QED  BY <1>1, <1>2, <1>3, <1>4, <1>5, StepWithoutCompletion

(* A scan completes when it has no more batches.                           *)
LEMMA ScanDoneKeeps ==
    ASSUME IInv, NEW o \in Op, ScanDone(o)
    PROVE  IInv'
<1>1. /\ chan \in Chans /\ buffer \in Buffers /\ done \in [Op -> SUBSET Op]
      /\ status \in [Op -> Statuses] /\ complete \in [Op -> BOOLEAN]
      /\ ~complete[o] /\ SendInv(chan, buffer, done)
  BY DEF IInv, TypeOK, SendInv, Chans, Buffers, ConnectInv, ScanDone
<1>2. /\ status[o] = "scanning" /\ status' = [status EXCEPT ![o] = "running"]
      /\ NotifyComplete(chan, o, <<>>)
      /\ UNCHANGED <<buffer, entries, done, batches, root, rootDone>>
  BY DEF ScanDone
<1>3. SameIdle  BY <1>1, <1>2 DEF SameIdle
<1>7. Kind[o] = "scan" /\ Producers(o) = {}  BY <1>2, PlanAssumption DEF IInv, ConnectInv
<1>4. <<>> \in LastOutput(o) /\ HoldsRequest(chan, buffer, o)  BY <1>7 DEF LastOutput, Output, HoldsRequest
<1>5. \A out \in LastOutput(o) : NotifyComplete(chan, o, out) =>
          /\ SendInv(chan, buffer, done)'
          /\ complete' = [complete EXCEPT ![o] = TRUE]
          /\ RootHears(chan, o)
  BY <1>1, <1>2, <1>3, <1>4, CompleteKeeps
<1>6. /\ SendInv(chan, buffer, done)'
      /\ complete' = [complete EXCEPT ![o] = TRUE]
      /\ RootHears(chan, o)
  BY <1>2, <1>4, <1>5
<1> QED  BY <1>1, <1>2, <1>6, <1>7, StepWithCompletion DEF RootHears

(* A scan that gives up reports the error.                                 *)
LEMMA ScanErrorKeeps ==
    ASSUME IInv, NEW o \in Op, ScanError(o)
    PROVE  IInv'
<1>1. chan \in Chans /\ status \in [Op -> Statuses]  BY DEF IInv, TypeOK, Chans
<1>2. /\ status[o] = "scanning" /\ status' = [status EXCEPT ![o] = "failed"]
      /\ chan' = SendTo(chan, o, Root, "ERROR")
      /\ UNCHANGED <<buffer, entries, done, complete, batches, root, rootDone>>
  BY DEF ScanError, NotifyError
<1>3. o \in Node /\ Root \in Node /\ "ERROR" \in MsgType  BY DEF Node, MsgType
<1>4. /\ chan' \in Chans
      /\ \A x, y \in Node : chan'[x][y] = IF x = o /\ y = Root THEN Append(chan[o][Root], "ERROR") ELSE chan[x][y]
  <2>1. \A m \in MsgType :
          /\ SendTo(chan, o, Root, m) \in Chans
          /\ \A x, y \in Node : SendTo(chan, o, Root, m)[x][y] = IF x = o /\ y = Root THEN Append(chan[o][Root], m) ELSE chan[x][y]
    BY <1>1, <1>3, SendToFacts
  <2> QED  BY <1>2, <1>3, <2>1
<1>5. \A x \in Op : /\ \A y \in Op : chan'[x][y] = chan[x][y]
                    /\ chan'[Root][x] = chan[Root][x]
                    /\ x # o => chan'[x][Root] = chan[x][Root]
  BY <1>4, PlanAssumption DEF Node
<1>6. \A x \in Op : status'[x] = IF x = o THEN "failed" ELSE status[x]  BY <1>1, <1>2
<1>7. SendInv(chan, buffer, done)' /\ AfterProducers'  BY <1>2, <1>4, <1>5, <1>6, QuietStep
<1>8. TypeOK'
  <2>1. status' \in [Op -> Statuses]  BY <1>1, <1>2 DEF Statuses
  <2> QED  BY <1>2, <1>4, <2>1 DEF IInv, TypeOK, Chans
<1>9. ConnectInv'
  <2> SUFFICES ASSUME NEW x \in Op PROVE ConnectInv!(x)'
    BY DEF ConnectInv
  <2>1. ConnectInv!(x)  BY DEF IInv, ConnectInv
  <2>2. Connected(x)' <=> Connected(x)  BY <1>2 DEF Connected
  <2> QED  BY <1>2, <1>5, <1>6, <2>1, <2>2
<1>10. RootInv'
  <2>1. ASSUME NEW x \in Op, NEW i \in 1 .. Len(chan'[x][Root])
        PROVE  /\ chan'[x][Root][i] = "COMPLETE" => complete'[x]
               /\ chan'[x][Root][i] = "ERROR" => status'[x] = "failed"
    <3>1. \A j \in 1 .. Len(chan[x][Root]) : /\ chan[x][Root][j] = "COMPLETE" => complete[x]
                                             /\ chan[x][Root][j] = "ERROR" => status[x] = "failed"
      BY DEF IInv, RootInv
    <3>2. CASE x # o  BY <1>2, <1>5, <1>6, <2>1, <3>1, <3>2
    <3>3. CASE x = o
      <4>1. chan[o][Root] \in Seq(MsgType)  BY <1>1, <1>3 DEF Chans
      <4>2. chan'[o][Root] = Append(chan[o][Root], "ERROR")  BY <1>3, <1>4
      <4>3. (i \in 1 .. Len(chan[o][Root]) /\ chan'[o][Root][i] = chan[o][Root][i]) \/ chan'[o][Root][i] = "ERROR"
        BY <1>3, <2>1, <3>3, <4>1, <4>2, AppendFacts
      <4> QED  BY <1>2, <1>6, <3>1, <3>3, <4>3
    <3> QED  BY <3>2, <3>3
  <2> QED  BY <1>2, <2>1 DEF IInv, RootInv
<1> QED  BY <1>7, <1>8, <1>9, <1>10 DEF IInv, SendInv

(* A message moves from a channel to the end of buffer_.                   *)
LEMMA BufferKeeps ==
    ASSUME IInv, NEW s \in Op, NEW o \in Op, Buffer(s, o)
    PROVE  IInv'
<1> DEFINE c == Take(s, o)
           m == Head(chan[s][o])
           e == [src |-> s, type |-> m]
<1>1. /\ chan[s][o] # <<>> /\ chan' = c
      /\ buffer' = [buffer EXCEPT ![o] = Append(@, e)]
      /\ UNCHANGED <<status, entries, done, complete, batches, root, rootDone>>
  BY DEF Buffer
<1>2. /\ SendInv(c, buffer, done)
      /\ InHand(c, buffer, o, s, m)
      /\ \A x \in Op : c[x][Root] = chan[x][Root] /\ c[Root][x] = chan[Root][x]
  BY <1>1, TakeFromChannel
<1>3. buffer \in Buffers /\ c \in Chans /\ buffer[o] \in Seq([src : Op, type : MsgType])
  BY <1>2 DEF IInv, TypeOK, Buffers, SendInv
<1>4. m \in MsgType /\ e \in [src : Op, type : MsgType]
  <2>1. chan[s][o] \in Seq(MsgType)  BY DEF IInv, TypeOK, Node
  <2> QED  BY <1>1, <2>1
<1> HIDE DEF c, m
<1>5. /\ buffer' \in Buffers /\ buffer'[o] = Append(buffer[o], e)
      /\ \A d \in Op : d # o => buffer'[d] = buffer[d]
  <2>1. Append(buffer[o], e) \in Seq([src : Op, type : MsgType])  BY <1>3, <1>4, AppendFacts
  <2> QED  BY <1>1, <1>3, <2>1 DEF Buffers
<1>6. e.src = s /\ e.type = m  OBVIOUS
<1> HIDE DEF e
<1>7. /\ Len(buffer'[o]) = Len(buffer[o]) + 1 /\ Len(buffer[o]) \in Nat
      /\ buffer'[o][Len(buffer[o]) + 1] = e
      /\ \A i \in 1 .. Len(buffer[o]) : buffer'[o][i] = buffer[o][i]
      /\ \A i \in 1 .. Len(buffer'[o]) : i \in 1 .. Len(buffer[o]) \/ i = Len(buffer[o]) + 1
  BY <1>3, <1>4, <1>5, AppendFacts
<1>8. Vocabulary(chan, buffer)'
  <2>1. ASSUME NEW d \in Op, NEW i \in 1 .. Len(buffer'[d])
        PROVE  Allowed(buffer'[d][i].src, d, buffer'[d][i].type)
    <3>1. \A j \in 1 .. Len(buffer[d]) : Allowed(buffer[d][j].src, d, buffer[d][j].type)
      BY <1>2 DEF SendInv, Vocabulary
    <3>2. CASE d = o
      <4>1. CASE i \in 1 .. Len(buffer[o])  BY <1>7, <3>1, <3>2, <4>1
      <4>2. CASE i = Len(buffer[o]) + 1
        <5>1. buffer'[d][i] = e  BY <1>7, <3>2, <4>2
        <5> QED  BY <1>2, <1>6, <3>2, <5>1 DEF InHand
      <4> QED  BY <1>7, <2>1, <3>2, <4>1, <4>2
    <3>3. CASE d # o  BY <1>5, <3>1, <3>3
    <3> QED  BY <3>2, <3>3
  <2> QED  BY <1>1, <1>2, <2>1 DEF SendInv, Vocabulary
<1>9. CompleteIsLast(chan, buffer, done)'
  <2> SUFFICES ASSUME NEW p \in Op, NEW y \in Consumers[p]
               PROVE  CompleteIsLast(chan, buffer, done)!(p)!(y)'
    BY DEF CompleteIsLast
  <2>1. y \in Op  BY PlanAssumption
  <2>2. CompleteIsLast(c, buffer, done)!(p)!(y)  BY <1>2 DEF SendInv, CompleteIsLast
  <2>3. CASE y # o
    <3>1. buffer'[y] = buffer[y]  BY <1>5, <2>1, <2>3
    <3> QED  BY <1>1, <2>2, <3>1 DEF NotBuffered
  <2>4. CASE y = o /\ p # s
    <3>1. ASSUME NEW i \in 1 .. Len(buffer'[o]), buffer'[o][i].src = p
          PROVE  i \in 1 .. Len(buffer[o]) /\ buffer'[o][i] = buffer[o][i]
      BY <1>6, <1>7, <2>4, <3>1
    <3>2. p \in done[o] => NotBuffered(buffer', p, o)  BY <2>2, <2>4, <3>1 DEF NotBuffered
    <3>3. ASSUME NEW i \in 1 .. Len(buffer'[o]), buffer'[o][i].src = p, buffer'[o][i].type = "COMPLETE"
          PROVE  complete[p] /\ c[p][o] = <<>> /\ \A j \in 1 .. Len(buffer'[o]) : buffer'[o][j].src = p => j <= i
      BY <2>2, <2>4, <3>1, <3>3
    <3> QED  BY <1>1, <2>2, <2>4, <3>2, <3>3
  <2>5. CASE y = o /\ p = s
    <3>1. CompleteIsLast(chan, buffer, done)!(s)!(o)  BY <2>5 DEF IInv, CompleteIsLast
    <3>2. s \notin done[o] /\ (m = "COMPLETE" => complete[s] /\ c[s][o] = <<>>)
      BY <1>2, <2>5 DEF InHand
    <3>3. ASSUME NEW i \in 1 .. Len(buffer'[o]), buffer'[o][i].src = s, buffer'[o][i].type = "COMPLETE"
          PROVE  complete[s] /\ c[s][o] = <<>> /\ \A j \in 1 .. Len(buffer'[o]) : j <= i
      <4>1. i = Len(buffer[o]) + 1  BY <1>1, <1>7, <3>1, <3>3
      <4>2. m = "COMPLETE"  BY <1>6, <1>7, <3>3, <4>1
      <4> QED  BY <1>7, <3>2, <4>1, <4>2
    <3> QED  BY <1>1, <2>2, <2>5, <3>2, <3>3
  <2> QED  BY <2>3, <2>4, <2>5
<1>10. OneRequest(chan, buffer)'
  <2> SUFFICES ASSUME NEW h \in Op, Kind[h] = "cacheHandler", NEW x \in Consumers[h]
               PROVE  (Token(chan, buffer, x, h) <= IF status[x] = "idle" THEN 0 ELSE 1)'
    BY DEF OneRequest
  <2>1. x \in Op  BY PlanAssumption
  <2>2. /\ Sent(c, x, h) \in Nat /\ Kept(buffer, h) \in Nat /\ Sent(c, h, h) \in Nat /\ Answered(h) \in Nat
    BY <1>3, <2>1, TokenTerms
  <2>3. Sent(chan, x, h)' = Sent(c, x, h) /\ Sent(chan, h, h)' = Sent(c, h, h) /\ Answered(h)' = Answered(h)
    BY <1>1 DEF Sent, Answered
  <2>4. CASE h = o
    <3>1. Token(c, buffer, x, h) = 0 /\ status[x] # "idle"  BY <1>2, <2>4 DEF InHand, HoldsRequest
    <3>2. Kept(buffer, h)' = Kept(buffer, h) + 1  BY <1>7, <2>4 DEF Kept
    <3>3. Token(chan, buffer, x, h)' = Token(c, buffer, x, h) + 1  BY <2>2, <2>3, <3>2 DEF Token
    <3> QED  BY <1>1, <3>1, <3>3
  <2>5. CASE h # o
    <3>1. Kept(buffer, h)' = Kept(buffer, h)  BY <1>5, <2>5 DEF Kept
    <3>2. Token(chan, buffer, x, h)' = Token(c, buffer, x, h)  BY <2>3, <3>1 DEF Token
    <3>3. Token(c, buffer, x, h) <= IF status[x] = "idle" THEN 0 ELSE 1  BY <1>2 DEF SendInv, OneRequest
    <3> QED  BY <1>1, <3>2, <3>3
  <2> QED  BY <2>4, <2>5
<1>11. SendInv(chan, buffer, done)'  BY <1>1, <1>3, <1>8, <1>9, <1>10 DEF SendInv
<1>12. batches' \in [Op -> 0 .. MaxBatches] /\ done' \in [Op -> SUBSET Op]  BY <1>1 DEF IInv, TypeOK
<1> QED  BY <1>1, <1>2, <1>5, <1>11, <1>12, StepWithoutCompletion

(* A buffered message is handled after START ...                           *)
LEMMA DrainKeeps ==
    ASSUME IInv, NEW o \in Op, Drain(o)
    PROVE  IInv'
<1> DEFINE b == [buffer EXCEPT ![o] = Tail(@)]
<1>1. /\ status[o] = "running" /\ buffer[o] # <<>> /\ buffer' = b
      /\ Handle(chan, o, Head(buffer[o]).src, Head(buffer[o]).type)
      /\ UNCHANGED <<status, entries, batches, root, rootDone>>
  BY DEF Drain
<1>2. /\ b \in Buffers
      /\ SendInv(chan, b, done)
      /\ Head(buffer[o]).src \in Op
      /\ InHand(chan, b, o, Head(buffer[o]).src, Head(buffer[o]).type)
      /\ Head(buffer[o]).type = "COMPLETE" => NotBuffered(b, Head(buffer[o]).src, o)
  BY <1>1, TakeFromBuffer
<1> HIDE DEF b
<1> QED  BY <1>1, <1>2, HandleKeeps

(* ... and one that came later as it is taken.                             *)
LEMMA ReceiveKeeps ==
    ASSUME IInv, NEW s \in Op, NEW o \in Op, Receive(s, o)
    PROVE  IInv'
<1>1. /\ status[o] = "running" /\ buffer[o] = <<>> /\ chan[s][o] # <<>>
      /\ Handle(Take(s, o), o, s, Head(chan[s][o]))
      /\ UNCHANGED <<status, buffer, entries, batches, root, rootDone>>
  BY DEF Receive
<1>2. /\ SendInv(Take(s, o), buffer, done)
      /\ InHand(Take(s, o), buffer, o, s, Head(chan[s][o]))
      /\ \A x \in Op : Take(s, o)[x][Root] = chan[x][Root] /\ Take(s, o)[Root][x] = chan[Root][x]
  BY <1>1, TakeFromChannel
<1>3. NotBuffered(buffer, s, o)
  <2>1. Len(buffer[o]) = 0  BY <1>1
  <2> QED  BY <2>1 DEF NotBuffered
<1>4. buffer \in Buffers  BY DEF IInv, TypeOK, Buffers
<1> QED  BY <1>1, <1>2, <1>3, <1>4, HandleKeeps

(* An actor that leaves sends nothing.                                     *)
LEMMA RecvExitKeeps ==
    ASSUME IInv, NEW o \in Op, RecvExit(o)
    PROVE  IInv'
<1>1. /\ status' = [status EXCEPT ![o] = "exited"] /\ status[o] # "failed"
      /\ UNCHANGED <<chan, buffer, entries, done, complete, batches, root, rootDone>>
  BY DEF RecvExit
<1>2. chan \in Chans /\ status \in [Op -> Statuses]  BY DEF IInv, TypeOK, Chans
<1>3. \A x \in Op : status'[x] = IF x = o THEN "exited" ELSE status[x]  BY <1>1, <1>2
<1>4. SendInv(chan, buffer, done)' /\ AfterProducers'  BY <1>1, <1>2, <1>3, QuietStep
<1>5. TypeOK'
  <2>1. status' \in [Op -> Statuses]  BY <1>1, <1>2 DEF Statuses
  <2> QED  BY <1>1, <2>1 DEF IInv, TypeOK
<1>6. ConnectInv'
  <2> SUFFICES ASSUME NEW x \in Op PROVE ConnectInv!(x)'
    BY DEF ConnectInv
  <2>1. ConnectInv!(x)  BY DEF IInv, ConnectInv
  <2>2. Connected(x)' <=> Connected(x)  BY <1>1 DEF Connected
  <2> QED  BY <1>1, <1>3, <2>1, <2>2
<1>7. RootInv'  BY <1>1, <1>3 DEF IInv, RootInv
<1> QED  BY <1>4, <1>5, <1>6, <1>7 DEF IInv, SendInv

(* The root sends CONNECT and START in this order.                         *)
LEMMA ExecutionStartKeeps ==
    ASSUME IInv, ExecutionStart
    PROVE  IInv'
<1>1. /\ root = "boot" /\ root' = "join"
      /\ chan' = [chan EXCEPT ![Root] = [d \in Node |-> IF d \in Op THEN <<"CONNECT", "START">> ELSE <<>>]]
      /\ UNCHANGED <<status, buffer, entries, done, complete, batches, rootDone>>
  BY DEF ExecutionStart
<1>2. chan \in Chans  BY DEF IInv, TypeOK, Chans
<1>3. <<"CONNECT", "START">> \in Seq(MsgType) /\ <<>> \in Seq(MsgType)  BY DEF MsgType
<1>4. /\ chan' \in Chans
      /\ \A x \in Op : chan'[Root][x] = <<"CONNECT", "START">> /\ \A y \in Node : chan'[x][y] = chan[x][y]
  BY <1>1, <1>2, <1>3, PlanAssumption DEF Chans, Node
<1>5. SendInv(chan, buffer, done)' /\ AfterProducers'  BY <1>1, <1>4, QuietStep DEF Node
<1>6. TypeOK'  BY <1>1, <1>4 DEF IInv, TypeOK, Chans
<1>7. ConnectInv'
  <2> SUFFICES ASSUME NEW x \in Op PROVE ConnectInv!(x)'
    BY DEF ConnectInv
  <2>1. ConnectInv!(x)  BY DEF IInv, ConnectInv
  <2>2. Connected(x)' <=> Connected(x)  BY <1>1 DEF Connected
  <2>3. ASSUME NEW i \in 1 .. Len(chan'[Root][x]), chan'[Root][x][i] = "START"
        PROVE  i = 2 /\ chan'[Root][x][1] = "CONNECT"
    BY <1>4, <2>3
  <2> QED  BY <1>1, <2>1, <2>2, <2>3
<1>8. RootInv'
  <2>1. \A x \in Op : chan'[x][Root] = chan[x][Root]  BY <1>4 DEF Node
  <2> QED  BY <1>1, <2>1 DEF IInv, RootInv
<1> QED  BY <1>5, <1>6, <1>7, <1>8 DEF IInv, SendInv

(* The root takes a message of s and may send exit messages: what is left  *)
(* of the invariant is what it believes.                                   *)
LEMMA RootStepKeeps ==
    ASSUME IInv, NEW c \in Chans, NEW s \in Op,
           \A x \in Op : /\ \A y \in Op : c[x][y] = chan[x][y]
                         /\ c[Root][x] = chan[Root][x]
                         /\ x # s => c[x][Root] = chan[x][Root],
           \A i \in 1 .. Len(c[s][Root]) : \E j \in 1 .. Len(chan[s][Root]) : c[s][Root][i] = chan[s][Root][j],
           chan' = c \/ chan' = SendExit(c),
           UNCHANGED <<status, buffer, entries, done, complete, batches>>,
           root' \in {"boot", "join", "joined", "failed", "closed"},
           rootDone' \subseteq Op, \A o \in rootDone' : complete[o],
           root' \in {"joined", "closed"} => rootDone' = Op
    PROVE  IInv'
<1>1. /\ chan' \in Chans
      /\ \A x, y \in Node : chan'[x][y] = IF chan' # c /\ x = Root /\ y \in Op THEN Append(c[x][y], "EXIT") ELSE c[x][y]
  <2>1. CASE chan' = c  BY <2>1
  <2>2. CASE chan' # c /\ chan' = SendExit(c)  BY <2>2, SendExitFacts
  <2> QED  BY <2>1, <2>2
<1>2. \A x \in Op : (\A y \in Op : chan'[x][y] = chan[x][y]) /\ chan'[x][Root] = c[x][Root]
  BY <1>1, PlanAssumption DEF Node
<1>3. SendInv(chan, buffer, done)' /\ AfterProducers'  BY <1>1, <1>2, QuietStep
<1>4. TypeOK'  BY <1>1 DEF IInv, TypeOK, Chans
<1>5. ConnectInv'
  <2> SUFFICES ASSUME NEW x \in Op PROVE ConnectInv!(x)'
    BY DEF ConnectInv
  <2>1. ConnectInv!(x)  BY DEF IInv, ConnectInv
  <2>2. Connected(x)' <=> Connected(x)  BY DEF Connected
  <2>3. chan[Root][x] \in Seq(MsgType) /\ "EXIT" \in MsgType  BY DEF IInv, TypeOK, Node, MsgType
  <2>4. chan'[Root][x] = chan[Root][x] \/ chan'[Root][x] = Append(chan[Root][x], "EXIT")
    BY <1>1 DEF Node
  <2>5. ASSUME NEW i \in 1 .. Len(chan'[Root][x]), chan'[Root][x][i] = "START"
        PROVE  /\ i \in 1 .. Len(chan[Root][x]) /\ chan[Root][x][i] = "START"
               /\ chan'[Root][x][1] = chan[Root][x][1]
    <3>1. CASE chan'[Root][x] = chan[Root][x]  BY <2>5, <3>1
    <3>2. CASE chan'[Root][x] = Append(chan[Root][x], "EXIT")
      <4> DEFINE q == chan[Root][x]
      <4>1. /\ Len(Append(q, "EXIT")) = Len(q) + 1 /\ Len(q) \in Nat
            /\ \A k \in 1 .. Len(q) : Append(q, "EXIT")[k] = q[k]
            /\ Append(q, "EXIT")[Len(q) + 1] = "EXIT"
        BY <2>3, AppendFacts
      <4> HIDE DEF q
      <4>2. i \in 1 .. Len(q) /\ q[i] = "START"  BY <2>5, <3>2, <4>1 DEF q
      <4>3. 1 \in 1 .. Len(q)  BY <4>1, <4>2
      <4> QED  BY <3>2, <4>1, <4>2, <4>3 DEF q
    <3> QED  BY <2>4, <3>1, <3>2
  <2> QED  BY <2>1, <2>2, <2>5
<1>6. RootInv'
  <2>1. ASSUME NEW x \in Op, NEW i \in 1 .. Len(chan'[x][Root])
        PROVE  \E j \in 1 .. Len(chan[x][Root]) : chan'[x][Root][i] = chan[x][Root][j]
    <3>1. CASE x = s
      <4>1. chan'[s][Root] = c[s][Root] /\ i \in 1 .. Len(c[s][Root])  BY <1>2, <2>1, <3>1
      <4>2. PICK j \in 1 .. Len(chan[s][Root]) : c[s][Root][i] = chan[s][Root][j]  BY <4>1
      <4> QED  BY <3>1, <4>1, <4>2
    <3>2. CASE x # s
      <4>1. chan'[x][Root] = chan[x][Root]  BY <1>2, <3>2
      <4> QED  BY <2>1, <4>1
    <3> QED  BY <3>1, <3>2
  <2> QED  BY <2>1 DEF IInv, RootInv
<1> QED  BY <1>3, <1>4, <1>5, <1>6 DEF IInv, SendInv

(* What the channels are once the root has taken a message of s.           *)
LEMMA RootTakes ==
    ASSUME IInv, NEW s \in Op, chan[s][Root] # <<>>
    PROVE  /\ Take(s, Root) \in Chans
           /\ \A x \in Op : /\ \A y \in Op : Take(s, Root)[x][y] = chan[x][y]
                            /\ Take(s, Root)[Root][x] = chan[Root][x]
                            /\ x # s => Take(s, Root)[x][Root] = chan[x][Root]
           /\ \A i \in 1 .. Len(Take(s, Root)[s][Root]) :
                \E j \in 1 .. Len(chan[s][Root]) : Take(s, Root)[s][Root][i] = chan[s][Root][j]
           /\ Head(chan[s][Root]) = "COMPLETE" => complete[s]
<1>1. s \in Node /\ Root \in Node /\ TypeOK  BY DEF Node, IInv
<1>2. /\ Take(s, Root) \in Chans
      /\ \A x, y \in Node : Take(s, Root)[x][y] = IF x = s /\ y = Root THEN Tail(chan[s][Root]) ELSE chan[x][y]
  BY <1>1, TakeFacts
<1>3. chan[s][Root] \in Seq(MsgType)  BY <1>1 DEF TypeOK
<1>4. Take(s, Root)[s][Root] = Tail(chan[s][Root])  BY <1>1, <1>2
<1>5. \A i \in 1 .. Len(Take(s, Root)[s][Root]) :
        \E j \in 1 .. Len(chan[s][Root]) : Take(s, Root)[s][Root][i] = chan[s][Root][j]
  BY <1>3, <1>4, TailFacts
<1>6. 1 \in 1 .. Len(chan[s][Root]) /\ Head(chan[s][Root]) = chan[s][Root][1]  BY <1>3, TailFacts
<1>7. Head(chan[s][Root]) = "COMPLETE" => complete[s]  BY <1>6 DEF IInv, RootInv
<1> QED  BY <1>2, <1>5, <1>7, PlanAssumption DEF Node

(* Every step keeps the inductive invariant.                               *)
LEMMA NextKeeps ==
    ASSUME IInv, [Next]_vars
    PROVE  IInv'
<1>1. CASE UNCHANGED vars
  <2>1. TypeOK'  BY <1>1 DEF IInv, TypeOK, vars
  <2>2. ConnectInv'  BY <1>1 DEF IInv, ConnectInv, Connected, vars
  <2>3. SendInv(chan, buffer, done)' /\ AfterProducers'
    BY <1>1, QuietStep DEF IInv, TypeOK, Chans, vars
  <2>4. RootInv'  BY <1>1 DEF IInv, RootInv, vars
  <2> QED  BY <2>1, <2>2, <2>3, <2>4 DEF IInv, SendInv
<1>2. ASSUME NEW o \in Op, OpStep(o) PROVE IInv'
  BY <1>2, RecvConnectKeeps, RecvStartKeeps, RecvExitKeeps, ScanBatchKeeps, ScanDoneKeeps,
     ScanErrorKeeps, DrainKeeps, BufferKeeps, ReceiveKeeps DEF OpStep
<1>3. ASSUME NEW s \in Op, JoinComplete(s) PROVE IInv'
  <2>1. /\ chan[s][Root] # <<>> /\ Head(chan[s][Root]) = "COMPLETE" /\ root = "join"
        /\ UNCHANGED <<status, buffer, entries, done, complete, batches>>
        /\ chan' = Take(s, Root) \/ chan' = SendExit(Take(s, Root))
        /\ rootDone' \subseteq rootDone \cup {s} /\ root' \in {"failed", "joined", "join"}
        /\ root' = "joined" => rootDone' = Op
    BY <1>3 DEF JoinComplete
  <2>2. rootDone \subseteq Op /\ \A o \in rootDone : complete[o]  BY DEF IInv, TypeOK, RootInv
  <2>3. complete[s]  BY <2>1, RootTakes
  <2>4. rootDone' \subseteq Op /\ \A o \in rootDone' : complete[o]  BY <2>1, <2>2, <2>3
  <2> DEFINE c == Take(s, Root)
  <2>5. /\ c \in Chans
        /\ \A x \in Op : /\ \A y \in Op : c[x][y] = chan[x][y]
                         /\ c[Root][x] = chan[Root][x]
                         /\ x # s => c[x][Root] = chan[x][Root]
        /\ \A i \in 1 .. Len(c[s][Root]) : \E j \in 1 .. Len(chan[s][Root]) : c[s][Root][i] = chan[s][Root][j]
    BY <2>1, RootTakes
  <2>6. chan' = c \/ chan' = SendExit(c)  BY <2>1
  <2> HIDE DEF c
  <2> QED  BY <2>1, <2>4, <2>5, <2>6, RootStepKeeps
<1>4. ASSUME NEW s \in Op, JoinError(s) PROVE IInv'
  <2> DEFINE c == Take(s, Root)
  <2>1. /\ chan[s][Root] # <<>> /\ chan' = SendExit(c) /\ root' = "failed"
        /\ UNCHANGED <<status, buffer, entries, done, complete, batches, rootDone>>
    BY <1>4 DEF JoinError
  <2>2. rootDone' \subseteq Op /\ \A o \in rootDone' : complete[o]  BY <2>1 DEF IInv, TypeOK, RootInv
  <2>3. /\ c \in Chans
        /\ \A x \in Op : /\ \A y \in Op : c[x][y] = chan[x][y]
                         /\ c[Root][x] = chan[Root][x]
                         /\ x # s => c[x][Root] = chan[x][Root]
        /\ \A i \in 1 .. Len(c[s][Root]) : \E j \in 1 .. Len(chan[s][Root]) : c[s][Root][i] = chan[s][Root][j]
    BY <2>1, RootTakes
  <2> HIDE DEF c
  <2> QED  BY <2>1, <2>2, <2>3, RootStepKeeps
<1>5. ASSUME Close PROVE IInv'
  <2>1. /\ root = "joined" /\ root' = "closed" /\ chan' = SendExit(chan)
        /\ UNCHANGED <<status, buffer, entries, done, complete, batches, rootDone>>
    BY <1>5 DEF Close
  <2>2. chan \in Chans /\ rootDone' \subseteq Op /\ (\A o \in rootDone' : complete[o]) /\ rootDone' = Op
    BY <2>1 DEF IInv, TypeOK, RootInv, Chans
  <2>3. CASE \E s \in Op : TRUE
    <3>1. PICK s \in Op : TRUE  BY <2>3
    <3> QED  BY <2>1, <2>2, <3>1, RootStepKeeps
  <2>4. CASE Op = {}
    <3>1. chan' \in Chans  BY <2>1, <2>2, SendExitFacts
    <3>2. SendInv(chan, buffer, done)' /\ AfterProducers'  BY <2>1, <2>4, <3>1, QuietStep
    <3>3. TypeOK'  BY <2>1, <3>1 DEF IInv, TypeOK, Chans
    <3> QED  BY <2>1, <2>2, <2>4, <3>2, <3>3 DEF IInv, SendInv, ConnectInv, RootInv
  <2> QED  BY <2>3, <2>4
<1> QED  BY <1>1, <1>2, <1>3, <1>4, <1>5, ExecutionStartKeeps DEF Next, RootStep, Finished

-----------------------------------------------------------------------------
(* The invariant holds, and what follows from it.                          *)

(* The initial state satisfies the invariant.                              *)
LEMMA InitHolds ==
    ASSUME Init PROVE IInv
<1>1. \A x, y \in Node : chan[x][y] = <<>> /\ Len(chan[x][y]) = 0  BY DEF Init
<1>2. \A o \in Op : buffer[o] = <<>> /\ Len(buffer[o]) = 0  BY DEF Init
<1>3. \A o \in Op : ~complete[o] /\ status[o] = "idle" /\ done[o] = {} /\ entries[o] = {}  BY DEF Init
<1>4. TypeOK
  <2>1. <<>> \in Seq(MsgType) /\ <<>> \in Seq([src : Op, type : MsgType])  OBVIOUS
  <2>2. chan \in [Node -> [Node -> Seq(MsgType)]] /\ buffer \in [Op -> Seq([src : Op, type : MsgType])]
    BY <2>1 DEF Init
  <2> QED  BY <2>2, PlanAssumption DEF Init, TypeOK, Statuses
<1>5. ConnectInv  BY <1>1, <1>3 DEF ConnectInv, Node
<1>6. Vocabulary(chan, buffer)  BY <1>1, <1>2 DEF Vocabulary, Node
<1>7. CompleteIsLast(chan, buffer, done)
  <2> SUFFICES ASSUME NEW p \in Op, NEW y \in Consumers[p]
               PROVE  CompleteIsLast(chan, buffer, done)!(p)!(y)
    BY DEF CompleteIsLast
  <2>1. y \in Op  BY PlanAssumption
  <2> QED  BY <1>1, <1>2, <1>3, <2>1 DEF Node
<1>8. AfterProducers  BY <1>3 DEF AfterProducers
<1>9. OneRequest(chan, buffer)
  <2> SUFFICES ASSUME NEW h \in Op, Kind[h] = "cacheHandler", NEW x \in Consumers[h]
               PROVE  Token(chan, buffer, x, h) <= IF status[x] = "idle" THEN 0 ELSE 1
    BY DEF OneRequest
  <2>1. x \in Op  BY PlanAssumption
  <2>2. Sent(chan, x, h) = 0 /\ Sent(chan, h, h) = 0  BY <1>1, <2>1 DEF Sent, Node
  <2>3. Kept(buffer, h) = 0 /\ Answered(h) = 0  BY <1>2, <1>3 DEF Kept, Answered
  <2>4. Token(chan, buffer, x, h) = 0  BY <2>2, <2>3 DEF Token
  <2> QED  BY <2>4
<1>10. RootInv  BY <1>1 DEF RootInv, Init, Node
<1> QED  BY <1>4, <1>5, <1>6, <1>7, <1>8, <1>9, <1>10 DEF IInv

(* The inductive invariant of the protocol: COMPLETE is the last message   *)
(* on an edge, and a DeltaMerge has one load request in the system.        *)
THEOREM Invariance == Spec => []IInv
<1>1. Init => IInv  BY InitHolds
<1>2. IInv /\ [Next]_vars => IInv'  BY NextKeeps
<1> QED  BY <1>1, <1>2, PTL DEF Spec

(* The state of channels, actors and directories is always well formed.    *)
THEOREM TypeCorrect == Spec => []TypeOK
<1>1. IInv => TypeOK  BY DEF IInv
<1> QED  BY <1>1, Invariance, PTL

(* What CompleteAfterDrain says follows from the invariant.                *)
LEMMA DrainedWhenComplete ==
    ASSUME IInv, NEW o \in Op, complete[o], NEW p \in Op, o \in Consumers[p]
    PROVE  complete[p] /\ chan[p][o] = <<>> /\ NotBuffered(buffer, p, o)
<1>1. p \in done[o]  BY DEF IInv, AfterProducers, Producers
<1>2. CompleteIsLast(chan, buffer, done)!(p)!(o)  BY DEF IInv, CompleteIsLast
<1> QED  BY <1>1, <1>2

(* In every plan, an operator's onComplete comes after all that its        *)
(* producers ever send it.                                                 *)
THEOREM Drained == Spec => []CompleteAfterDrain
<1>1. IInv => CompleteAfterDrain
  BY DrainedWhenComplete DEF CompleteAfterDrain, NotBuffered, Producers
<1> QED  BY <1>1, Invariance, PTL

(* In every plan, an ERROR the root takes is a scan's: the guards of       *)
(* POpContext and of the directories are never hit.                        *)
THEOREM ErrorsAreScans == Spec => []OnlyScansReportErrors
<1>1. IInv => OnlyScansReportErrors  BY DEF IInv, RootInv, OnlyScansReportErrors
<1> QED  BY <1>1, Invariance, PTL

(* Once a cache handler has completed, its one request has been used up.   *)
LEMMA RequestUsedUp ==
    ASSUME IInv, NEW h \in Op, complete[h], Kind[h] = "cacheHandler"
    PROVE  /\ buffer[h] = <<>> /\ chan[h][h] = <<>>
           /\ \A x \in Consumers[h] : chan[x][h] = <<>>
<1>1. chan \in Chans /\ buffer \in Buffers  BY DEF IInv, TypeOK, Chans, Buffers
<1>2. ASSUME NEW x \in Consumers[h]
      PROVE  buffer[h] = <<>> /\ chan[h][h] = <<>> /\ chan[x][h] = <<>>
  <2>1. x \in Op  BY PlanAssumption
  <2>2. /\ Sent(chan, x, h) \in Nat /\ Kept(buffer, h) \in Nat /\ Sent(chan, h, h) \in Nat
        /\ Token(chan, buffer, x, h) \in Nat
    BY <1>1, <2>1, TokenTerms
  <2>3. Token(chan, buffer, x, h) <= 1
    <3>1. Token(chan, buffer, x, h) <= IF status[x] = "idle" THEN 0 ELSE 1  BY DEF IInv, OneRequest
    <3> QED  BY <2>2, <3>1
  <2>4. Answered(h) = 1  BY DEF Answered
  <2>5. Sent(chan, x, h) = 0 /\ Kept(buffer, h) = 0 /\ Sent(chan, h, h) = 0
    BY <2>2, <2>3, <2>4 DEF Token
  <2>6. Len(chan[x][h]) = 0 /\ Len(buffer[h]) = 0 /\ Len(chan[h][h]) = 0  BY <2>5 DEF Sent, Kept
  <2>7. chan[x][h] \in Seq(MsgType) /\ chan[h][h] \in Seq(MsgType)
    BY <1>1, <2>1 DEF Chans, Node
  <2>8. buffer[h] \in Seq([src : Op, type : MsgType])  BY <1>1 DEF Buffers
  <2> QED  BY <2>6, <2>7, <2>8, EmptySeq
<1>3. \E x \in Op : Consumers[h] = {x}  BY HandlerAssumption
<1> QED  BY <1>2, <1>3

(* In every plan, join() returns only when all the operators have          *)
(* completed and every message between them has been handled.              *)
THEOREM NothingLost == Spec => []JoinLosesNothing
<1>1. ASSUME IInv, root \in {"joined", "closed"}, NEW o \in Op
      PROVE  complete[o] /\ buffer[o] = <<>> /\ \A d \in Op : chan[o][d] = <<>>
  <2>1. \A x \in Op : complete[x]  BY <1>1 DEF IInv, RootInv
  <2>2. ASSUME NEW d \in Op PROVE chan[o][d] = <<>>
    <3> SUFFICES ASSUME chan[o][d] # <<>> PROVE FALSE
      OBVIOUS
    <3>1. chan[o][d] \in Seq(MsgType)  BY <1>1, <2>2 DEF IInv, TypeOK, Node
    <3>2. 1 \in 1 .. Len(chan[o][d])  BY <3>1, TailFacts
    <3>3. Allowed(o, d, chan[o][d][1])  BY <1>1, <2>2, <3>2 DEF IInv, Vocabulary
    <3>4. CASE d \in Consumers[o]  BY <1>1, <2>1, <3>4, DrainedWhenComplete
    <3>5. CASE Kind[d] = "cacheHandler" /\ o \in Consumers[d] \cup {d}
      BY <1>1, <2>1, <3>5, RequestUsedUp
    <3> QED  BY <3>3, <3>4, <3>5 DEF Allowed
  <2>3. buffer[o] = <<>>
    <3> SUFFICES ASSUME buffer[o] # <<>> PROVE FALSE
      OBVIOUS
    <3> DEFINE e == buffer[o][1]
    <3>1. buffer[o] \in Seq([src : Op, type : MsgType])  BY <1>1 DEF IInv, TypeOK
    <3>2. 1 \in 1 .. Len(buffer[o])  BY <3>1, TailFacts
    <3>3. e \in [src : Op, type : MsgType]  BY <3>1, <3>2, ElementOfSeq
    <3>4. e.src \in Op  BY <3>3
    <3>5. Allowed(e.src, o, e.type)  BY <1>1, <3>2 DEF IInv, Vocabulary
    <3>6. CASE o \in Consumers[e.src]
      <4>1. NotBuffered(buffer, e.src, o)  BY <1>1, <2>1, <3>4, <3>6, DrainedWhenComplete
      <4> QED  BY <3>2, <4>1 DEF NotBuffered
    <3>7. CASE Kind[o] = "cacheHandler"  BY <1>1, <2>1, <3>7, RequestUsedUp
    <3> QED  BY <3>5, <3>6, <3>7 DEF Allowed
  <2> QED  BY <1>1, <2>1, <2>2, <2>3
<1>2. IInv => JoinLosesNothing  BY <1>1 DEF JoinLosesNothing
<1> QED  BY <1>2, Invariance, PTL

-----------------------------------------------------------------------------
(* The execution implements the abstract lifecycle.                        *)

(* A step of an operator completes it, or nothing.                         *)
LEMMA OneCompletes ==
    ASSUME NEW o \in Op, OpStep(o)
    PROVE  /\ UNCHANGED root
           /\ UNCHANGED complete \/ complete' = [complete EXCEPT ![o] = TRUE]
<1>1. ASSUME NEW c, NEW s, NEW m, Handle(c, o, s, m)
      PROVE  UNCHANGED complete \/ complete' = [complete EXCEPT ![o] = TRUE]
  BY <1>1 DEF Handle, OnTuple, OnComplete, OnLoadRequest, OnLoadResponse, NotifyComplete
<1> QED  BY <1>1 DEF OpStep, RecvConnect, RecvStart, RecvExit, ScanBatch, ScanDone, ScanError, Drain,
                     Buffer, Receive, NotifyComplete

(* A step of the root, or none at all, completes no operator.              *)
LEMMA RootCompletesNone ==
    ASSUME IInv, IInv', RootStep \/ Finished \/ UNCHANGED vars
    PROVE  /\ UNCHANGED complete
           /\ \/ UNCHANGED root
              \/ root = "boot" /\ root' = "join"
              \/ root = "joined" /\ root' = "closed"
              \/ root = "join" /\ root' = "failed"
              \/ root = "join" /\ root' = "joined" /\ \A o \in Op : complete[o]
BY DEF RootStep, Finished, vars, ExecutionStart, Close, JoinComplete, JoinError, IInv, RootInv

(* Every plan's execution implements QueryLifecycle: operators complete    *)
(* once, after their producers, and the query returns only after the last. *)
THEOREM Implements == Spec => ImplementsLifecycle
<1>1. Init => Abstract!Init  BY DEF Init, Abstract!Init
<1>2. ASSUME IInv, IInv', [Next]_vars PROVE [Abstract!Next]_(Abstract!lifeVars)
  <2>1. ASSUME NEW o \in Op, OpStep(o) PROVE [Abstract!Next]_(Abstract!lifeVars)
    <3>1. UNCHANGED root /\ (UNCHANGED complete \/ complete' = [complete EXCEPT ![o] = TRUE])
      BY <2>1, OneCompletes
    <3>2. complete \in [Op -> BOOLEAN]  BY <1>2 DEF IInv, TypeOK
    <3>3. CASE UNCHANGED complete  BY <3>1, <3>3 DEF Abstract!lifeVars
    <3>4. CASE ~complete[o] /\ complete' = [complete EXCEPT ![o] = TRUE]
      <4>1. {x \in Op : complete'[x]} = {x \in Op : complete[x]} \cup {o}  BY <3>2, <3>4
      <4>2. ASSUME NEW p \in Op, o \in Consumers[p] PROVE complete[p]
        <5>1. complete'[o]  BY <3>2, <3>4
        <5>2. p \in done'[o]  BY <1>2, <4>2, <5>1 DEF IInv, AfterProducers, Producers
        <5>3. complete'[p]  BY <1>2, <4>2, <5>2 DEF IInv, CompleteIsLast
        <5>4. p # o  BY <4>2, PlanAssumption
        <5> QED  BY <3>2, <3>4, <5>3, <5>4
      <4>3. Abstract!Finish(o)  BY <3>1, <3>4, <4>1, <4>2 DEF Abstract!Finish
      <4> QED  BY <4>3 DEF Abstract!Next
    <3>5. CASE complete[o] /\ complete' = [complete EXCEPT ![o] = TRUE]
      <4>1. UNCHANGED complete  BY <3>2, <3>5
      <4> QED  BY <3>3, <4>1
    <3> QED  BY <3>1, <3>3, <3>4, <3>5
  <2>2. ASSUME RootStep \/ Finished \/ UNCHANGED vars PROVE [Abstract!Next]_(Abstract!lifeVars)
    <3>1. UNCHANGED complete  BY <1>2, <2>2, RootCompletesNone
    <3>2. CASE UNCHANGED root  BY <3>1, <3>2 DEF Abstract!lifeVars
    <3>3. CASE root = "boot" /\ root' = "join"  BY <3>1, <3>3 DEF Abstract!lifeVars
    <3>4. CASE root = "joined" /\ root' = "closed"  BY <3>1, <3>4 DEF Abstract!lifeVars
    <3>5. CASE root = "join" /\ root' = "failed"
      BY <3>1, <3>5 DEF Abstract!Next, Abstract!Throw
    <3>6. CASE root = "join" /\ root' = "joined" /\ \A o \in Op : complete[o]
      BY <3>1, <3>6 DEF Abstract!Next, Abstract!Return
    <3> QED  BY <1>2, <2>2, <3>2, <3>3, <3>4, <3>5, <3>6, RootCompletesNone
  <2> QED  BY <1>2, <2>1, <2>2 DEF Next
<1> QED  BY <1>1, <1>2, Invariance, PTL DEF Spec, ImplementsLifecycle, Abstract!Spec
=============================================================================
