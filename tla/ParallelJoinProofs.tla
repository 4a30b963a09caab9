------------------------- MODULE ParallelJoinProofs -------------------------
(***************************************************************************)
(* Proofs about ParallelJoin, for any keys, plans, tuple sets and sizes of *)
(* the buffers: the kernels refer to rows that exist, an instance fails    *)
(* only behind a split whose input was empty, and the instances together   *)
(* give the join of the two inputs.                                        *)
(***************************************************************************)
EXTENDS ParallelJoin, SequencePositionsProofs, SequenceTheorems

RowType == [key : Key, id : Nat]
Buffer == [some : BOOLEAN, rows : Seq(RowType)]

(* The tuple sets, wherever they are, hold rows.                           *)
HeapInv ==
    /\ plan \in Plans /\ closed \subseteq Side
    /\ given \in [Side -> Seq(Key)] /\ batches \in [Side -> Nat]
    /\ tuples \in Seq(Seq(RowType))
    /\ buffers \in [Side -> [Instance -> Buffer]]
    /\ mail \in [Instance -> [Side -> Seq(0 .. Len(tuples))]]

(* A kernel refers to objects of the heap and to rows they have.           *)
Kernels(i) ==
    /\ DOMAIN join[i] = {"left", "right", "matched", "out", "complete", "status"}
    /\ join[i].complete \subseteq Side
    /\ join[i].matched \in [Side -> SUBSET Nat]
    /\ \A side \in Side :
         /\ join[i][side] \in 0 .. Len(tuples)
         /\ join[i].matched[side] \subseteq
              1 .. (IF join[i][side] = 0 THEN 0 ELSE Len(tuples[join[i][side]]))
KernelInv == DOMAIN join = Instance /\ \A i \in Instance : Kernels(i)

(* Of every producer an instance gets tuple sets and then one COMPLETE.    *)
Open(q) == \A n \in DOMAIN q : q[n] # COMPLETE
Ends(q) == q # <<>> /\ \A n \in DOMAIN q : q[n] = COMPLETE <=> n = Len(q)
OrderInv ==
    \A i \in Instance, side \in Side :
        /\ side \notin closed => Open(mail[i][side]) /\ side \notin join[i].complete
        /\ side \in closed => IF side \in join[i].complete THEN mail[i][side] = <<>> ELSE Ends(mail[i][side])

(* Once there is something for the instances of a join, each of them got   *)
(* it, or has it in its mail, or there is something held back for it.      *)
Owed(side) == IF Splits(side) THEN given[side] # <<>> ELSE batches[side] > 0
Held(i, side) == IF Splits(side) THEN buffers[side][1].rows # <<>> ELSE buffers[side][i].some
Got(i, side) ==
    \/ join[i][side] # 0
    \/ mail[i][side] # <<>> /\ Head(mail[i][side]) # COMPLETE
FedInv ==
    \A side \in Side :
        /\ side \in closed => batches[side] > 0
        /\ \A i \in Instance :
             /\ Owed(side) => Got(i, side) \/ Held(i, side)
             /\ side \in closed => ~Held(i, side)
StatusInv ==
    \A i \in Instance :
        join[i].status = "error" => join[i].complete = Side /\ \E side \in Side : join[i][side] = 0

JoinInv == HeapInv /\ KernelInv /\ OrderInv /\ FedInv /\ StatusInv

-----------------------------------------------------------------------------
(* What a semi join finds.                                                 *)

(* The build rows a probe row finds, and what it adds to the rows found.   *)
SemiRows(build, probe, n) == {a \in DOMAIN build : build[a].key = probe[n].key}
SemiStep(build, probe, offset, F, n) ==
    IF \/ SemiRows(build, probe, n) = {}
       \/ (CHOOSE a \in SemiRows(build, probe, n) : \A b \in SemiRows(build, probe, n) : a >= b) \in F
    THEN F
    ELSE F \cup {offset + a : a \in SemiRows(build, probe, n)}

(* The loop over the L probe rows.                                         *)
SemiLoop(g, build, probe, offset, L) ==
    /\ SemiMatched(build, probe, offset) = g[L] /\ g[0] = {}
    /\ \A n \in 1 .. L : g[n] = SemiStep(build, probe, offset, g[n - 1], n)

(* The recursive function of SemiMatched has a value.                      *)
LEMMA SemiSteps ==
    ASSUME NEW build, NEW probe, NEW offset, NEW L \in Nat, L = Len(probe)
    PROVE  \E g : SemiLoop(g, build, probe, offset, L)
<1> DEFINE U == {offset + a : a \in DOMAIN build}
<1> DEFINE Step(F, n) == SemiStep(build, probe, offset, F, n)
<1> DEFINE Found(f) == f = [n \in 0 .. Len(probe) |-> IF n = 0 THEN {} ELSE Step(f[n - 1], n)]
<1>2. SemiMatched(build, probe, offset) = (CHOOSE f : Found(f))[L]
  BY Zenon DEF SemiMatched, SemiStep, SemiRows
<1>3. \A F \in SUBSET U : \A n : Step(F, n) \in SUBSET U
  BY DEF SemiStep, SemiRows
<1> HIDE DEF Step, U
<1>4. \E f : Found(f)
  <2>1. PICK V : V = SUBSET U
    OBVIOUS
  <2>2. PICK v \in V : v = {}
    BY <2>1
  <2>3. PICK step : step = [F \in V |-> [n \in 1 .. L |-> Step(F, n)]] /\ step \in [V -> [1 .. L -> V]]
    <3>1. \A F \in V : [n \in 1 .. L |-> Step(F, n)] \in [1 .. L -> V]
      BY <1>3, <2>1
    <3>2. [F \in V |-> [n \in 1 .. L |-> Step(F, n)]] \in [V -> [1 .. L -> V]]
      BY <3>1, Zenon
    <3> QED
      BY <3>2, Zenon
  <2>4. PICK f : f \in [0 .. L -> V] /\ f[0] = v /\ \A n \in 1 .. L : f[n] = step[f[n - 1]][n]
    <3>1. Iterable(step, V, L)
      BY <2>3 DEF Iterable
    <3>2. \E f : Iteration(f, v, step, V, L)
      BY <3>1, StepsExist
    <3> QED
      BY <3>2 DEF Iteration
  <2>5. \A n \in 0 .. L : f[n] = IF n = 0 THEN {} ELSE Step(f[n - 1], n)
    <3>1. \A n \in 1 .. L : n - 1 \in 0 .. L
      OBVIOUS
    <3>2. \A n \in 1 .. L : f[n] = Step(f[n - 1], n)
      BY <2>3, <2>4, <3>1
    <3> QED
      BY <2>2, <2>4, <3>2
  <2>6. f = [n \in 0 .. L |-> IF n = 0 THEN {} ELSE Step(f[n - 1], n)]
    BY <2>4, <2>5
  <2> QED
    BY <2>6
<1>5. PICK g : g = CHOOSE f : Found(f)
  OBVIOUS
<1>6. Found(g)
  BY <1>4, <1>5
<1>7. g[0] = {} /\ \A n \in 1 .. L : g[n] = Step(g[n - 1], n)
  <2>1. \A n \in 0 .. L : g[n] = IF n = 0 THEN {} ELSE Step(g[n - 1], n)
    BY <1>6, Zenon
  <2>2. 0 \in 0 .. L /\ \A n \in 1 .. L : n \in 0 .. L /\ n # 0
    OBVIOUS
  <2> QED
    BY <2>1, <2>2, Zenon
<1> QED
  BY <1>2, <1>5, <1>7 DEF Step, SemiLoop

(* The positions a semi join finds are positions of the build side, offset *)
(* as they are.                                                            *)
LEMMA SemiMatchedIn ==
    ASSUME NEW build, NEW probe, NEW offset, Len(probe) \in Nat
    PROVE  SemiMatched(build, probe, offset) \subseteq {offset + a : a \in DOMAIN build}
<1> DEFINE U == {offset + a : a \in DOMAIN build}
<1>1. PICK L \in Nat : L = Len(probe)
  OBVIOUS
<1>0. PICK g : SemiLoop(g, build, probe, offset, L)
  BY <1>1, SemiSteps
<1>2. /\ SemiMatched(build, probe, offset) = g[L] /\ g[0] = {}
      /\ \A n \in 1 .. L : g[n] = SemiStep(build, probe, offset, g[n - 1], n)
  BY <1>0 DEF SemiLoop
<1>3. \A F \in SUBSET U : \A n : SemiStep(build, probe, offset, F, n) \in SUBSET U
  BY DEF SemiStep, SemiRows
<1> HIDE DEF U
<1>4. g[0] \in SUBSET U /\ \A n \in 1 .. L : g[n - 1] \in SUBSET U => g[n] \in SUBSET U
  BY <1>2, <1>3
<1>5. \A n \in 0 .. L : g[n] \in SUBSET U
  BY <1>4, StepsKeep
<1> QED
  BY <1>2, <1>5 DEF U

-----------------------------------------------------------------------------
(* The kernels.                                                            *)

Fields == {"left", "right", "matched", "out", "complete", "status"}

(* Joining changes the output and the matched positions only: those of the *)
(* side that the tuple set is from by positions of the new rows, those of  *)
(* the other side by positions it has.                                     *)
JoinedFields(side, k, new, old, off, r) ==
    /\ DOMAIN r = Fields /\ r.left = k.left /\ r.right = k.right
    /\ r.complete = k.complete /\ r.status = k.status
    /\ r.matched \in [Side -> SUBSET Nat]
    /\ r.matched[side] \subseteq k.matched[side] \cup {off + a : a \in DOMAIN new}
    /\ r.matched[Other(side)] \subseteq k.matched[Other(side)] \cup DOMAIN old

LEMMA JoinIncomingFields ==
    ASSUME NEW side \in Side, NEW k, DOMAIN k = Fields, k.matched \in [Side -> SUBSET Nat],
           NEW new \in Seq(RowType), NEW old \in Seq(RowType),
           old = IF k[Other(side)] = 0 THEN <<>> ELSE tuples[k[Other(side)]],
           NEW off \in Nat, off = Offset(side, k, new),
           NEW r, r = JoinIncoming(side, k, new)
    PROVE  JoinedFields(side, k, new, old, off, r)
<1> SUFFICES /\ DOMAIN r = Fields /\ r.left = k.left /\ r.right = k.right
             /\ r.complete = k.complete /\ r.status = k.status
             /\ r.matched \in [Side -> SUBSET Nat]
             /\ r.matched[side] \subseteq k.matched[side] \cup {off + a : a \in DOMAIN new}
             /\ r.matched[Other(side)] \subseteq k.matched[Other(side)] \cup DOMAIN old
  BY DEF JoinedFields
<1>0. Other(side) \in Side /\ Other(side) # side /\ \A s \in Side : s = side \/ s = Other(side)
  BY DEF Side, Other
<1>1. Len(new) \in Nat /\ DOMAIN new = 1 .. Len(new) /\ Len(old) \in Nat /\ DOMAIN old = 1 .. Len(old)
  OBVIOUS
<1> DEFINE A == {off + a : a \in DOMAIN new}
<1>2. A \subseteq Nat /\ DOMAIN old \subseteq Nat
  BY <1>1
<1>3. CASE plan.kind = "semi"
  <2> DEFINE semi == IF side = "left" THEN SemiMatched(new, old, off) ELSE SemiMatched(old, new, 0)
  <2>1. r = [k EXCEPT !.matched["left"] = @ \cup semi]
    BY <1>3, Zenon DEF JoinIncoming
  <2>2. side = "left" => semi \subseteq A
    BY <1>1, SemiMatchedIn
  <2>3. side = "right" => semi \subseteq DOMAIN old
    <3>1. SemiMatched(old, new, 0) \subseteq {0 + a : a \in DOMAIN old}
      BY <1>1, SemiMatchedIn
    <3>2. {0 + a : a \in DOMAIN old} = DOMAIN old
      BY <1>1
    <3> QED
      BY <3>1, <3>2
  <2> HIDE DEF semi, A
  <2>4. /\ DOMAIN r = Fields /\ r.left = k.left /\ r.right = k.right
        /\ r.complete = k.complete /\ r.status = k.status
        /\ r.matched = [k.matched EXCEPT !["left"] = @ \cup semi]
    BY <2>1 DEF Fields
  <2>5. /\ r.matched["left"] = k.matched["left"] \cup semi /\ r.matched["right"] = k.matched["right"]
        /\ DOMAIN r.matched = Side
    BY <2>4 DEF Side
  <2>6. semi \subseteq Nat
    BY <1>2, <2>2, <2>3 DEF Side
  <2>7. r.matched \in [Side -> SUBSET Nat]
    BY <2>4, <2>6 DEF Side
  <2>8. CASE side = "left"
    BY <2>2, <2>4, <2>5, <2>7, <2>8 DEF Other, A
  <2>9. CASE side = "right"
    BY <2>3, <2>4, <2>5, <2>7, <2>9 DEF Other, A
  <2> QED
    BY <2>8, <2>9 DEF Side
<1>4. CASE plan.kind # "semi"
  <2> DEFINE found(s) == {IF s = side THEN off + x[1] ELSE x[2] : x \in IF plan[s] THEN Meets(new, old) ELSE {}}
  <2>1. PICK m : m = [s \in Side |-> k.matched[s] \cup found(s)]
    OBVIOUS
  <2>2. r = [k EXCEPT !.out = @ (+) Joined(side, new, old), !.matched = m]
    BY <1>4, <2>1, ZenonT(60) DEF JoinIncoming
  <2>3. Meets(new, old) \subseteq (DOMAIN new) \X (DOMAIN old)
    BY DEF Meets
  <2>4. found(side) \subseteq A /\ found(Other(side)) \subseteq DOMAIN old
    BY <1>0, <2>3
  <2> HIDE DEF A, found
  <2>5. /\ DOMAIN r = Fields /\ r.left = k.left /\ r.right = k.right
        /\ r.complete = k.complete /\ r.status = k.status /\ r.matched = m
    BY <2>2 DEF Fields
  <2>6. m[side] = k.matched[side] \cup found(side) /\ m[Other(side)] = k.matched[Other(side)] \cup found(Other(side))
    BY <1>0, <2>1
  <2>7. m \in [Side -> SUBSET Nat]
    BY <1>0, <1>2, <2>1, <2>4
  <2> QED
    BY <2>4, <2>5, <2>6, <2>7 DEF A
<1> QED
  BY <1>3, <1>4

-----------------------------------------------------------------------------
(* Messages.                                                               *)

(* The instances of a plan.                                                *)
LEMMA PlanFacts ==
    ASSUME plan \in Plans
    PROVE  \E N \in Nat : N >= 1 /\ plan.instances = N /\ Instance = 1 .. N
<1>1. plan \in PlanType
  BY JoinAssumption
<1>2. plan.instances \in Nat \ {0}
  BY <1>1 DEF PlanType
<1> QED
  BY <1>2 DEF Instance

(* What a step of a producer does: the heap grows, and every instance gets *)
(* numbers of objects, those in full at least one, and perhaps a COMPLETE. *)
News(i, side, full, complete) ==
    \E a \in Seq(1 .. Len(tuples')) :
        /\ mail'[i][side] = mail[i][side] \o a \o (IF complete THEN <<COMPLETE>> ELSE <<>>)
        /\ i \in full => a # <<>>
Sent(side, full, complete) ==
    /\ tuples' \in Seq(Seq(RowType)) /\ Len(tuples') >= Len(tuples)
    /\ \A p \in 1 .. Len(tuples) : tuples'[p] = tuples[p]
    /\ mail' \in [Instance -> [Side -> Seq(0 .. Len(tuples'))]]
    /\ \A i \in Instance :
         /\ \A s \in Side : s # side => mail'[i][s] = mail[i][s]
         /\ News(i, side, full, complete)

(* The numbers of the new objects.                                         *)
LEMMA Numbers ==
    ASSUME NEW N \in Nat, Instance = 1 .. N, NEW sets, NEW l \in Nat, l = Len(tuples),
           \A j \in Instance : sets[j].rows \in Seq(RowType)
    PROVE  /\ Objects(sets) \in Seq(Seq(RowType)) /\ Len(Objects(sets)) \in Nat
           /\ \A i \in Instance : sets[i].some => Number(sets, i) \in 1 .. l + Len(Objects(sets))
<1> DEFINE P == {j \in Instance : sets[j].some}
<1> DEFINE f == [j \in Instance |-> sets[j].rows]
<1>1. P \in SUBSET (1 .. N) /\ \A m \in P : f[m] \in Seq(RowType)
  OBVIOUS
<1>2. Objects(sets) = At(f, P)
  BY DEF Objects
<1>3. \A i \in Instance : {j \in 1 .. i : sets[j].some} = UpTo(P, i)
  <2> TAKE i \in Instance
  <2>1. \A j : j \in 1 .. i <=> j \in Instance /\ j <= i
    OBVIOUS
  <2> QED
    BY <2>1, Zenon DEF UpTo
<1>4. \A i \in Instance : sets[i].some => i \in P
  OBVIOUS
<1> HIDE DEF P, f
<1>5. At(f, P) \in Seq(Seq(RowType)) /\ Len(At(f, P)) = Cardinality(P)
  <2>1. Maps(f, P, Seq(RowType))
    BY <1>1, Zenon DEF Maps
  <2>2. P \in SUBSET (1 .. N) /\ N \in Nat
    BY <1>1, Zenon
  <2>3. PICK Q, g, R : Q = P /\ g = f /\ R = Seq(RowType)
    OBVIOUS
  <2>4. Maps(g, Q, R) /\ Q \in SUBSET (1 .. N)
    BY <2>1, <2>2, <2>3, Zenon
  <2>5. At(g, Q) \in Seq(R) /\ Len(At(g, Q)) = Cardinality(Q)
    BY ONLY N \in Nat, <2>4, AtType
  <2> QED
    BY <2>3, <2>5, Zenon
<1>6. Cardinality(P) \in Nat
  BY <1>1, PlacesAreFinite
<1>7. ASSUME NEW i \in Instance, sets[i].some PROVE Number(sets, i) \in 1 .. l + Cardinality(P)
  <2>1. PICK c \in Nat : c = Cardinality(UpTo(P, i)) /\ c <= Cardinality(P) /\ c >= 1
    <3>1. i \in Int /\ i \in P
      BY <1>4, <1>7
    <3> QED
      BY <1>1, <3>1, UpToIsFinite
  <2>2. Number(sets, i) = l + c
    BY <1>3, <2>1 DEF Number
  <2> QED
    BY <1>6, <2>1, <2>2
<1> QED
  BY <1>2, <1>5, <1>6, <1>7

LEMMA Delivered ==
    ASSUME HeapInv, NEW side \in Side, NEW sets, NEW complete,
           \A j \in Instance : sets[j].rows \in Seq(RowType),
           Deliver(side, sets, complete)
    PROVE  Sent(side, {j \in Instance : sets[j].some}, complete)
<1>1. PICK N \in Nat : N >= 1 /\ Instance = 1 .. N
  BY PlanFacts DEF HeapInv
<1>2. PICK l \in Nat : l = Len(tuples)
  BY DEF HeapInv
<1>3. PICK k \in Nat : k = Len(Objects(sets))
  BY <1>1, <1>2, Numbers
<1>4. /\ Objects(sets) \in Seq(Seq(RowType))
      /\ \A i \in Instance : sets[i].some => Number(sets, i) \in 1 .. l + k
  BY <1>1, <1>2, <1>3, Numbers
<1>5. tuples \in Seq(Seq(RowType)) /\ tuples' = tuples \o Objects(sets)
  BY DEF HeapInv, Deliver
<1>6. tuples' \in Seq(Seq(RowType)) /\ Len(tuples') = l + k
  BY <1>2, <1>3, <1>4, <1>5
<1>7. \A p \in 1 .. l : tuples'[p] = tuples[p]
  BY <1>2, <1>4, <1>5
<1> DEFINE a(i) == IF sets[i].some THEN <<Number(sets, i)>> ELSE <<>>
<1> DEFINE c == IF complete THEN <<COMPLETE>> ELSE <<>>
<1>8. mail' = [i \in Instance |-> [mail[i] EXCEPT ![side] = @ \o a(i) \o c]]
  BY Zenon DEF Deliver
<1>9. /\ \A i \in Instance : IF sets[i].some THEN a(i) = <<Number(sets, i)>> ELSE a(i) = <<>>
      /\ IF complete THEN c = <<COMPLETE>> ELSE c = <<>>
  BY DEF COMPLETE
<1> HIDE DEF a, c
<1>10. /\ \A i \in Instance : a(i) \in Seq(1 .. l + k) /\ (sets[i].some => a(i) # <<>>)
       /\ c \in Seq({0})
  <2>1. \A x \in 1 .. l + k : <<x>> \in Seq(1 .. l + k) /\ <<x>> # <<>>
    OBVIOUS
  <2>2. <<>> \in Seq(1 .. l + k) /\ <<>> \in Seq({0}) /\ <<COMPLETE>> \in Seq({0})
    BY DEF COMPLETE
  <2> QED
    BY <1>4, <1>9, <2>1, <2>2, Zenon
<1>11. ASSUME NEW i \in Instance
       PROVE  /\ mail'[i] \in [Side -> Seq(0 .. l + k)]
              /\ mail'[i][side] = mail[i][side] \o a(i) \o c
              /\ \A s \in Side : s # side => mail'[i][s] = mail[i][s]
  <2>1. mail[i] \in [Side -> Seq(0 .. l)] /\ mail'[i] = [mail[i] EXCEPT ![side] = @ \o a(i) \o c]
    BY <1>2, <1>8 DEF HeapInv
  <2>2. mail[i] \in [Side -> Seq(0 .. l + k)]
    <3>1. 0 .. l \subseteq 0 .. l + k
      OBVIOUS
    <3>2. Seq(0 .. l) \subseteq Seq(0 .. l + k)
      BY <3>1
    <3> QED
      BY <2>1, <3>2
  <2>3. a(i) \in Seq(0 .. l + k) /\ c \in Seq(0 .. l + k)
    BY <1>10
  <2>4. mail[i][side] \in Seq(0 .. l + k)
    BY <2>2
  <2>5. mail[i][side] \o a(i) \o c \in Seq(0 .. l + k)
    BY <2>3, <2>4
  <2> QED
    BY <2>1, <2>2, <2>5
<1>12. mail' \in [Instance -> [Side -> Seq(0 .. l + k)]]
  BY <1>8, <1>11
<1>13. \A i \in Instance : News(i, side, {j \in Instance : sets[j].some}, complete)
  BY <1>6, <1>10, <1>11 DEF News, c
<1>14. Len(tuples') >= Len(tuples) /\ 1 .. Len(tuples) = 1 .. l /\ 0 .. Len(tuples') = 0 .. l + k
  BY <1>2, <1>6
<1> QED
  BY <1>6, <1>7, <1>11, <1>12, <1>13, <1>14, Zenon DEF Sent

LEMMA Told ==
    ASSUME HeapInv, NEW side \in Side, NEW rows \in Seq(RowType), Tell(side, rows)
    PROVE  Sent(side, Instance, FALSE)
<1>2. PICK l \in Nat : l = Len(tuples)
  BY DEF HeapInv
<1>5. tuples \in Seq(Seq(RowType)) /\ tuples' = Append(tuples, rows)
  BY DEF HeapInv, Tell
<1>6. tuples' \in Seq(Seq(RowType)) /\ Len(tuples') = l + 1
  BY <1>2, <1>5
<1>7. \A p \in 1 .. l : tuples'[p] = tuples[p]
  BY <1>2, <1>5
<1>8. mail' = [i \in Instance |-> [mail[i] EXCEPT ![side] = Append(@, l + 1)]]
  BY <1>2 DEF Tell
<1>11. ASSUME NEW i \in Instance
       PROVE  /\ mail'[i] \in [Side -> Seq(0 .. l + 1)]
              /\ mail'[i][side] = mail[i][side] \o <<l + 1>> \o <<>>
              /\ \A s \in Side : s # side => mail'[i][s] = mail[i][s]
  <2>1. mail[i] \in [Side -> Seq(0 .. l)] /\ mail'[i] = [mail[i] EXCEPT ![side] = Append(@, l + 1)]
    BY <1>2, <1>8 DEF HeapInv
  <2>2. mail[i] \in [Side -> Seq(0 .. l + 1)]
    <3>1. 0 .. l \subseteq 0 .. l + 1
      OBVIOUS
    <3>2. Seq(0 .. l) \subseteq Seq(0 .. l + 1)
      BY <3>1
    <3> QED
      BY <2>1, <3>2
  <2>3. PICK q \in Seq(0 .. l + 1) : q = mail[i][side]
    BY <2>2
  <2>4. Append(q, l + 1) \in Seq(0 .. l + 1) /\ Append(q, l + 1) = q \o <<l + 1>> \o <<>>
    <3>1. l + 1 \in 0 .. l + 1
      OBVIOUS
    <3>2. PICK S, e : S = 0 .. l + 1 /\ e = l + 1 /\ e \in S
      BY <3>1
    <3>3. ASSUME NEW x \in Seq(S)
          PROVE  Append(x, e) \in Seq(S) /\ Append(x, e) = x \o <<e>> /\ x \o <<e>> \o <<>> = x \o <<e>>
      <4>1. Append(x, e) \in Seq(S) /\ Append(x, e) = x \o <<e>>
        BY ONLY <3>2, x \in Seq(S)
      <4>2. x \o <<e>> \in Seq(S)
        BY <4>1, Zenon
      <4>3. \A y \in Seq(S) : y \o <<>> = y
        BY ONLY TRUE
      <4> QED
        BY <4>1, <4>2, <4>3, Zenon
    <3> QED
      BY <3>2, <3>3, Zenon
  <2> QED
    BY <2>1, <2>2, <2>3, <2>4
<1>12. mail' \in [Instance -> [Side -> Seq(0 .. l + 1)]]
  BY <1>8, <1>11
<1>13. ASSUME NEW i \in Instance PROVE News(i, side, Instance, FALSE)
  <2>1. <<l + 1>> \in Seq(1 .. l + 1) /\ <<l + 1>> # <<>>
    OBVIOUS
  <2> QED
    BY <1>6, <1>11, <2>1 DEF News
<1>14. Len(tuples') >= Len(tuples) /\ 1 .. Len(tuples) = 1 .. l /\ 0 .. Len(tuples') = 0 .. l + 1
  BY <1>2, <1>6
<1> QED
  BY <1>6, <1>7, <1>11, <1>12, <1>13, <1>14, Zenon DEF Sent

(* More mail: what was open stays open, or is ended by the COMPLETE, and   *)
(* begins with a tuple set if it or what is added does.                    *)
Begins(q) == q # <<>> /\ Head(q) # COMPLETE

LEMMA MoreMail ==
    ASSUME NEW q \in Seq(Nat), NEW a \in Seq(Nat \ {0}), NEW c \in Seq(Nat), Open(q),
           c = <<>> \/ c = <<COMPLETE>>
    PROVE  /\ c = <<>> => Open(q \o a \o c)
           /\ c = <<COMPLETE>> => Ends(q \o a \o c)
           /\ Begins(q) \/ a # <<>> => Begins(q \o a \o c)
<1> DEFINE s == q \o a \o c
<1>1. PICK l \in Nat, m \in Nat, k \in Nat : l = Len(q) /\ m = Len(a) /\ k = Len(c)
  OBVIOUS
<1>2. DOMAIN q = 1 .. l /\ DOMAIN a = 1 .. m /\ DOMAIN c = 1 .. k
  BY <1>1
<1>3. /\ s \in Seq(Nat) /\ Len(s) = l + m + k /\ DOMAIN s = 1 .. l + m + k
      /\ \A n \in 1 .. l + m + k : s[n] = IF n <= l THEN q[n] ELSE IF n <= l + m THEN a[n - l] ELSE c[n - l - m]
  <2>1. q \o a \in Seq(Nat) /\ Len(q \o a) = l + m
    BY <1>1
  <2>2. \A n \in 1 .. l + m : (q \o a)[n] = IF n <= l THEN q[n] ELSE a[n - l]
    BY <1>1
  <2>3. s \in Seq(Nat) /\ Len(s) = l + m + k
    BY <1>1, <2>1
  <2>4. \A n \in 1 .. l + m + k : s[n] = IF n <= l + m THEN (q \o a)[n] ELSE c[n - (l + m)]
    BY <1>1, <2>1
  <2> HIDE DEF s
  <2>5. \A n \in 1 .. l + m + k : s[n] = IF n <= l THEN q[n] ELSE IF n <= l + m THEN a[n - l] ELSE c[n - l - m]
    <3> TAKE n \in 1 .. l + m + k
    <3>1. CASE n <= l + m
      <4>1. n \in 1 .. l + m
        BY <3>1
      <4> QED
        BY <2>2, <2>4, <3>1, <4>1
    <3>2. CASE ~(n <= l + m)
      <4>1. n - (l + m) = n - l - m /\ ~(n <= l)
        BY <3>2
      <4> QED
        BY <2>4, <3>2, <4>1
    <3> QED
      BY <3>1, <3>2
  <2> QED
    BY <2>3, <2>5
<1> HIDE DEF s
<1>4. \A n \in 1 .. l : q[n] # 0
  BY <1>2 DEF Open, COMPLETE
<1>5. \A n \in 1 .. m : a[n] # 0
  BY <1>1, <1>2
<1>6. \A n \in 1 .. l + m : s[n] # 0
  <2> TAKE n \in 1 .. l + m
  <2>1. n \in 1 .. l + m + k
    OBVIOUS
  <2>2. CASE n <= l
    <3>1. n \in 1 .. l
      BY <2>2
    <3>2. s[n] = q[n]
      BY <1>3, <2>1, <2>2, Zenon
    <3> QED
      BY <1>4, <3>1, <3>2, Zenon
  <2>3. CASE ~(n <= l)
    <3>1. n - l \in 1 .. m /\ n <= l + m
      BY <2>3
    <3>2. s[n] = a[n - l]
      BY <1>3, <2>1, <2>3, <3>1
    <3> QED
      BY <1>5, <3>1, <3>2
  <2> QED
    BY <2>2, <2>3
<1>7. ASSUME c = <<>> PROVE Open(s)
  <2>1. k = 0
    BY <1>1, <1>7
  <2> QED
    BY <1>3, <1>6, <2>1 DEF Open, COMPLETE
<1>8. ASSUME c = <<COMPLETE>> PROVE Ends(s)
  <2>1. k = 1 /\ c[1] = 0
    BY <1>1, <1>8 DEF COMPLETE
  <2>2. s[l + m + 1] = 0
    <3>1. PICK n \in 1 .. l + m + k : n = l + m + 1
      BY <2>1
    <3>2. ~(n <= l) /\ ~(n <= l + m) /\ n - l - m = 1
      BY <3>1
    <3>3. s[n] = c[n - l - m]
      BY <1>3, <3>2
    <3> QED
      BY <2>1, <3>1, <3>2, <3>3
  <2>3. \A n \in DOMAIN s : s[n] = 0 <=> n = Len(s)
    BY <1>3, <1>6, <2>1, <2>2
  <2>4. s # <<>>
    BY <1>3, <2>1
  <2> QED
    BY <2>3, <2>4 DEF Ends, COMPLETE
<1>9. ASSUME Begins(q) \/ a # <<>> PROVE Begins(s)
  <2>1. l + m >= 1
    BY <1>1, <1>9 DEF Begins
  <2>2. s # <<>> /\ Head(s) = s[1]
    BY <1>3, <2>1
  <2> QED
    BY <1>6, <2>1, <2>2 DEF Begins, COMPLETE
<1> QED
  BY <1>7, <1>8, <1>9 DEF s

(* A step of a producer keeps what is known of the kernels and of the      *)
(* order of the mail.                                                      *)
LEMMA SentKernels ==
    ASSUME HeapInv, KernelInv, NEW side, NEW full, NEW complete,
           Sent(side, full, complete), UNCHANGED <<plan, join>>
    PROVE  KernelInv'
<1>0. Instance' = Instance
  BY DEF Instance
<1>1. PICK l \in Nat, m \in Nat : l = Len(tuples) /\ m = Len(tuples') /\ l <= m
  BY DEF HeapInv, Sent
<1>2. \A p \in 1 .. l : tuples'[p] = tuples[p]
  BY <1>1 DEF Sent
<1>3. ASSUME NEW i \in Instance PROVE Kernels(i)'
  <2>1. Kernels(i)
    BY DEF KernelInv
  <2>2. \A s \in Side : join'[i][s] \in 0 .. m
    BY <1>1, <2>1 DEF Kernels
  <2>3. ASSUME NEW s \in Side
        PROVE  (IF join[i][s] = 0 THEN 0 ELSE Len(tuples[join[i][s]]))
                 = (IF join'[i][s] = 0 THEN 0 ELSE Len(tuples'[join'[i][s]]))
    <3>1. join[i][s] # 0 => join[i][s] \in 1 .. l
      BY <1>1, <2>1 DEF Kernels
    <3> QED
      BY <1>2, <3>1
  <2> QED
    BY <1>1, <2>1, <2>2, <2>3 DEF Kernels
<1> QED
  BY <1>0, <1>3 DEF KernelInv

LEMMA SentOrder ==
    ASSUME HeapInv, OrderInv, NEW side \in Side, NEW full, NEW complete \in BOOLEAN,
           Sent(side, full, complete), UNCHANGED <<plan, join>>,
           side \notin closed, closed' = IF complete THEN closed \cup {side} ELSE closed
    PROVE  /\ OrderInv'
           /\ \A i \in Instance :
                /\ \A s \in Side : Got(i, s) => Got(i, s)'
                /\ i \in full => Got(i, side)'
<1>0. Instance' = Instance
  BY DEF Instance
<1>1. ASSUME NEW i \in Instance
      PROVE  /\ complete => Ends(mail'[i][side])
             /\ ~complete => Open(mail'[i][side])
             /\ Begins(mail[i][side]) \/ i \in full => Begins(mail'[i][side])
             /\ side \notin join[i].complete
  <2>1. Open(mail[i][side]) /\ side \notin join[i].complete
    BY DEF OrderInv
  <2>2. PICK a \in Seq(1 .. Len(tuples')) :
          /\ mail'[i][side] = mail[i][side] \o a \o (IF complete THEN <<COMPLETE>> ELSE <<>>)
          /\ i \in full => a # <<>>
    BY DEF Sent, News
  <2>3. PICK q \in Seq(Nat) : q = mail[i][side]
    BY DEF HeapInv
  <2>4. a \in Seq(Nat \ {0})
    <3>1. 1 .. Len(tuples') \subseteq Nat \ {0}
      BY DEF Sent
    <3> QED
      BY <2>2, <3>1
  <2>5. PICK c \in Seq(Nat) : (complete => c = <<COMPLETE>>) /\ (~complete => c = <<>>)
    <3>1. <<COMPLETE>> \in Seq(Nat) /\ <<>> \in Seq(Nat)
      BY DEF COMPLETE
    <3> QED
      BY <3>1, Zenon
  <2>6. mail'[i][side] = q \o a \o c
    BY <2>2, <2>3, <2>5 DEF COMPLETE
  <2>7. Open(q) /\ (c = <<>> \/ c = <<COMPLETE>>)
    BY <2>1, <2>3, <2>5
  <2>8. /\ c = <<>> => Open(q \o a \o c)
        /\ c = <<COMPLETE>> => Ends(q \o a \o c)
        /\ Begins(q) \/ a # <<>> => Begins(q \o a \o c)
    BY <2>4, <2>7, MoreMail
  <2> QED
    BY <2>1, <2>2, <2>3, <2>5, <2>6, <2>8
<1>2. \A i \in Instance : \A s \in Side : s # side => mail'[i][s] = mail[i][s]
  BY DEF Sent
<1>3. ASSUME NEW i \in Instance, NEW s \in Side
      PROVE  /\ s \notin closed' => Open(mail'[i][s]) /\ s \notin join'[i].complete
             /\ s \in closed' => IF s \in join'[i].complete THEN mail'[i][s] = <<>> ELSE Ends(mail'[i][s])
  <2>1. CASE s = side
    BY <1>1, <2>1
  <2>2. CASE s # side
    BY <1>2, <2>2 DEF OrderInv
  <2> QED
    BY <2>1, <2>2
<1>4. OrderInv'
  BY <1>0, <1>3 DEF OrderInv
<1>5. ASSUME NEW i \in Instance, NEW s \in Side, Got(i, s) PROVE Got(i, s)'
  <2>1. CASE s = side
    BY <1>1, <1>5, <2>1 DEF Got, Begins
  <2>2. CASE s # side
    BY <1>2, <1>5, <2>2 DEF Got
  <2> QED
    BY <2>1, <2>2
<1>6. ASSUME NEW i \in Instance, i \in full PROVE Got(i, side)'
  BY <1>1, <1>6 DEF Got, Begins
<1> QED
  BY <1>4, <1>5, <1>6

-----------------------------------------------------------------------------
(* The steps of the producers.                                             *)

LEMMA BufferFacts ==
    /\ None \in Buffer /\ ~None.some /\ None.rows = <<>>
    /\ \A rows \in Seq(RowType) : Some(rows) \in Buffer /\ Some(rows).some /\ Some(rows).rows = rows
<1>1. <<>> \in Seq(RowType)
  OBVIOUS
<1> HIDE DEF RowType
<1> QED
  BY <1>1 DEF None, Some, Buffer

(* The parts of a split are sequences of rows.                             *)
LEMMA SplitParts ==
    ASSUME NEW N \in Nat, N >= 1, plan.instances = N, Instance = 1 .. N, NEW rows \in Seq(RowType)
    PROVE  \A i \in Instance : SplitArray(rows)[i].rows \in Seq(RowType) /\ SplitArray(rows)[i].some
<1>1. PICK l \in Nat : l = Len(rows)
  OBVIOUS
<1>2. PICK size \in Int : size = l \div N
  OBVIOUS
<1>3. size >= 0 /\ N * size <= l
  BY <1>2
<1>4. ASSUME NEW i \in Instance
      PROVE  \E a \in Nat, b \in Nat :
               /\ a >= 1 /\ b <= l /\ a <= b + 1
               /\ SplitArray(rows)[i] = Some(SubSeq(rows, a, b))
  <2>1. i \in Nat /\ 1 <= i /\ i <= N
    OBVIOUS
  <2>2. i * size \in Int /\ (i - 1) * size \in Int /\ (i - 1) * size = i * size - size
    BY <2>1
  <2>3. i * size <= N * size /\ (i - 1) * size >= 0
    BY <1>3, <2>1
  <2>4. PICK b \in Int : b = IF i < N THEN i * size ELSE l
    BY <2>2
  <2>5. PICK a \in Int : a = (i - 1) * size + 1
    BY <2>2
  <2>6. a \in Nat /\ b \in Nat /\ a >= 1 /\ b <= l /\ a <= b + 1
    BY <1>3, <2>2, <2>3, <2>4, <2>5
  <2>7. SplitArray(rows)[i] = Some(SubSeq(rows, a, b))
    BY <1>1, <1>2, <2>4, <2>5 DEF SplitArray
  <2> QED
    BY <2>6, <2>7
<1>5. ASSUME NEW i \in Instance
      PROVE  SplitArray(rows)[i].rows \in Seq(RowType) /\ SplitArray(rows)[i].some
  <2>1. PICK a \in Nat, b \in Nat :
               /\ a >= 1 /\ b <= l /\ a <= b + 1
               /\ SplitArray(rows)[i] = Some(SubSeq(rows, a, b))
    BY <1>4
  <2>2. a \in 1 .. Len(rows) + 1 /\ b \in a - 1 .. Len(rows)
    BY <1>1, <2>1
  <2>3. SubSeq(rows, a, b) \in Seq(RowType)
    BY <2>2, SubSeqProperties
  <2> QED
    BY <2>1, <2>3, BufferFacts
<1> QED
  BY <1>5

(* The rows of a tuple set that lead to an instance.                       *)
LEMMA ShuffledRows ==
    ASSUME NEW rows \in Seq(RowType), NEW i PROVE Shuffled(rows, i) \in Seq(RowType)
<1>1. PICK N \in Nat : N = Len(rows)
  OBVIOUS
<1>2. PICK P : P = {n \in DOMAIN rows : slot[rows[n].key] = i}
  OBVIOUS
<1>3. P \in SUBSET (1 .. N)
  BY <1>1, <1>2
<1>4. Maps(rows, P, RowType)
  <2> HIDE DEF RowType
  <2> QED
    BY <1>2 DEF Maps
<1>5. At(rows, P) \in Seq(RowType)
  BY <1>3, <1>4, AtType
<1> QED
  BY <1>2, <1>5 DEF Shuffled

LEMMA BufferedRows ==
    ASSUME NEW b \in Buffer, NEW rows \in Seq(RowType)
    PROVE  /\ Buffered(b, rows) \in Buffer /\ Buffered(b, rows).some
           /\ Buffered(b, rows).rows = b.rows \o rows
           /\ Buffered(b, rows).rows \in Seq(RowType)
<1>1. b.rows \in Seq(RowType)
  BY DEF Buffer
<1>2. b.rows \o rows \in Seq(RowType)
  BY <1>1
<1> QED
  BY <1>2, BufferFacts DEF Buffered

(* What a step of the producer of one side leaves alone.                   *)
LEMMA FedOther ==
    ASSUME FedInv, UNCHANGED plan, NEW side \in Side,
           \A s \in Side : s # side =>
              /\ given'[s] = given[s] /\ batches'[s] = batches[s] /\ buffers'[s] = buffers[s]
              /\ s \in closed' <=> s \in closed,
           \A i \in Instance : \A s \in Side : Got(i, s) => Got(i, s)',
           side \in closed' => batches'[side] > 0,
           \A i \in Instance : Owed(side)' => Got(i, side)' \/ Held(i, side)',
           \A i \in Instance : side \in closed' => ~Held(i, side)'
    PROVE  FedInv'
<1>0. Instance' = Instance /\ \A s : Splits(s)' <=> Splits(s)
  BY DEF Instance, Splits
<1>1. ASSUME NEW s \in Side
      PROVE  /\ s \in closed' => batches'[s] > 0
             /\ \A i \in Instance :
                  /\ Owed(s)' => Got(i, s)' \/ Held(i, s)'
                  /\ s \in closed' => ~Held(i, s)'
  <2>1. CASE s = side
    BY <2>1
  <2>2. CASE s # side
    <3>1. /\ (Owed(s)' <=> Owed(s)) /\ \A i \in Instance : Held(i, s)' <=> Held(i, s)
      BY <1>0, <2>2 DEF Owed, Held
    <3> QED
      BY <2>2, <3>1 DEF FedInv
  <2> QED
    BY <2>1, <2>2
<1> QED
  BY <1>0, <1>1 DEF FedInv

(* A producer sends a tuple set.                                           *)
LEMMA ProduceStep ==
    ASSUME JoinInv, NEW side \in Side, NEW keys \in Batch, Produce(side, keys)
    PROVE  JoinInv'
<1> USE DEF JoinInv
<1>0. /\ side \notin closed /\ UNCHANGED <<plan, slot, closed, join>>
      /\ batches' = [batches EXCEPT ![side] = @ + 1]
      /\ given' = [given EXCEPT ![side] = @ \o keys]
  BY DEF Produce
<1>1. PICK N \in Nat : N >= 1 /\ plan.instances = N /\ Instance = 1 .. N
  BY PlanFacts DEF HeapInv
<1>2. Instance' = Instance /\ \A s : Splits(s)' <=> Splits(s)
  BY <1>0 DEF Instance, Splits
<1>3. keys \in Seq(Key)
  <2>1. PICK n \in 0 .. MaxBatch : keys \in [1 .. n -> Key]
    BY DEF Batch
  <2>2. n \in Nat
    BY JoinAssumption
  <2> QED
    BY <2>1, <2>2
<1> DEFINE rows == [n \in DOMAIN keys |-> [key |-> keys[n], id |-> Len(given[side]) + n]]
<1>4. rows \in Seq(RowType) /\ (rows = <<>> <=> keys = <<>>)
  <2>1. PICK n \in Nat : DOMAIN keys = 1 .. n /\ n = Len(keys)
    BY <1>3
  <2>2. PICK g \in Nat : g = Len(given[side])
    BY DEF HeapInv
  <2>3. rows \in [1 .. n -> RowType]
    BY <1>3, <2>1, <2>2 DEF RowType
  <2>4. rows \in Seq(RowType) /\ Len(rows) = n
    BY <2>3
  <2> HIDE DEF rows
  <2> QED
    BY <1>3, <2>1, <2>4
<1>5. /\ given' \in [Side -> Seq(Key)] /\ batches' \in [Side -> Nat]
      /\ given'[side] = given[side] \o keys /\ batches'[side] > 0
      /\ \A s \in Side : s # side => given'[s] = given[s] /\ batches'[s] = batches[s]
  BY <1>0, <1>3 DEF HeapInv
<1>6. buffers \in [Side -> [Instance -> Buffer]] /\ buffers[side] \in [Instance -> Buffer]
  BY DEF HeapInv
<1>7. StatusInv'
  BY <1>0, <1>2 DEF StatusInv
<1> HIDE DEF rows
<1>8. ASSUME NEW full, Sent(side, full, FALSE), buffers' \in [Side -> [Instance -> Buffer]],
             \A s \in Side : s # side => buffers'[s] = buffers[s],
             \A i \in Instance : i \in full \/ Held(i, side)'
      PROVE  JoinInv'
  <2>1. HeapInv'
    BY <1>0, <1>2, <1>5, <1>8 DEF HeapInv, Sent
  <2>2. KernelInv'
    BY <1>0, <1>8, SentKernels
  <2>3. /\ OrderInv'
        /\ \A i \in Instance :
             /\ \A s \in Side : Got(i, s) => Got(i, s)'
             /\ i \in full => Got(i, side)'
    BY <1>0, <1>8, SentOrder
  <2>4. FedInv'
    <3>1. \A s \in Side : s # side =>
              /\ given'[s] = given[s] /\ batches'[s] = batches[s] /\ buffers'[s] = buffers[s]
              /\ s \in closed' <=> s \in closed
      BY <1>0, <1>5, <1>8
    <3>2. side \notin closed'
      BY <1>0
    <3> QED
      BY <1>0, <1>8, <2>3, <3>1, <3>2, FedOther
  <2> QED
    BY <1>7, <2>1, <2>2, <2>3, <2>4
<1>9. CASE Shuffles /\ Shuffle(side, rows)
  <2> DEFINE all == [i \in Instance |-> Buffered(buffers[side][i], Shuffled(rows, i))]
  <2> DEFINE full == {i \in Instance : Len(all[i].rows) >= BufferSize}
  <2> DEFINE sets == [i \in Instance |-> IF i \in full THEN all[i] ELSE None]
  <2> DEFINE rest == [i \in Instance |-> IF i \in full THEN None ELSE all[i]]
  <2>1. buffers' = [buffers EXCEPT ![side] = rest] /\ Deliver(side, sets, FALSE)
    BY <1>9 DEF Shuffle
  <2>2. \A i \in Instance : all[i] \in Buffer /\ all[i].some
    BY <1>4, <1>6, ShuffledRows, BufferedRows
  <2> HIDE DEF all
  <2>3. \A i \in Instance :
          /\ sets[i] \in Buffer /\ rest[i] \in Buffer
          /\ i \in full => sets[i].some
          /\ i \notin full => rest[i].some
    BY <2>2, BufferFacts
  <2>4. rest \in [Instance -> Buffer] /\ \A i \in Instance : sets[i].rows \in Seq(RowType)
    BY <2>3 DEF Buffer
  <2> HIDE DEF full, sets, rest
  <2>5. Sent(side, {j \in Instance : sets[j].some}, FALSE)
    BY <2>1, <2>4, Delivered
  <2>6. /\ buffers' \in [Side -> [Instance -> Buffer]] /\ buffers'[side] = rest
        /\ \A s \in Side : s # side => buffers'[s] = buffers[s]
    BY <1>6, <2>1, <2>4
  <2>7. ~Splits(side)'
    BY <1>2, <1>9 DEF Splits, Shuffles
  <2>8. \A i \in Instance : i \in {j \in Instance : sets[j].some} \/ Held(i, side)'
    BY <2>3, <2>6, <2>7 DEF Held
  <2> QED
    BY <1>8, <2>5, <2>6, <2>8
<1>10. CASE Splits(side) /\ Split(side, rows)
  <2> DEFINE all == Buffered(buffers[side][1], rows)
  <2>1. all \in Buffer /\ all.rows = buffers[side][1].rows \o rows /\ all.rows \in Seq(RowType) /\ 1 \in Instance
        /\ buffers[side][1].rows \in Seq(RowType)
    <3>1. 1 \in Instance
      BY <1>1
    <3>2. PICK b \in Buffer : b = buffers[side][1]
      BY <1>6, <3>1
    <3>3. b.rows \in Seq(RowType)
      BY DEF Buffer
    <3>4. Buffered(b, rows) \in Buffer /\ Buffered(b, rows).rows = b.rows \o rows /\ Buffered(b, rows).rows \in Seq(RowType)
      BY <1>4, BufferedRows
    <3> QED
      BY <3>1, <3>2, <3>3, <3>4, Zenon
  <2> HIDE DEF all
  <2>2. CASE rows = <<>>
    <3>1. UNCHANGED <<buffers, tuples, mail>>
      BY <1>10, <2>2 DEF Split
    <3>2. given' = given
      <4>1. given[side] \o <<>> = given[side]
        BY DEF HeapInv
      <4> QED
        BY <1>0, <1>4, <2>2, <4>1 DEF HeapInv
    <3>3. HeapInv'
      BY <1>0, <1>2, <1>5, <3>1 DEF HeapInv
    <3>4. KernelInv' /\ OrderInv'
      BY <1>0, <1>2, <3>1 DEF KernelInv, Kernels, OrderInv
    <3>5. FedInv'
      <4>1. \A s \in Side : s # side =>
              /\ given'[s] = given[s] /\ batches'[s] = batches[s] /\ buffers'[s] = buffers[s]
              /\ s \in closed' <=> s \in closed
        BY <1>0, <1>5, <3>1
      <4>2. \A i \in Instance : \A s \in Side : Got(i, s)' <=> Got(i, s)
        BY <1>0, <3>1 DEF Got
      <4>3. side \notin closed'
        BY <1>0
      <4>4. \A i \in Instance : (Held(i, side)' <=> Held(i, side)) /\ (Owed(side)' <=> Owed(side))
        BY <1>2, <1>10, <3>1, <3>2 DEF Held, Owed
      <4>5. \A i \in Instance : Owed(side)' => Got(i, side)' \/ Held(i, side)'
        BY <4>2, <4>4 DEF FedInv
      <4> QED
        BY <1>0, <4>1, <4>2, <4>3, <4>5, FedOther
    <3> QED
      BY <1>7, <3>3, <3>4, <3>5
  <2>3. CASE rows # <<>> /\ Len(all.rows) >= BufferSize * plan.instances
    <3>1. buffers' = [buffers EXCEPT ![side][1] = None] /\ Deliver(side, SplitArray(all.rows), FALSE)
      BY <1>10, <2>3 DEF Split, all
    <3>2. \A i \in Instance : SplitArray(all.rows)[i].rows \in Seq(RowType) /\ SplitArray(all.rows)[i].some
      BY <1>1, <2>1, SplitParts
    <3>3. Sent(side, {j \in Instance : SplitArray(all.rows)[j].some}, FALSE)
      BY <3>1, <3>2, Delivered
    <3>4. /\ buffers' \in [Side -> [Instance -> Buffer]]
          /\ \A s \in Side : s # side => buffers'[s] = buffers[s]
      BY <1>6, <2>1, <3>1, BufferFacts
    <3> QED
      BY <1>8, <3>2, <3>3, <3>4
  <2>4. CASE rows # <<>> /\ ~(Len(all.rows) >= BufferSize * plan.instances)
    <3>1. buffers' = [buffers EXCEPT ![side][1] = all] /\ UNCHANGED <<tuples, mail>>
      BY <1>10, <2>4 DEF Split, all
    <3>2. /\ buffers' \in [Side -> [Instance -> Buffer]] /\ buffers'[side][1] = all
          /\ \A s \in Side : s # side => buffers'[s] = buffers[s]
      BY <1>6, <2>1, <3>1
    <3>3. all.rows # <<>>
      BY <1>4, <2>1, <2>4
    <3>4. \A i \in Instance : Held(i, side)'
      BY <1>2, <1>10, <3>2, <3>3 DEF Held
    <3>5. Sent(side, {}, FALSE)
      <4>1. tuples \in Seq(Seq(RowType)) /\ Len(tuples) >= Len(tuples)
        BY DEF HeapInv
      <4>2. ASSUME NEW i \in Instance PROVE News(i, side, {}, FALSE)
        <5>1. mail[i][side] \o <<>> \o <<>> = mail[i][side]
          BY DEF HeapInv
        <5>2. <<>> \in Seq(1 .. Len(tuples'))
          OBVIOUS
        <5> QED
          BY <3>1, <5>1, <5>2 DEF News
      <4> QED
        BY <3>1, <4>1, <4>2 DEF Sent, HeapInv
    <3> QED
      BY <1>8, <3>2, <3>4, <3>5
  <2> QED
    BY <2>2, <2>3, <2>4
<1>11. CASE ~Shuffles /\ ~Splits(side) /\ Tell(side, rows) /\ UNCHANGED buffers
  <2>1. Sent(side, Instance, FALSE)
    BY <1>4, <1>11, Told
  <2> QED
    BY <1>6, <1>8, <1>11, <2>1
<1> QED
  BY <1>9, <1>10, <1>11 DEF Produce, rows

(* A producer is complete.                                                 *)
LEMMA CloseStep ==
    ASSUME JoinInv, NEW side \in Side, Close(side)
    PROVE  JoinInv'
<1> USE DEF JoinInv
<1> DEFINE sets == IF Splits(side) /\ buffers[side][1].rows # <<>>
                   THEN SplitArray(buffers[side][1].rows) ELSE buffers[side]
<1>0. /\ side \notin closed /\ batches[side] > 0 /\ UNCHANGED <<plan, slot, given, batches, join>>
      /\ closed' = closed \cup {side}
      /\ buffers' = [buffers EXCEPT ![side] = [i \in Instance |-> None]]
      /\ Deliver(side, sets, TRUE)
  BY DEF Close
<1>1. PICK N \in Nat : N >= 1 /\ plan.instances = N /\ Instance = 1 .. N
  BY PlanFacts DEF HeapInv
<1>2. Instance' = Instance /\ \A s : Splits(s)' <=> Splits(s)
  BY <1>0 DEF Instance, Splits
<1>3. buffers \in [Side -> [Instance -> Buffer]] /\ buffers[side] \in [Instance -> Buffer] /\ 1 \in Instance
  BY <1>1 DEF HeapInv
<1>4. /\ \A i \in Instance : sets[i].rows \in Seq(RowType)
      /\ \A i \in Instance : Held(i, side) => sets[i].some
  <2>1. CASE Splits(side) /\ buffers[side][1].rows # <<>>
    <3>1. sets = SplitArray(buffers[side][1].rows)
      BY <2>1
    <3>2. buffers[side][1].rows \in Seq(RowType)
      BY <1>3 DEF Buffer
    <3> QED
      BY <1>1, <3>1, <3>2, SplitParts
  <2>2. CASE ~(Splits(side) /\ buffers[side][1].rows # <<>>)
    <3>1. sets = buffers[side]
      BY <2>2
    <3>2. \A i \in Instance : buffers[side][i].rows \in Seq(RowType)
      BY <1>3 DEF Buffer
    <3> HIDE DEF sets
    <3>3. \A i \in Instance : Held(i, side) => buffers[side][i].some
      BY <2>2 DEF Held
    <3> QED
      BY <3>1, <3>2, <3>3
  <2> QED
    BY <2>1, <2>2
<1> HIDE DEF sets
<1>5. Sent(side, {j \in Instance : sets[j].some}, TRUE)
  BY <1>0, <1>4, Delivered
<1>6. /\ buffers' \in [Side -> [Instance -> Buffer]]
      /\ \A s \in Side : s # side => buffers'[s] = buffers[s]
      /\ \A i \in Instance : buffers'[side][i] = None
  BY <1>0, <1>3, BufferFacts
<1>7. HeapInv'
  BY <1>0, <1>2, <1>5, <1>6 DEF HeapInv, Sent
<1>8. KernelInv'
  BY <1>0, <1>5, SentKernels
<1>9. /\ OrderInv'
      /\ \A i \in Instance :
           /\ \A s \in Side : Got(i, s) => Got(i, s)'
           /\ i \in {j \in Instance : sets[j].some} => Got(i, side)'
  BY <1>0, <1>5, SentOrder
<1>10. StatusInv'
  BY <1>0, <1>2 DEF StatusInv
<1>11. FedInv'
  <2>1. \A s \in Side : s # side =>
              /\ given'[s] = given[s] /\ batches'[s] = batches[s] /\ buffers'[s] = buffers[s]
              /\ s \in closed' <=> s \in closed
    BY <1>0, <1>6
  <2>2. Owed(side)' <=> Owed(side)
    BY <1>0, <1>2 DEF Owed
  <2>3. \A i \in Instance : Owed(side)' => Got(i, side)'
    BY <1>4, <1>9, <2>2 DEF FedInv
  <2>4. \A i \in Instance : ~Held(i, side)'
    BY <1>3, <1>6, BufferFacts DEF Held
  <2>5. batches'[side] > 0
    BY <1>0
  <2> QED
    BY <1>0, <1>9, <2>1, <2>3, <2>4, <2>5, FedOther
<1> QED
  BY <1>7, <1>8, <1>9, <1>10, <1>11

(* A message is taken off the mail.                                        *)
LEMMA LessMail ==
    ASSUME NEW q \in Seq(Nat), q # <<>>
    PROVE  /\ Open(q) => Open(Tail(q)) /\ Head(q) # COMPLETE
           /\ Ends(q) /\ Head(q) # COMPLETE => Ends(Tail(q))
           /\ Ends(q) /\ Head(q) = COMPLETE => Tail(q) = <<>>
<1>1. PICK l \in Nat : l = Len(q) /\ l >= 1
  OBVIOUS
<1>2. DOMAIN q = 1 .. l /\ Head(q) = q[1] /\ Tail(q) \in Seq(Nat) /\ Len(Tail(q)) = l - 1
  BY <1>1
<1>3. DOMAIN Tail(q) = 1 .. l - 1 /\ \A n \in 1 .. l - 1 : Tail(q)[n] = q[n + 1]
  BY <1>1, <1>2
<1>4. \A n \in 1 .. l - 1 : n + 1 \in 1 .. l
  BY <1>1
<1>5. Open(q) => Open(Tail(q)) /\ Head(q) # COMPLETE
  BY <1>1, <1>2, <1>3, <1>4 DEF Open
<1>6. Ends(q) /\ Head(q) # COMPLETE => Ends(Tail(q))
  <2> HAVE Ends(q) /\ Head(q) # COMPLETE
  <2>1. \A n \in 1 .. l : q[n] = COMPLETE <=> n = l
    BY <1>1, <1>2 DEF Ends
  <2>2. l # 1
    BY <1>1, <1>2, <2>1
  <2>3. Tail(q) # <<>>
    <3>1. l - 1 # 0
      BY <1>1, <2>2
    <3>2. Len(<<>>) = 0
      OBVIOUS
    <3> QED
      BY <1>2, <3>1, <3>2, Zenon
  <2>4. \A n \in 1 .. l - 1 : n + 1 = l <=> n = l - 1
    BY <1>1
  <2>5. \A n \in 1 .. l - 1 : Tail(q)[n] = COMPLETE <=> n = l - 1
    BY <1>3, <1>4, <2>1, <2>4
  <2> QED
    BY <1>2, <1>3, <2>3, <2>5 DEF Ends
<1>7. Ends(q) /\ Head(q) = COMPLETE => Tail(q) = <<>>
  <2> HAVE Ends(q) /\ Head(q) = COMPLETE
  <2>1. 1 = l
    BY <1>1, <1>2 DEF Ends
  <2> QED
    <3>1. PICK t \in Seq(Nat) : t = Tail(q)
      BY <1>2
    <3>2. Len(t) = 0
      BY <1>2, <2>1, <3>1
    <3>3. t = <<>>
      BY <3>2
    <3> QED
      BY <3>1, <3>3
<1> QED
  BY <1>5, <1>6, <1>7

(* What an instance may do with a message: the objects do not shrink, the  *)
(* kernel refers to rows they have, and it notes what it was told.         *)
LEMMA Received ==
    ASSUME JoinInv, NEW i \in Instance, NEW side \in Side, NEW k,
           mail[i][side] # <<>>, join' = [join EXCEPT ![i] = k],
           mail' = [mail EXCEPT ![i][side] = Tail(@)],
           UNCHANGED <<plan, given, batches, closed, buffers>>,
           tuples' \in Seq(Seq(RowType)), Len(tuples') = Len(tuples),
           \A p \in 1 .. Len(tuples) : Len(tuples'[p]) >= Len(tuples[p]),
           DOMAIN k = Fields, k.complete \subseteq Side, k.matched \in [Side -> SUBSET Nat],
           \A s \in Side : /\ k[s] \in 0 .. Len(tuples)
                           /\ k.matched[s] \subseteq 1 .. (IF k[s] = 0 THEN 0 ELSE Len(tuples'[k[s]])),
           \A s \in Side : s # side => k[s] = join[i][s] /\ (s \in k.complete <=> s \in join[i].complete),
           Head(mail[i][side]) = COMPLETE => side \in k.complete /\ k[side] = join[i][side],
           Head(mail[i][side]) # COMPLETE => k[side] # 0 /\ k.complete = join[i].complete,
           k.status = "error" => k.complete = Side /\ \E s \in Side : k[s] = 0
    PROVE  JoinInv'
<1> USE DEF JoinInv
<1>0. Instance' = Instance /\ \A s : Splits(s)' <=> Splits(s)
  BY DEF Instance, Splits
<1>1. PICK l \in Nat : l = Len(tuples) /\ l = Len(tuples')
  BY DEF HeapInv
<1>2. PICK q \in Seq(0 .. l) : q = mail[i][side]
  BY <1>1 DEF HeapInv
<1>3. q \in Seq(Nat) /\ q # <<>> /\ Tail(q) \in Seq(0 .. l)
  <2>1. 0 .. l \subseteq Nat
    OBVIOUS
  <2>2. Seq(0 .. l) \subseteq Seq(Nat)
    BY <2>1
  <2>3. q # <<>>
    BY <1>2
  <2>4. \A x \in Seq(0 .. l) : x # <<>> => Tail(x) \in Seq(0 .. l)
    OBVIOUS
  <2> QED
    BY <2>2, <2>3, <2>4, Zenon
<1>4. /\ DOMAIN join' = Instance /\ join'[i] = k
      /\ \A j \in Instance : j # i => join'[j] = join[j]
  BY DEF KernelInv
<1>5. /\ mail' \in [Instance -> [Side -> Seq(0 .. l)]] /\ mail'[i][side] = Tail(q)
      /\ \A j \in Instance, s \in Side : ~(j = i /\ s = side) => mail'[j][s] = mail[j][s]
  BY <1>1, <1>2, <1>3 DEF HeapInv
<1>6. HeapInv'
  BY <1>0, <1>1, <1>5 DEF HeapInv
<1>7. KernelInv'
  <2>1. ASSUME NEW j \in Instance PROVE Kernels(j)'
    <3>1. CASE j = i
      BY <1>1, <1>4, <3>1 DEF Kernels, Fields
    <3>2. CASE j # i
      <4>1. Kernels(j) /\ join'[j] = join[j]
        BY <1>4, <3>2 DEF KernelInv
      <4>2. PICK kj : kj = join[j]
        OBVIOUS
      <4>3. ASSUME NEW s \in Side
            PROVE  kj.matched[s] \subseteq 1 .. (IF kj[s] = 0 THEN 0 ELSE Len(tuples'[kj[s]]))
        <5>1. PICK o \in 0 .. l : o = kj[s]
          BY <1>1, <4>1, <4>2 DEF Kernels
        <5>2. CASE o = 0
          BY <4>1, <4>2, <5>1, <5>2 DEF Kernels
        <5>3. CASE o # 0
          <6>1. o \in 1 .. l
            BY <5>3
          <6>2. PICK a \in Nat, b \in Nat : a = Len(tuples[o]) /\ b = Len(tuples'[o]) /\ a <= b
            <7>1. tuples[o] \in Seq(RowType) /\ tuples'[o] \in Seq(RowType) /\ Len(tuples'[o]) >= Len(tuples[o])
              BY <1>1, <6>1 DEF HeapInv
            <7>2. PICK x \in Seq(RowType), y \in Seq(RowType) : x = tuples[o] /\ y = tuples'[o]
              BY <7>1
            <7>3. Len(x) \in Nat /\ Len(y) \in Nat
              OBVIOUS
            <7> QED
              BY <7>1, <7>2, <7>3
          <6>3. kj.matched[s] \subseteq 1 .. a
            BY <4>1, <4>2, <5>1, <5>3, <6>2 DEF Kernels
          <6>4. 1 .. a \subseteq 1 .. b
            BY <6>2
          <6> QED
            BY <5>1, <5>3, <6>2, <6>3, <6>4
        <5> QED
          BY <5>2, <5>3
      <4> QED
        BY <1>1, <4>1, <4>2, <4>3 DEF Kernels
    <3> QED
      BY <3>1, <3>2
  <2> QED
    BY <1>0, <1>4, <2>1 DEF KernelInv
<1>8. OrderInv'
  <2>1. ASSUME NEW j \in Instance, NEW s \in Side
        PROVE  /\ s \notin closed => Open(mail'[j][s]) /\ s \notin join'[j].complete
               /\ s \in closed => IF s \in join'[j].complete THEN mail'[j][s] = <<>> ELSE Ends(mail'[j][s])
    <3>1. CASE j = i /\ s = side
      <4>1. /\ side \notin closed => Open(q) /\ side \notin join[i].complete
            /\ side \in closed => IF side \in join[i].complete THEN q = <<>> ELSE Ends(q)
        BY <1>2 DEF OrderInv
      <4>2. /\ Open(q) => Open(Tail(q)) /\ Head(q) # COMPLETE
            /\ Ends(q) /\ Head(q) # COMPLETE => Ends(Tail(q))
            /\ Ends(q) /\ Head(q) = COMPLETE => Tail(q) = <<>>
        BY <1>3, LessMail
      <4>3. mail'[j][s] = Tail(q) /\ join'[j] = k /\ s = side
        BY <1>4, <1>5, <3>1
      <4>4. CASE Head(q) = COMPLETE
        <5>1. side \in k.complete
          BY <1>2, <4>4
        <5> QED
          BY <1>3, <4>1, <4>2, <4>3, <4>4, <5>1
      <4>5. CASE Head(q) # COMPLETE
        <5>1. k.complete = join[i].complete
          BY <1>2, <4>5
        <5> QED
          BY <1>3, <4>1, <4>2, <4>3, <4>5, <5>1
      <4> QED
        BY <4>4, <4>5
    <3>2. CASE ~(j = i /\ s = side)
      <4>1. /\ s \notin closed => Open(mail[j][s]) /\ s \notin join[j].complete
            /\ s \in closed => IF s \in join[j].complete THEN mail[j][s] = <<>> ELSE Ends(mail[j][s])
        BY DEF OrderInv
      <4>2. mail'[j][s] = mail[j][s] /\ (s \in join'[j].complete <=> s \in join[j].complete)
        <5>1. mail'[j][s] = mail[j][s]
          BY <1>5, <3>2
        <5>2. CASE j = i
          <6>1. s # side /\ join'[j] = k
            BY <1>4, <3>2, <5>2
          <6> QED
            BY <5>1, <5>2, <6>1
        <5>3. CASE j # i
          BY <1>4, <5>1, <5>3
        <5> QED
          BY <5>2, <5>3
      <4> QED
        BY <4>1, <4>2, Zenon
    <3> QED
      BY <3>1, <3>2
  <2> QED
    BY <1>0, <2>1 DEF OrderInv
<1>9. FedInv'
  <2>1. ASSUME NEW j \in Instance, NEW s \in Side, Got(j, s) PROVE Got(j, s)'
    <3>1. CASE j = i /\ s = side
      BY <1>2, <1>4, <2>1, <3>1 DEF Got
    <3>2. CASE ~(j = i /\ s = side)
      <4>1. mail'[j][s] = mail[j][s] /\ join'[j][s] = join[j][s]
        <5>1. mail'[j][s] = mail[j][s]
          BY <1>5, <3>2
        <5>2. CASE j = i
          <6>1. s # side /\ join'[j] = k
            BY <1>4, <3>2, <5>2
          <6> QED
            BY <5>1, <5>2, <6>1
        <5>3. CASE j # i
          BY <1>4, <5>1, <5>3
        <5> QED
          BY <5>2, <5>3
      <4> QED
        BY <2>1, <4>1 DEF Got
    <3> QED
      BY <3>1, <3>2
  <2>2. \A s \in Side : (Owed(s)' <=> Owed(s)) /\ \A j \in Instance : Held(j, s)' <=> Held(j, s)
    BY <1>0 DEF Owed, Held
  <2> QED
    BY <1>0, <2>1, <2>2 DEF FedInv
<1>10. StatusInv'
  BY <1>0, <1>4 DEF StatusInv
<1> QED
  BY <1>6, <1>7, <1>8, <1>9, <1>10

(* A tuple set arrives.  It may be the very object it is appended to, and  *)
(* the object that grows may be one that other instances hold.             *)
LEMMA ReceiveTupleStep ==
    ASSUME JoinInv, NEW i \in Instance, NEW side \in Side, ReceiveTuple(i, side)
    PROVE  JoinInv'
<1> USE DEF JoinInv
<1>1. PICK l \in Nat : l = Len(tuples)
  BY DEF HeapInv
<1>2. PICK o \in 1 .. l : o = Head(mail[i][side])
  <2>1. PICK q \in Seq(0 .. l) : q = mail[i][side] /\ q # <<>> /\ Head(q) # 0
    BY <1>1 DEF HeapInv, ReceiveTuple, COMPLETE
  <2>2. Head(q) \in 0 .. l
    BY <2>1
  <2> QED
    BY <2>1, <2>2
<1>3. PICK k : k = join[i]
  OBVIOUS
<1>4. /\ DOMAIN k = Fields /\ k.complete \subseteq Side /\ k.matched \in [Side -> SUBSET Nat] /\ k.status = "run"
      /\ \A s \in Side : /\ k[s] \in 0 .. l
                         /\ k.matched[s] \subseteq 1 .. (IF k[s] = 0 THEN 0 ELSE Len(tuples[k[s]]))
  BY <1>1, <1>3 DEF KernelInv, Kernels, Fields, ReceiveTuple
<1>5. PICK new \in Seq(RowType) : new = tuples[o]
  BY <1>1 DEF HeapInv
<1>6. \A p \in 1 .. l : tuples[p] \in Seq(RowType) /\ Len(tuples[p]) \in Nat
  <2>1. \A p \in 1 .. l : tuples[p] \in Seq(RowType)
    BY <1>1 DEF HeapInv
  <2>2. \A x \in Seq(RowType) : Len(x) \in Nat
    OBVIOUS
  <2> QED
    BY <2>1, <2>2, Zenon
<1>7. PICK other \in Side : other = Other(side) /\ other # side /\ \A s \in Side : s = side \/ s = other
  BY DEF Side, Other
<1>8. PICK old \in Seq(RowType) : old = IF k[Other(side)] = 0 THEN <<>> ELSE tuples[k[Other(side)]]
  <2>1. k[other] # 0 => k[other] \in 1 .. l
    BY <1>4
  <2>2. <<>> \in Seq(RowType)
    OBVIOUS
  <2> QED
    BY <1>6, <1>7, <2>1, <2>2, Zenon
<1>9. PICK off \in Nat : off = Offset(side, k, new) /\ off = IF k[side] = 0 THEN 0 ELSE Len(tuples[k[side]])
  <2>1. k[side] # 0 => k[side] \in 1 .. l
    BY <1>4
  <2> QED
    BY <1>6, <2>1 DEF Offset
<1>10. PICK r : r = JoinIncoming(side, k, new)
  OBVIOUS
<1>11. /\ DOMAIN r = Fields /\ r.left = k.left /\ r.right = k.right
       /\ r.complete = k.complete /\ r.status = k.status
       /\ r.matched \in [Side -> SUBSET Nat]
       /\ r.matched[side] \subseteq k.matched[side] \cup {off + a : a \in DOMAIN new}
       /\ r.matched[Other(side)] \subseteq k.matched[Other(side)] \cup DOMAIN old
  <2>1. DOMAIN k = Fields /\ k.matched \in [Side -> SUBSET Nat] /\ off = Offset(side, k, new)
    BY <1>4, <1>9
  <2> QED
    <3>1. JoinedFields(side, k, new, old, off, r)
      BY <1>8, <1>10, <2>1, JoinIncomingFields, Zenon
    <3> QED
      BY <3>1, Zenon DEF JoinedFields
<1>12. PICK h \in 1 .. l : h = IF k[side] = 0 THEN o ELSE k[side]
  BY <1>4
<1>13. PICK z : z = [r EXCEPT ![side] = h]
  OBVIOUS
<1>14. /\ join' = [join EXCEPT ![i] = z]
       /\ tuples' = IF k[side] = 0 THEN tuples ELSE [tuples EXCEPT ![k[side]] = @ \o tuples[o]]
       /\ mail[i][side] # <<>> /\ Head(mail[i][side]) # COMPLETE
       /\ mail' = [mail EXCEPT ![i][side] = Tail(@)]
       /\ UNCHANGED <<plan, given, batches, closed, buffers>>
  <2>1. /\ join' = [join EXCEPT ![i] = [JoinIncoming(side, join[i], tuples[Head(mail[i][side])]) EXCEPT
                      ![side] = IF join[i][side] = 0 THEN Head(mail[i][side]) ELSE join[i][side]]]
        /\ tuples' = IF join[i][side] = 0 THEN tuples
                     ELSE [tuples EXCEPT ![join[i][side]] = @ \o tuples[Head(mail[i][side])]]
        /\ mail[i][side] # <<>> /\ Head(mail[i][side]) # COMPLETE
        /\ mail' = [mail EXCEPT ![i][side] = Tail(@)]
        /\ UNCHANGED <<plan, given, batches, closed, buffers>>
    BY Zenon DEF ReceiveTuple
  <2>2. join' = [join EXCEPT ![i] = z]
    BY <1>2, <1>3, <1>5, <1>10, <1>12, <1>13, <2>1
  <2>3. tuples' = IF k[side] = 0 THEN tuples ELSE [tuples EXCEPT ![k[side]] = @ \o tuples[o]]
    BY <1>2, <1>3, <2>1
  <2> QED
    BY <2>1, <2>2, <2>3
<1>15. /\ DOMAIN z = Fields /\ z.complete = k.complete /\ z.status = "run" /\ z.matched = r.matched
       /\ z[side] = h /\ z[other] = k[other]
  <2>1. side \in Fields /\ side # "complete" /\ side # "status" /\ side # "matched"
    BY DEF Fields, Side
  <2>2. r[other] = k[other]
    BY <1>11, <1>7 DEF Side
  <2>3. other \in Fields
    BY DEF Fields, Side
  <2>4. "complete" \in Fields /\ "status" \in Fields /\ "matched" \in Fields
    BY DEF Fields
  <2> QED
    BY <1>4, <1>7, <1>11, <1>13, <2>1, <2>2, <2>3, <2>4
<1>16. /\ tuples' \in Seq(Seq(RowType)) /\ Len(tuples') = l
       /\ \A p \in 1 .. l : Len(tuples'[p]) >= Len(tuples[p])
       /\ off + Len(new) <= Len(tuples'[h])
  <2>1. CASE k[side] = 0
    <3>1. tuples' = tuples /\ h = o /\ off = 0
      BY <1>9, <1>12, <1>14, <2>1
    <3>2. \A p \in 1 .. l : Len(tuples[p]) >= Len(tuples[p])
      BY <1>6
    <3> QED
      BY <1>1, <1>5, <1>6, <3>1, <3>2 DEF HeapInv
  <2>2. CASE k[side] # 0
    <3>1. tuples' = [tuples EXCEPT ![h] = @ \o new] /\ off = Len(tuples[h])
      BY <1>5, <1>9, <1>12, <1>14, <2>2
    <3>2. PICK x \in Seq(RowType) : x = tuples[h]
      BY <1>6
    <3>3. x \o new \in Seq(RowType) /\ Len(x \o new) = Len(x) + Len(new) /\ Len(x) \in Nat /\ Len(new) \in Nat
      OBVIOUS
    <3>4. tuples \in Seq(Seq(RowType)) /\ DOMAIN tuples = 1 .. l
      BY <1>1 DEF HeapInv
    <3>5. PICK y \in Seq(RowType) : y = x \o new
      BY <3>3
    <3>6. tuples' = [tuples EXCEPT ![h] = y]
      BY <3>1, <3>2, <3>5
    <3>7. tuples' \in [1 .. l -> Seq(RowType)]
      BY <3>4, <3>6
    <3>8. tuples' \in Seq(Seq(RowType)) /\ Len(tuples') = l
      BY <3>7
    <3>9. tuples'[h] = y /\ \A p \in 1 .. l : p # h => tuples'[p] = tuples[p]
      BY <3>4, <3>6
    <3>10. Len(y) = Len(x) + Len(new) /\ Len(x) = off
      BY <3>1, <3>2, <3>3, <3>5
    <3>11. ASSUME NEW p \in 1 .. l PROVE Len(tuples'[p]) >= Len(tuples[p])
      <4>1. CASE p = h
        BY <3>2, <3>3, <3>9, <3>10, <4>1
      <4>2. CASE p # h
        BY <1>6, <3>9, <4>2
      <4> QED
        BY <4>1, <4>2
    <3>12. off + Len(new) <= Len(tuples'[h])
      BY <3>3, <3>9, <3>10
    <3> QED
      BY <3>8, <3>11, <3>12
  <2> QED
    BY <2>1, <2>2
<1>17. \A p \in 1 .. l : Len(tuples'[p]) \in Nat
  <2>1. \A x \in Seq(RowType) : Len(x) \in Nat
    OBVIOUS
  <2>2. \A p \in 1 .. l : tuples'[p] \in Seq(RowType)
    BY <1>16
  <2> QED
    BY <2>1, <2>2, Zenon
<1>18. z.matched[side] \subseteq 1 .. Len(tuples'[h])
  <2>1. PICK n \in Nat : n = Len(tuples'[h])
    BY <1>17
  <2>2. PICK d \in Nat : d = Len(new) /\ DOMAIN new = 1 .. d
    OBVIOUS
  <2>3. off + d <= n
    BY <1>16, <2>1, <2>2
  <2>4. k.matched[side] \subseteq 1 .. off
    BY <1>4, <1>9
  <2>5. {off + a : a \in DOMAIN new} \subseteq 1 .. n
    BY <2>2, <2>3
  <2>6. 1 .. off \subseteq 1 .. n
    BY <2>2, <2>3
  <2> QED
    BY <1>11, <1>15, <2>1, <2>4, <2>5, <2>6
<1>19. z.matched[other] \subseteq 1 .. (IF z[other] = 0 THEN 0 ELSE Len(tuples'[z[other]]))
  <2>1. PICK d \in Nat : d = Len(old) /\ DOMAIN old = 1 .. d
    OBVIOUS
  <2>2. CASE k[other] = 0
    <3>1. d = 0
      BY <1>7, <1>8, <2>1, <2>2
    <3>2. k.matched[other] \subseteq 1 .. 0 /\ DOMAIN old = 1 .. 0
      BY <1>4, <2>1, <2>2, <3>1
    <3> QED
      BY <1>7, <1>11, <1>15, <2>2, <3>2
  <2>3. CASE k[other] # 0
    <3>1. PICK p \in 1 .. l : p = k[other]
      BY <1>4, <2>3
    <3>2. PICK n \in Nat : n = Len(tuples'[p])
      BY <1>17
    <3>3. d = Len(tuples[p]) /\ d <= n
      BY <1>7, <1>8, <1>16, <2>1, <2>3, <3>1, <3>2
    <3>4. k.matched[other] \subseteq 1 .. d
      BY <1>4, <2>3, <3>1, <3>3
    <3>5. 1 .. d \subseteq 1 .. n
      BY <3>3
    <3> QED
      BY <1>7, <1>11, <1>15, <2>1, <2>3, <3>1, <3>2, <3>4, <3>5
  <2> QED
    BY <2>2, <2>3
<1>20. \A s \in Side : /\ z[s] \in 0 .. Len(tuples)
                       /\ z.matched[s] \subseteq 1 .. (IF z[s] = 0 THEN 0 ELSE Len(tuples'[z[s]]))
  <2>1. z[side] \in 0 .. l /\ z[other] \in 0 .. l /\ z[side] # 0
    BY <1>4, <1>15
  <2>2. z.matched[side] \subseteq 1 .. (IF z[side] = 0 THEN 0 ELSE Len(tuples'[z[side]]))
    BY <1>15, <1>18, <2>1
  <2> QED
    BY <1>1, <1>7, <1>19, <2>1, <2>2
<1>21. \A p \in 1 .. Len(tuples) : Len(tuples'[p]) >= Len(tuples[p])
  BY <1>1, <1>16
<1>22. \A s \in Side : s # side => z[s] = join[i][s] /\ (s \in z.complete <=> s \in join[i].complete)
  BY <1>3, <1>7, <1>15
<1>23. z[side] # 0 /\ z.complete = join[i].complete /\ z.status # "error"
  BY <1>3, <1>15
<1>24. z.complete \subseteq Side /\ z.matched \in [Side -> SUBSET Nat]
  BY <1>4, <1>11, <1>15
<1>25. tuples' \in Seq(Seq(RowType)) /\ Len(tuples') = Len(tuples)
  BY <1>1, <1>16
<1> QED
  BY <1>14, <1>15, <1>20, <1>21, <1>22, <1>23, <1>24, <1>25, Received

(* A producer is complete for an instance.  Finalizing changes the output  *)
(* alone.                                                                  *)
LEMMA FinalizeFields ==
    ASSUME NEW k, DOMAIN k = Fields
    PROVE  LET r == Finalize(k) IN
           /\ DOMAIN r = Fields /\ r.left = k.left /\ r.right = k.right
           /\ r.complete = k.complete /\ r.matched = k.matched
<1> DEFINE r == Finalize(k)
<1>1. r = k \/ \E x : r = [k EXCEPT !.out = x]
  <2>1. CASE k.left = 0 \/ k.right = 0
    BY <2>1 DEF Finalize
  <2>2. CASE ~(k.left = 0 \/ k.right = 0) /\ plan.kind = "semi"
    BY <2>2, Zenon DEF Finalize
  <2>3. CASE ~(k.left = 0 \/ k.right = 0) /\ plan.kind # "semi"
    BY <2>3, Zenon DEF Finalize
  <2> QED
    BY <2>1, <2>2, <2>3
<1> HIDE DEF r
<1>2. CASE r = k
  BY <1>2 DEF r
<1>3. CASE r # k
  <2>1. PICK x : r = [k EXCEPT !.out = x]
    BY <1>1, <1>3
  <2>2. /\ DOMAIN r = Fields /\ r.left = k.left /\ r.right = k.right
        /\ r.complete = k.complete /\ r.matched = k.matched
    BY <2>1 DEF Fields
  <2> QED
    BY <2>2 DEF r
<1> QED
  BY <1>2, <1>3

LEMMA ReceiveCompleteStep ==
    ASSUME JoinInv, NEW i \in Instance, NEW side \in Side, ReceiveComplete(i, side)
    PROVE  JoinInv'
<1> USE DEF JoinInv
<1>1. PICK j : j = join[i]
  OBVIOUS
<1>2. PICK k : k = [j EXCEPT !.complete = @ \cup {side}]
  OBVIOUS
<1>3. PICK schema \in BOOLEAN : schema <=> k.left # 0 /\ k.right # 0
  OBVIOUS
<1>4. PICK z : z = IF k.complete # Side THEN k
                   ELSE [Finalize(k) EXCEPT !.status = IF schema THEN "done" ELSE "error"]
  OBVIOUS
<1>5. /\ join' = [join EXCEPT ![i] = z] /\ j.status = "run"
      /\ mail[i][side] # <<>> /\ Head(mail[i][side]) = COMPLETE
      /\ mail' = [mail EXCEPT ![i][side] = Tail(@)]
      /\ UNCHANGED <<plan, given, batches, closed, buffers, tuples>>
  <2>1. /\ join' = [join EXCEPT ![i] = z]
    BY <1>1, <1>2, <1>3, <1>4 DEF ReceiveComplete
  <2> QED
    BY <1>1, <2>1 DEF ReceiveComplete
<1>6. /\ DOMAIN j = Fields /\ j.complete \subseteq Side /\ j.matched \in [Side -> SUBSET Nat]
      /\ \A s \in Side : /\ j[s] \in 0 .. Len(tuples)
                         /\ j.matched[s] \subseteq 1 .. (IF j[s] = 0 THEN 0 ELSE Len(tuples[j[s]]))
  BY <1>1 DEF KernelInv, Kernels, Fields
<1>7. /\ DOMAIN k = Fields /\ k.complete = j.complete \cup {side} /\ k.status = "run"
      /\ k.matched = j.matched /\ k.left = j.left /\ k.right = j.right
  BY <1>2, <1>5, <1>6 DEF Fields
<1>8. /\ DOMAIN z = Fields /\ z.complete = k.complete /\ z.matched = k.matched
      /\ z.left = k.left /\ z.right = k.right
      /\ z.status = "error" => k.complete = Side /\ ~schema
  <2>1. CASE k.complete # Side
    BY <1>4, <1>7, <2>1
  <2>2. CASE k.complete = Side
    <3>1. PICK r : r = Finalize(k)
      OBVIOUS
    <3>2. /\ DOMAIN r = Fields /\ r.left = k.left /\ r.right = k.right
          /\ r.complete = k.complete /\ r.matched = k.matched
      BY <1>7, <3>1, FinalizeFields
    <3>3. z = [r EXCEPT !.status = IF schema THEN "done" ELSE "error"]
      BY <1>4, <2>2, <3>1
    <3> QED
      BY <2>2, <3>2, <3>3 DEF Fields
  <2> QED
    BY <2>1, <2>2
<1>9. \A s \in Side : z[s] = j[s]
  BY <1>7, <1>8 DEF Side
<1>10. z.status = "error" => z.complete = Side /\ \E s \in Side : z[s] = 0
  BY <1>3, <1>7, <1>8, <1>9 DEF Side
<1>11. \A s \in Side : /\ z[s] \in 0 .. Len(tuples)
                       /\ z.matched[s] \subseteq 1 .. (IF z[s] = 0 THEN 0 ELSE Len(tuples'[z[s]]))
  BY <1>5, <1>6, <1>7, <1>8, <1>9
<1>12. \A s \in Side : s # side => z[s] = join[i][s] /\ (s \in z.complete <=> s \in join[i].complete)
  BY <1>1, <1>7, <1>8, <1>9
<1>13. side \in z.complete /\ z[side] = join[i][side]
  BY <1>1, <1>7, <1>8, <1>9
<1>14. z.complete \subseteq Side /\ z.matched \in [Side -> SUBSET Nat]
  BY <1>6, <1>7, <1>8
<1>15. /\ tuples' \in Seq(Seq(RowType)) /\ Len(tuples') = Len(tuples)
       /\ \A p \in 1 .. Len(tuples) : Len(tuples'[p]) >= Len(tuples[p])
  <2>1. tuples \in Seq(Seq(RowType)) /\ Len(tuples) \in Nat
    BY DEF HeapInv
  <2>2. \A p \in 1 .. Len(tuples) : tuples[p] \in Seq(RowType)
    BY <2>1
  <2>3. \A x \in Seq(RowType) : Len(x) >= Len(x)
    OBVIOUS
  <2> QED
    BY <1>5, <2>1, <2>2, <2>3, Zenon
<1> QED
  BY <1>5, <1>8, <1>10, <1>11, <1>12, <1>13, <1>14, <1>15, Received

-----------------------------------------------------------------------------
(* The invariant.                                                          *)

LEMMA JoinInitial == Init => JoinInv
<1> SUFFICES ASSUME Init PROVE JoinInv
  OBVIOUS
<1>1. PICK N \in Nat : N >= 1 /\ Instance = 1 .. N
  BY PlanFacts DEF Init
<1>2. /\ plan \in Plans /\ given = [s \in Side |-> <<>>] /\ batches = [s \in Side |-> 0]
      /\ closed = {} /\ tuples = <<>>
      /\ buffers = [s \in Side |-> [i \in Instance |-> None]]
      /\ mail = [i \in Instance |-> [s \in Side |-> <<>>]]
      /\ join = [i \in Instance |-> Kernel]
  BY DEF Init
<1>3. /\ DOMAIN Kernel = Fields /\ Kernel.left = 0 /\ Kernel.right = 0 /\ Kernel.status = "run"
      /\ Kernel.complete = {} /\ Kernel.matched = [s \in Side |-> {}]
  BY DEF Kernel, Fields
<1>4. \A s \in Side : Kernel[s] = 0
  BY <1>3 DEF Side
<1>5. tuples \in Seq(Seq(RowType)) /\ Len(tuples) = 0
  BY <1>2
<1>6. HeapInv
  <2>1. <<>> \in Seq(Key) /\ <<>> \in Seq(0 .. Len(tuples))
    OBVIOUS
  <2> QED
    BY <1>2, <1>5, <2>1, BufferFacts DEF HeapInv
<1>7. KernelInv
  <2>1. ASSUME NEW i \in Instance PROVE Kernels(i)
    <3>1. join[i] = Kernel
      BY <1>2
    <3>2. Kernel.matched \in [Side -> SUBSET Nat] /\ Kernel.complete \subseteq Side
      BY <1>3
    <3>3. \A s \in Side : Kernel[s] \in 0 .. Len(tuples) /\ Kernel.matched[s] = {}
      BY <1>3, <1>4, <1>5
    <3> QED
      BY <1>3, <3>1, <3>2, <3>3 DEF Kernels, Fields
  <2> QED
    BY <1>2, <2>1 DEF KernelInv
<1>8. OrderInv
  <2>1. Open(<<>>)
    BY DEF Open
  <2> QED
    BY <1>2, <1>3, <2>1 DEF OrderInv
<1>9. FedInv
  <2>1. \A s \in Side : ~Owed(s)
    BY <1>2 DEF Owed
  <2> QED
    BY <1>2, <2>1 DEF FedInv
<1>10. StatusInv
  BY <1>2, <1>3 DEF StatusInv
<1> QED
  BY <1>6, <1>7, <1>8, <1>9, <1>10 DEF JoinInv

LEMMA JoinStep == JoinInv /\ [Next]_vars => JoinInv'
<1> SUFFICES ASSUME JoinInv, [Next]_vars PROVE JoinInv'
  OBVIOUS
<1>1. ASSUME NEW side \in Side, Close(side) PROVE JoinInv'
  BY <1>1, CloseStep
<1>2. ASSUME NEW side \in Side, NEW keys \in Batch, Produce(side, keys) PROVE JoinInv'
  BY <1>2, ProduceStep
<1>3. ASSUME NEW i \in Instance, NEW side \in Side, ReceiveTuple(i, side) PROVE JoinInv'
  BY <1>3, ReceiveTupleStep
<1>4. ASSUME NEW i \in Instance, NEW side \in Side, ReceiveComplete(i, side) PROVE JoinInv'
  BY <1>4, ReceiveCompleteStep
<1>5. ASSUME UNCHANGED vars PROVE JoinInv'
  BY <1>5 DEF vars, JoinInv, HeapInv, KernelInv, Kernels, OrderInv, FedInv, StatusInv, Instance,
              Owed, Held, Got, Splits
<1> QED
  BY <1>1, <1>2, <1>3, <1>4, <1>5 DEF Next, Ended

LEMMA Invariance == Spec => []JoinInv
  BY JoinInitial, JoinStep, PTL DEF Spec

(* TypeOK: the messages and the kernels refer to TupleSets that exist, and *)
(* the row match indexes of the outer and semi join kernels to rows that   *)
(* the TupleSet has, although TupleSet::append changes objects that other  *)
(* instances hold, or appends an object to itself.                         *)
THEOREM TypeCorrect == Spec => []TypeOK
<1>1. JoinInv => TypeOK
  <2> SUFFICES ASSUME JoinInv PROVE TypeOK
    OBVIOUS
  <2>1. plan \in Plans /\ closed \subseteq Side
    BY DEF JoinInv, HeapInv
  <2>2. ASSUME NEW i \in Instance, NEW side \in Side
        PROVE  /\ Elems(mail[i][side]) \subseteq 0 .. Len(tuples)
               /\ Kernels(i)
    <3>1. mail[i][side] \in Seq(0 .. Len(tuples))
      BY DEF JoinInv, HeapInv
    <3>2. Elems(mail[i][side]) \subseteq 0 .. Len(tuples)
      BY <3>1 DEF Elems
    <3> QED
      BY <3>2 DEF JoinInv, KernelInv
  <2> QED
    BY <2>1, <2>2 DEF TypeOK, Kernels
<1> QED
  BY <1>1, Invariance, PTL

(* FailsOnlyUnsplit: no instance fails for want of an output schema behind *)
(* a shuffle or a tell, for ShufflePOp::onTuple gives every slot a tuple   *)
(* set, an empty one too; only SplitPOp::onTuple drops an empty one.       *)
THEOREM FailsOnlyBehindSplit == Spec => []FailsOnlyUnsplit
<1>1. JoinInv => FailsOnlyUnsplit
  <2> SUFFICES ASSUME JoinInv, NEW i \in Instance, join[i].status = "error"
               PROVE  Splits("right") /\ given["right"] = <<>>
    BY DEF FailsOnlyUnsplit
  <2>1. PICK side \in Side : join[i].complete = Side /\ join[i][side] = 0
    BY DEF JoinInv, StatusInv
  <2>2. side \in closed /\ mail[i][side] = <<>>
    BY <2>1 DEF JoinInv, OrderInv
  <2>3. ~Got(i, side)
    BY <2>1, <2>2 DEF Got
  <2>4. ~Owed(side) /\ batches[side] > 0
    BY <2>2, <2>3 DEF JoinInv, FedInv
  <2>5. Splits(side) /\ given[side] = <<>>
    BY <2>4 DEF Owed
  <2> QED
    BY <2>5 DEF Splits
<1> QED
  BY <1>1, Invariance, PTL

-----------------------------------------------------------------------------
(* That the join is exact.                                                 *)

(* Semi joins, and nested loop joins of several instances, get the left    *)
(* side in one tuple set: with more of them the code is not exact.         *)
OneLeftSet ==
    plan.kind = "semi" \/ (plan.kind = "loop" /\ plan.instances > 1) => plan.batches["left"] = 1

(* The objects an instance has of a side or will get, and the rows in      *)
(* them; the rows it has; the rows held back for it.                       *)
Live(i, s) == (Elems(mail[i][s]) \cup {join[i][s]}) \ {0}
LiveRows(i, s) == UNION {Elems(tuples[o]) : o \in Live(i, s)}
Taken(i, s) == IF join[i][s] = 0 THEN <<>> ELSE tuples[join[i][s]]
Back(i, s) == Elems(buffers[s][i].rows)

(* Whether a side is told to every instance.                               *)
Broadcast(s) == ~Shuffles /\ ~Splits(s)

(* An object is on its way to one instance once, or told to all of them.   *)
OwnInv ==
    \A i \in Instance, s \in Side :
        /\ Distinct(mail[i][s])
        /\ join[i][s] # 0 => join[i][s] \notin Elems(mail[i][s])
        /\ \A j \in Instance, t \in Side :
             Live(i, s) \cap Live(j, t) # {} => s = t /\ (i = j \/ Broadcast(s))

(* Of one tuple set every instance gets one object.                        *)
SingleInv ==
    plan.batches["left"] = 1 =>
        \A i \in Instance :
            /\ batches["left"] = 0 => Live(i, "left") = {} /\ ~buffers["left"][i].some
            /\ \A o, p \in Live(i, "left") : o = p
            /\ buffers["left"][i].some => Live(i, "left") = {}

(* No row of a side is twice at an instance.                               *)
Clean(i, s) ==
    /\ \A o \in Live(i, s) : Distinct(tuples[o])
    /\ \A o, p \in Live(i, s) : o # p => Elems(tuples[o]) \cap Elems(tuples[p]) = {}
    /\ Distinct(buffers[s][i].rows) /\ Back(i, s) \cap LiveRows(i, s) = {}
    /\ ~buffers[s][i].some => buffers[s][i].rows = <<>>

(* The rows given are spread over the instances.                           *)
Spread(s) ==
    /\ \A i \in Instance : Clean(i, s)
    /\ Shuffles => \A i \in Instance : LiveRows(i, s) \cup Back(i, s) = {r \in Rows(s) : slot[r.key] = i}
    /\ Broadcast(s) => \A i \in Instance : LiveRows(i, s) = Rows(s) /\ ~buffers[s][i].some
    /\ Splits(s) =>
         /\ (UNION {LiveRows(i, s) : i \in Instance}) \cup Back(1, s) = Rows(s)
         /\ \A i \in Instance :
              /\ i # 1 => Back(i, s) = {}
              /\ Back(1, s) \cap LiveRows(i, s) = {}
              /\ \A j \in Instance : i # j => LiveRows(i, s) \cap LiveRows(j, s) = {}
SpreadInv == \A s \in Side : Spread(s)

(* The bag has every element of S once and nothing else.                   *)
OnceEach(b, S) == DOMAIN b = S /\ \A x \in S : b[x] = 1

(* The rows that meet, and the join of rows L and rows R.                  *)
Meeting(L, R) == {x \in L \X R : x[1].key = x[2].key}
Met(L, R) == {r \in L : \E o \in R : o.key = r.key}
Result(L, R) ==
    IF plan.kind = "semi" THEN Met(L, R)
    ELSE Meeting(L, R)
         \cup {<<r, Null>> : r \in IF plan.left THEN L \ Met(L, R) ELSE {}}
         \cup {<<Null, r>> : r \in IF plan.right THEN R \ Met(R, L) ELSE {}}

(* Where x has rows that meet rows of S, and the sides for which a kernel  *)
(* notes these places.                                                     *)
Hits(x, S) == {a \in DOMAIN x : \E o \in S : o.key = x[a].key}
Marks(s) == IF plan.kind = "semi" THEN s = "left" ELSE plan[s]

(* What a kernel has computed of the rows it has, x of the left side and y *)
(* of the right one, and in the end.                                       *)
ExactRun(out, matched, x, y) ==
    /\ plan.kind # "semi" => OnceEach(out, Meeting(Elems(x), Elems(y)))
    /\ Marks("left") => matched["left"] = Hits(x, Elems(y))
    /\ Marks("right") => matched["right"] = Hits(y, Elems(x))
ExactKernel(i) ==
    /\ join[i].status = "run" =>
         ExactRun(join[i].out, join[i].matched, Taken(i, "left"), Taken(i, "right"))
    /\ join[i].status = "done" =>
         /\ join[i].complete = Side
         /\ OnceEach(join[i].out, Result(Elems(Taken(i, "left")), Elems(Taken(i, "right"))))

SlotInv == slot \in [Key -> IF Shuffles THEN Instance ELSE {1}]

Distribution == OwnInv /\ SingleInv /\ SpreadInv /\ \A i \in Instance : ExactKernel(i)
ExactInv == OneLeftSet => SlotInv /\ Distribution

-----------------------------------------------------------------------------
(* Rows in sequences and in bags.                                          *)

(* The elements of a concatenation, and of a sequence with one more.       *)
LEMMA ConcatElems ==
    ASSUME NEW S, NEW x \in Seq(S), NEW y \in Seq(S)
    PROVE  /\ x \o y \in Seq(S) /\ Elems(x \o y) = Elems(x) \cup Elems(y)
           /\ Len(x) \in Nat /\ Len(y) \in Nat /\ Len(x \o y) = Len(x) + Len(y)
           /\ DOMAIN x = 1 .. Len(x) /\ DOMAIN y = 1 .. Len(y) /\ DOMAIN (x \o y) = 1 .. Len(x) + Len(y)
           /\ \A n \in DOMAIN x : (x \o y)[n] = x[n]
           /\ \A n \in DOMAIN y : (x \o y)[Len(x) + n] = y[n]
<1>1. PICK l \in Nat, m \in Nat : l = Len(x) /\ m = Len(y)
  OBVIOUS
<1>2. DOMAIN x = 1 .. l /\ DOMAIN y = 1 .. m
  BY <1>1
<1>3. x \o y \in Seq(S) /\ Len(x \o y) = l + m
  BY <1>1
<1>4. \A n \in 1 .. l + m : (x \o y)[n] = IF n <= l THEN x[n] ELSE y[n - l]
  BY <1>1
<1>5. PICK z \in Seq(S) : z = x \o y /\ DOMAIN z = 1 .. l + m
  <2>1. PICK z \in Seq(S) : z = x \o y
    BY <1>3
  <2>2. Len(z) = l + m /\ DOMAIN z = 1 .. Len(z)
    BY <1>3, <2>1
  <2> QED
    BY <2>1, <2>2
<1>6. \A n \in 1 .. l : z[n] = x[n]
  BY <1>4, <1>5
<1>7. ASSUME NEW n \in 1 .. m PROVE z[l + n] = y[n]
  <2>1. l + n \in 1 .. l + m /\ ~(l + n <= l) /\ (l + n) - l = n
    OBVIOUS
  <2> QED
    BY <1>4, <1>5, <2>1
<1>8. ASSUME NEW n \in 1 .. l + m PROVE n \in 1 .. l \/ \E k \in 1 .. m : n = l + k
  <2>1. CASE n <= l
    BY <2>1
  <2>2. CASE ~(n <= l)
    <3>1. n - l \in 1 .. m /\ n = l + (n - l)
      BY <2>2
    <3> QED
      BY <3>1
  <2> QED
    BY <2>1, <2>2
<1>9. \A n \in 1 .. m : l + n \in 1 .. l + m
  OBVIOUS
<1>10. \A n \in 1 .. l : n \in 1 .. l + m
  OBVIOUS
<1>11. Elems(z) = Elems(x) \cup Elems(y)
  <2>1. ASSUME NEW e \in Elems(z) PROVE e \in Elems(x) \cup Elems(y)
    <3>1. PICK n \in 1 .. l + m : e = z[n]
      BY <1>5 DEF Elems
    <3>2. CASE n \in 1 .. l
      BY <1>2, <1>6, <3>1, <3>2 DEF Elems
    <3>3. CASE n \notin 1 .. l
      <4>1. PICK k \in 1 .. m : n = l + k
        BY <1>8, <3>3
      <4>2. e = y[k]
        BY <1>7, <3>1, <4>1
      <4> QED
        BY <1>2, <4>2 DEF Elems
    <3> QED
      BY <3>2, <3>3
  <2>2. ASSUME NEW e \in Elems(x) PROVE e \in Elems(z)
    BY <1>2, <1>5, <1>6, <1>10 DEF Elems
  <2>3. ASSUME NEW e \in Elems(y) PROVE e \in Elems(z)
    BY <1>2, <1>5, <1>7, <1>9 DEF Elems
  <2> QED
    BY <2>1, <2>2, <2>3
<1> QED
  BY <1>1, <1>2, <1>3, <1>5, <1>6, <1>7, <1>11

(* Distinct sequences with no element in common.                           *)
LEMMA ConcatDistinct ==
    ASSUME NEW S, NEW x \in Seq(S), NEW y \in Seq(S), Distinct(x), Distinct(y), Elems(x) \cap Elems(y) = {}
    PROVE  Distinct(x \o y)
<1>1. PICK z : z = x \o y
  OBVIOUS
<1>2. PICK l \in Nat, m \in Nat : l = Len(x) /\ m = Len(y)
  OBVIOUS
<1>3. /\ DOMAIN x = 1 .. l /\ DOMAIN y = 1 .. m /\ DOMAIN z = 1 .. l + m
      /\ \A n \in 1 .. l : z[n] = x[n]
      /\ \A n \in 1 .. m : z[l + n] = y[n]
  BY <1>1, <1>2, ConcatElems
<1>4. ASSUME NEW n \in 1 .. l + m PROVE n \in 1 .. l \/ (n - l \in 1 .. m /\ n = l + (n - l))
  OBVIOUS
<1>5. ASSUME NEW i \in 1 .. l + m, NEW j \in 1 .. l + m, z[i] = z[j] PROVE i = j
  <2>1. CASE i \in 1 .. l /\ j \in 1 .. l
    BY <1>3, <1>5, <2>1 DEF Distinct
  <2>2. CASE i \in 1 .. l /\ j \notin 1 .. l
    <3>1. PICK k \in 1 .. m : j = l + k
      BY <1>4, <2>2
    <3> QED
      BY <1>3, <1>5, <2>2, <3>1 DEF Elems
  <2>3. CASE i \notin 1 .. l /\ j \in 1 .. l
    <3>1. PICK k \in 1 .. m : i = l + k
      BY <1>4, <2>3
    <3> QED
      BY <1>3, <1>5, <2>3, <3>1 DEF Elems
  <2>4. CASE i \notin 1 .. l /\ j \notin 1 .. l
    <3>1. PICK k \in 1 .. m : i = l + k
      BY <1>4, <2>4
    <3>2. PICK h \in 1 .. m : j = l + h
      BY <1>4, <2>4
    <3>3. k = h
      BY <1>3, <1>5, <3>1, <3>2 DEF Distinct
    <3> QED
      BY <3>1, <3>2, <3>3
  <2> QED
    BY <2>1, <2>2, <2>3, <2>4
<1> QED
  BY <1>1, <1>3, <1>5 DEF Distinct

(* The sequence of nothing.                                                *)
LEMMA EmptyElems == Elems(<<>>) = {} /\ Distinct(<<>>) /\ DOMAIN <<>> = {}
<1>1. DOMAIN <<>> = {}
  OBVIOUS
<1> QED
  BY <1>1 DEF Elems, Distinct

(* The rows that a shuffle leads to an instance.                           *)
LEMMA ShuffledElems ==
    ASSUME NEW rows \in Seq(RowType), NEW i
    PROVE  /\ Elems(Shuffled(rows, i)) = {r \in Elems(rows) : slot[r.key] = i}
           /\ Distinct(rows) => Distinct(Shuffled(rows, i))
<1>1. PICK N \in Nat : DOMAIN rows = 1 .. N
  OBVIOUS
<1>2. PICK P : P = {n \in DOMAIN rows : slot[rows[n].key] = i}
  OBVIOUS
<1>3. P \in SUBSET (1 .. N)
  BY <1>1, <1>2
<1>4. Shuffled(rows, i) = At(rows, P)
  BY <1>2 DEF Shuffled
<1>5. /\ {At(rows, P)[n] : n \in DOMAIN At(rows, P)} = {rows[m] : m \in P}
      /\ Distinct(rows) => Distinct(At(rows, P))
  BY <1>1, <1>3, AtElements
<1>7. Elems(At(rows, P)) = {rows[m] : m \in P}
  BY <1>5, Zenon DEF Elems
<1>6. {rows[m] : m \in P} = {r \in Elems(rows) : slot[r.key] = i}
  BY <1>2, Zenon DEF Elems
<1> QED
  BY <1>4, <1>5, <1>6, <1>7

(* The parts of a split have the rows, each of them in one part.           *)
LEMMA SplitElems ==
    ASSUME NEW N \in Nat, N >= 1, plan.instances = N, Instance = 1 .. N, NEW rows \in Seq(RowType)
    PROVE  /\ UNION {Elems(SplitArray(rows)[i].rows) : i \in Instance} = Elems(rows)
           /\ Distinct(rows) => \A i \in Instance :
                /\ Distinct(SplitArray(rows)[i].rows)
                /\ \A j \in Instance : i # j => Elems(SplitArray(rows)[i].rows) \cap Elems(SplitArray(rows)[j].rows) = {}
<1>1. PICK l \in Nat : l = Len(rows) /\ DOMAIN rows = 1 .. l
  OBVIOUS
<1>2. PICK size \in Int : size = l \div N
  OBVIOUS
<1>3. size >= 0 /\ N * size <= l
  BY <1>2
<1> DEFINE lo(i) == (i - 1) * size
<1> DEFINE hi(i) == IF i < N THEN i * size ELSE l
<1>4. ASSUME NEW i \in 1 .. N
      PROVE  lo(i) \in Nat /\ hi(i) \in Nat /\ lo(i) <= hi(i) /\ hi(i) <= l
  <2>1. i * size \in Int /\ (i - 1) * size \in Int /\ (i - 1) * size = i * size - size
    OBVIOUS
  <2>2. i * size <= N * size /\ (i - 1) * size >= 0
    BY <1>3
  <2> QED
    BY <1>3, <2>1, <2>2
<1>5. ASSUME NEW i \in 1 .. N, NEW j \in 1 .. N, i < j PROVE hi(i) <= lo(j)
  <2>1. i * size \in Int /\ (j - 1) * size \in Int /\ i <= j - 1 /\ i < N
    BY <1>5
  <2>2. i * size <= (j - 1) * size
    BY <1>3, <2>1
  <2> QED
    BY <2>1, <2>2
<1>6. ASSUME NEW i \in 1 .. N
      PROVE  \E p \in Seq(RowType) :
               /\ p = SplitArray(rows)[i].rows /\ DOMAIN p = 1 .. hi(i) - lo(i)
               /\ \A n \in 1 .. hi(i) - lo(i) : p[n] = rows[lo(i) + n]
  <2>1. PICK a \in Nat, b \in Nat : a = lo(i) /\ b = hi(i) /\ a <= b /\ b <= l
    BY <1>4
  <2>2. SplitArray(rows)[i].rows = SubSeq(rows, a + 1, b)
    BY <1>1, <1>2, <2>1, BufferFacts DEF SplitArray, Some
  <2>3. a + 1 \in 1 .. Len(rows) + 1 /\ b \in (a + 1) - 1 .. Len(rows)
    BY <1>1, <2>1
  <2>4. /\ SubSeq(rows, a + 1, b) \in Seq(RowType)
        /\ Len(SubSeq(rows, a + 1, b)) = b - (a + 1) + 1
        /\ \A n \in 1 .. b - (a + 1) + 1 : SubSeq(rows, a + 1, b)[n] = rows[(a + 1) + n - 1]
    BY <2>3, SubSeqProperties
  <2>5. PICK p \in Seq(RowType) : p = SubSeq(rows, a + 1, b)
    BY <2>4
  <2>6. b - (a + 1) + 1 = b - a /\ \A n \in 1 .. b - a : (a + 1) + n - 1 = a + n
    BY <2>1
  <2>7. Len(p) = b - a /\ DOMAIN p = 1 .. b - a /\ \A n \in 1 .. b - a : p[n] = rows[a + n]
    BY <2>4, <2>5, <2>6
  <2> QED
    BY <2>1, <2>2, <2>5, <2>7
<1>7. ASSUME NEW n \in 1 .. l PROVE \E i \in 1 .. N : lo(i) < n /\ n <= hi(i)
  <2> DEFINE T == {i \in 1 .. N : n <= hi(i)}
  <2>1. N \in T
    OBVIOUS
  <2>2. T \in SUBSET Nat /\ T # {}
    <3> HIDE DEF hi
    <3> QED
      BY <2>1
  <2> HIDE DEF T
  <2>3. PICK i \in T : \A y \in T : ~(y < i)
    BY <2>2, Least
  <2>4. i \in 1 .. N /\ n <= hi(i)
    BY DEF T
  <2>5. CASE i = 1
    <3>1. lo(i) = 0
      BY <2>5
    <3> QED
      BY <2>4, <3>1
  <2>6. CASE i # 1
    <3>1. i - 1 \in 1 .. N /\ i - 1 < i /\ i - 1 < N
      BY <2>4, <2>6
    <3>2. ~(n <= hi(i - 1))
      BY <2>3, <3>1 DEF T
    <3>3. hi(i - 1) = lo(i) /\ lo(i) \in Nat
      BY <1>4, <2>4, <3>1
    <3>4. hi(i - 1) < n
      BY <1>4, <3>1, <3>2
    <3> HIDE DEF lo, hi
    <3> QED
      BY <2>4, <3>3, <3>4
  <2> QED
    BY <2>5, <2>6
<1> HIDE DEF lo, hi
<1> DEFINE p(i) == SplitArray(rows)[i].rows
<1>8. ASSUME NEW i \in 1 .. N
      PROVE  /\ DOMAIN p(i) = 1 .. hi(i) - lo(i)
             /\ \A n \in 1 .. hi(i) - lo(i) : p(i)[n] = rows[lo(i) + n]
  BY <1>6
<1> HIDE DEF p
<1>9. \A i \in 1 .. N : \A e : e \in Elems(p(i)) <=> \E n \in 1 .. l : lo(i) < n /\ n <= hi(i) /\ e = rows[n]
  <2> TAKE i \in 1 .. N
  <2>1. PICK a \in Nat, b \in Nat : a = lo(i) /\ b = hi(i) /\ a <= b /\ b <= l
    BY <1>4
  <2>2. DOMAIN p(i) = 1 .. b - a /\ \A n \in 1 .. b - a : p(i)[n] = rows[a + n]
    BY <1>8, <2>1
  <2>3. \A n \in 1 .. b - a : a + n \in 1 .. l /\ a < a + n /\ a + n <= b
    BY <2>1
  <2>4. \A n \in 1 .. l : a < n /\ n <= b => n - a \in 1 .. b - a /\ a + (n - a) = n
    BY <2>1
  <2>5. \A e : e \in Elems(p(i)) <=> \E n \in 1 .. b - a : e = rows[a + n]
    BY <2>2 DEF Elems
  <2>6. \A e : (\E n \in 1 .. b - a : e = rows[a + n]) <=> \E n \in 1 .. l : a < n /\ n <= b /\ e = rows[n]
    <3> TAKE e
    <3>1. ASSUME NEW n \in 1 .. b - a, e = rows[a + n] PROVE \E h \in 1 .. l : a < h /\ h <= b /\ e = rows[h]
      BY <2>3, <3>1
    <3>2. ASSUME NEW n \in 1 .. l, a < n, n <= b, e = rows[n] PROVE \E h \in 1 .. b - a : e = rows[a + h]
      BY <2>4, <3>2
    <3> QED
      BY <3>1, <3>2
  <2> QED
    <3> TAKE e
    <3>1. e \in Elems(p(i)) <=> \E n \in 1 .. l : a < n /\ n <= b /\ e = rows[n]
      BY <2>5, <2>6
    <3> QED
      BY <2>1, <3>1
<1>10. UNION {Elems(p(i)) : i \in Instance} = Elems(rows)
  <2>1. \A e : e \in Elems(rows) <=> \E n \in 1 .. l : e = rows[n]
    BY <1>1 DEF Elems
  <2>2. \A e : e \in Elems(rows) <=> \E i \in Instance : e \in Elems(p(i))
    BY <1>7, <1>9, <2>1
  <2> QED
    BY <2>2
<1>11. ASSUME Distinct(rows), NEW i \in Instance PROVE Distinct(p(i))
  <2>1. PICK a \in Nat, b \in Nat : a = lo(i) /\ b = hi(i) /\ a <= b /\ b <= l
    BY <1>4
  <2>2. DOMAIN p(i) = 1 .. b - a /\ \A n \in 1 .. b - a : p(i)[n] = rows[a + n]
    BY <1>8, <2>1
  <2>3. ASSUME NEW m \in 1 .. b - a, NEW n \in 1 .. b - a, p(i)[m] = p(i)[n] PROVE m = n
    <3>1. a + m \in 1 .. l /\ a + n \in 1 .. l /\ rows[a + m] = rows[a + n]
      <4>0. a <= b /\ b <= l
        BY <2>1
      <4>1. \A h \in 1 .. b - a : a + h \in 1 .. l
        BY ONLY <4>0, a \in Nat, b \in Nat, l \in Nat
      <4> QED
        BY <2>2, <2>3, <4>1
    <3>2. a + m = a + n
      BY <1>1, <1>11, <3>1 DEF Distinct
    <3> QED
      BY <3>2
  <2> QED
    BY <2>2, <2>3 DEF Distinct
<1>12. ASSUME Distinct(rows), NEW i \in Instance, NEW j \in Instance, i # j
       PROVE  Elems(p(i)) \cap Elems(p(j)) = {}
  <2> SUFFICES ASSUME NEW e, e \in Elems(p(i)), e \in Elems(p(j)) PROVE FALSE
    OBVIOUS
  <2>1. PICK m \in 1 .. l : lo(i) < m /\ m <= hi(i) /\ e = rows[m]
    BY <1>9
  <2>2. PICK n \in 1 .. l : lo(j) < n /\ n <= hi(j) /\ e = rows[n]
    BY <1>9
  <2>3. m = n
    BY <1>1, <1>12, <2>1, <2>2 DEF Distinct
  <2>4. lo(i) \in Nat /\ hi(i) \in Nat /\ lo(j) \in Nat /\ hi(j) \in Nat
    BY <1>4
  <2>5. CASE i < j
    BY <1>5, <2>1, <2>2, <2>3, <2>4, <2>5
  <2>6. CASE j < i
    BY <1>5, <2>1, <2>2, <2>3, <2>4, <2>6
  <2> QED
    BY <1>12, <2>5, <2>6
<1> QED
  BY <1>10, <1>11, <1>12 DEF p

(* Bags.                                                                   *)
LEMMA OnceSum ==
    ASSUME NEW b, NEW c, NEW S, NEW T, OnceEach(b, S), OnceEach(c, T), S \cap T = {}
    PROVE  OnceEach(b (+) c, S \cup T)
<1>1. DOMAIN b = S /\ DOMAIN c = T /\ (\A x \in S : b[x] = 1) /\ (\A x \in T : c[x] = 1)
  BY DEF OnceEach
<1>2. b (+) c = [e \in S \cup T |-> (IF e \in S THEN b[e] ELSE 0) + (IF e \in T THEN c[e] ELSE 0)]
  BY <1>1, Zenon DEF (+)
<1>3. ASSUME NEW e \in S \cup T PROVE (IF e \in S THEN b[e] ELSE 0) + (IF e \in T THEN c[e] ELSE 0) = 1
  BY <1>1
<1>4. PICK z : z = b (+) c
  OBVIOUS
<1>5. DOMAIN z = S \cup T /\ \A e \in S \cup T : z[e] = 1
  BY <1>2, <1>3, <1>4
<1> QED
  BY <1>4, <1>5 DEF OnceEach

(* A set as a bag, and the empty bag.                                      *)
LEMMA OnceSet == \A S : OnceEach(SetToBag(S), S)
  BY DEF OnceEach, SetToBag

LEMMA OnceNone == OnceEach(EmptyBag, {})
  BY OnceSet DEF EmptyBag

(* The joined rows of distinct rows.                                       *)
LEMMA JoinedOnce ==
    ASSUME NEW side \in Side, NEW new, NEW old, Distinct(new), Distinct(old)
    PROVE  OnceEach(Joined(side, new, old),
                    IF side = "left" THEN Meeting(Elems(new), Elems(old)) ELSE Meeting(Elems(old), Elems(new)))
<1> DEFINE f(x) == Pair(side, new[x[1]], old[x[2]])
<1> DEFINE M == Meets(new, old)
<1> DEFINE J == Joined(side, new, old)
<1>1. J = [p \in {f(x) : x \in M} |-> Cardinality({x \in M : f(x) = p})]
  BY Zenon DEF Joined
<1>2. \A x : x \in M <=> x \in (DOMAIN new) \X (DOMAIN old) /\ new[x[1]].key = old[x[2]].key
  BY DEF Meets
<1>3. ASSUME NEW x \in M, NEW y \in M, f(x) = f(y) PROVE x = y
  <2>1. new[x[1]] = new[y[1]] /\ old[x[2]] = old[y[2]]
    BY <1>3 DEF Pair
  <2>2. x[1] = y[1] /\ x[2] = y[2]
    BY <1>2, <2>1 DEF Distinct
  <2> QED
    BY <1>2, <2>2
<1> HIDE DEF f, M, J
<1>4. ASSUME NEW p \in {f(x) : x \in M} PROVE Cardinality({x \in M : f(x) = p}) = 1
  <2>1. PICK x \in M : p = f(x)
    OBVIOUS
  <2>2. {y \in M : f(y) = p} = {x}
    BY <1>3, <2>1
  <2> QED
    BY <2>2, FS_Singleton
<1>5. \A p : p \in {f(x) : x \in M}
        <=> p \in IF side = "left" THEN Meeting(Elems(new), Elems(old)) ELSE Meeting(Elems(old), Elems(new))
  <2>1. \A p : p \in {f(x) : x \in M}
          <=> \E a \in DOMAIN new, b \in DOMAIN old : new[a].key = old[b].key /\ p = Pair(side, new[a], old[b])
    <3> TAKE p
    <3>1. ASSUME NEW x \in M, p = f(x)
          PROVE  \E a \in DOMAIN new, b \in DOMAIN old : new[a].key = old[b].key /\ p = Pair(side, new[a], old[b])
      BY <1>2, <3>1 DEF f
    <3>2. ASSUME NEW a \in DOMAIN new, NEW b \in DOMAIN old, new[a].key = old[b].key, p = Pair(side, new[a], old[b])
          PROVE  p \in {f(x) : x \in M}
      <4>1. <<a, b>> \in M
        BY <1>2, <3>2
      <4>2. p = f(<<a, b>>)
        BY <3>2 DEF f
      <4> QED
        BY <4>1, <4>2
    <3> QED
      BY <3>1, <3>2
  <2>2. CASE side = "left"
    <3>1. \A p : p \in Meeting(Elems(new), Elems(old))
            <=> \E a \in DOMAIN new, b \in DOMAIN old : new[a].key = old[b].key /\ p = <<new[a], old[b]>>
      BY DEF Meeting, Elems
    <3> QED
      BY <2>1, <2>2, <3>1 DEF Pair
  <2>3. CASE side # "left"
    <3>1. \A p : p \in Meeting(Elems(old), Elems(new))
            <=> \E a \in DOMAIN new, b \in DOMAIN old : new[a].key = old[b].key /\ p = <<old[b], new[a]>>
      BY DEF Meeting, Elems
    <3> QED
      BY <2>1, <2>3, <3>1 DEF Pair
  <2> QED
    BY <2>2, <2>3
<1>6. \A p \in {f(x) : x \in M} : J[p] = 1
  BY <1>1, <1>4
<1>7. DOMAIN J = {f(x) : x \in M}
  BY <1>1
<1>8. {f(x) : x \in M} = IF side = "left" THEN Meeting(Elems(new), Elems(old)) ELSE Meeting(Elems(old), Elems(new))
  BY <1>5, Zenon
<1> QED
  BY <1>6, <1>7, <1>8 DEF OnceEach, J

(* A set of positions has a last one.                                      *)
LEMMA Largest ==
    ASSUME NEW N \in Nat, NEW P \in SUBSET (1 .. N), P # {}
    PROVE  \E a \in P : \A b \in P : a >= b
<1> DEFINE T == {N - a : a \in P}
<1>1. T \in SUBSET Nat /\ T # {}
  <2>1. \A a \in P : N - a \in Nat
    OBVIOUS
  <2>2. T \subseteq Nat
    BY <2>1
  <2> QED
    BY <2>2
<1> HIDE DEF T
<1>2. PICK x \in T : \A y \in T : ~(y < x)
  BY <1>1, Least
<1>3. PICK a \in P : x = N - a
  BY DEF T
<1>4. ASSUME NEW b \in P PROVE a >= b
  <2>1. N - b \in T
    BY DEF T
  <2>2. ~(N - b < N - a)
    BY <1>2, <1>3, <2>1
  <2>3. a \in Int /\ b \in Int
    OBVIOUS
  <2> QED
    BY <2>2, <2>3
<1> QED
  BY <1>4

(* With no offset it finds the build rows that meet a probe row: a row     *)
(* found before brought all the others of its key.                         *)
LEMMA SemiExact ==
    ASSUME NEW build \in Seq(RowType), NEW probe \in Seq(RowType)
    PROVE  SemiMatched(build, probe, 0) = Hits(build, Elems(probe))
<1>1. PICK L \in Nat : L = Len(probe) /\ DOMAIN probe = 1 .. L
  OBVIOUS
<1>2. PICK N \in Nat : DOMAIN build = 1 .. N
  OBVIOUS
<1>a. PICK g : SemiLoop(g, build, probe, 0, L)
  BY <1>1, SemiSteps
<1>3. /\ SemiMatched(build, probe, 0) = g[L] /\ g[0] = {}
      /\ \A n \in 1 .. L : g[n] = SemiStep(build, probe, 0, g[n - 1], n)
  BY <1>a DEF SemiLoop
<1> DEFINE F(n) == {a \in DOMAIN build : \E m \in 1 .. n : probe[m].key = build[a].key}
<1> DEFINE S == {n \in Nat : n <= L => g[n] = F(n)}
<1>4. 0 \in S
  <2>1. 1 .. 0 = {}
    OBVIOUS
  <2> QED
    BY <1>3, <2>1
<1>5. ASSUME NEW n \in Nat, n \in S PROVE n + 1 \in S
  <2> SUFFICES ASSUME n + 1 <= L PROVE g[n + 1] = F(n + 1)
    OBVIOUS
  <2>1. g[n] = F(n) /\ n + 1 \in 1 .. L /\ (n + 1) - 1 = n
    BY <1>5
  <2>2. PICK m \in Nat : m = n + 1
    OBVIOUS
  <2>3. g[m] = SemiStep(build, probe, 0, F(n), m)
    BY <1>3, <2>1, <2>2
  <2>4. \A k : k \in 1 .. m <=> k \in 1 .. n \/ k = m
    BY <2>2
  <2> DEFINE R == SemiRows(build, probe, m)
  <2>5. \A a : a \in R <=> a \in DOMAIN build /\ build[a].key = probe[m].key
    BY DEF SemiRows
  <2>6. \A a : a \in F(m) <=> a \in F(n) \/ a \in R
    BY <2>4, <2>5
  <2>7. \A a \in R : a \in F(n) => R \subseteq F(n)
    BY <2>5
  <2> DEFINE first == CHOOSE a \in R : \A b \in R : a >= b
  <2>8. R # {} => first \in R
    <3>1. R \in SUBSET (1 .. N)
      BY <1>2, <2>5
    <3> HIDE DEF R
    <3>2. R # {} => \E a \in R : \A b \in R : a >= b
      BY <3>1, Largest
    <3> QED
      BY <3>2, Zenon
  <2>9. {0 + a : a \in R} = R
    <3>1. \A a \in R : 0 + a = a
      BY <1>2, <2>5
    <3> HIDE DEF R
    <3> QED
      BY <3>1
  <2>10. g[m] = IF R = {} \/ first \in F(n) THEN F(n) ELSE F(n) \cup {0 + a : a \in R}
    BY <2>3, Zenon DEF SemiStep
  <2> HIDE DEF R, first, F
  <2>11. g[m] = F(m)
    BY <2>6, <2>7, <2>8, <2>9, <2>10
  <2> QED
    BY <2>2, <2>11
<1> HIDE DEF S
<1>6. L \in S
  BY <1>4, <1>5, Induction
<1>7. g[L] = F(L)
  BY <1>6 DEF S
<1>8. F(L) = Hits(build, Elems(probe))
  BY <1>1 DEF Hits, Elems
<1> QED
  BY <1>3, <1>7, <1>8

-----------------------------------------------------------------------------
(* What the kernels compute.                                               *)

(* Joining a tuple set, as an equation for what it adds.                   *)
Adds(s, side, new, old, off) ==
    IF s = side THEN {off + a : a \in Hits(new, Elems(old))} ELSE Hits(old, Elems(new))

JoinedRows(side, k, new, old, off, r) ==
    /\ plan.kind # "semi" => r.out = k.out (+) Joined(side, new, old)
    /\ \A s \in Side : Marks(s) => r.matched[s] = k.matched[s] \cup Adds(s, side, new, old, off)

(* What a kernel adds when rows arrive: the joined rows, and the positions *)
(* of the rows that met one. Of a semi join this holds only when the rows  *)
(* of the left side that arrive are the first ones.                        *)
LEMMA JoinIncomingAdds ==
    ASSUME NEW side \in Side, NEW k, DOMAIN k = Fields, k.matched \in [Side -> SUBSET Nat],
           NEW new \in Seq(RowType), NEW old \in Seq(RowType),
           old = IF k[Other(side)] = 0 THEN <<>> ELSE tuples[k[Other(side)]],
           NEW off \in Nat, off = Offset(side, k, new),
           plan.kind = "semi" /\ side = "left" => off = 0,
           NEW r, r = JoinIncoming(side, k, new)
    PROVE  JoinedRows(side, k, new, old, off, r)
<1> USE DEF JoinedRows
<1>1. DOMAIN new \subseteq Nat /\ DOMAIN old \subseteq Nat
  OBVIOUS
<1>2. CASE plan.kind = "semi"
  <2> DEFINE semi == IF side = "left" THEN SemiMatched(new, old, off) ELSE SemiMatched(old, new, 0)
  <2>1. r = [k EXCEPT !.matched["left"] = @ \cup semi]
    BY <1>2, Zenon DEF JoinIncoming
  <2>2. semi = Adds("left", side, new, old, off)
    <3>1. CASE side = "left"
      <4>1. semi = Hits(new, Elems(old)) /\ off = 0
        BY <1>2, <3>1, SemiExact
      <4>2. {off + a : a \in Hits(new, Elems(old))} = Hits(new, Elems(old))
        <5>1. \A a \in Hits(new, Elems(old)) : off + a = a
          BY <1>1, <4>1 DEF Hits
        <5> QED
          BY <5>1
      <4> QED
        BY <3>1, <4>1, <4>2 DEF Adds
    <3>2. CASE side # "left"
      BY <3>2, SemiExact DEF Adds
    <3> QED
      BY <3>1, <3>2
  <2> HIDE DEF semi
  <2>3. r.matched = [k.matched EXCEPT !["left"] = @ \cup semi]
    BY <2>1 DEF Fields
  <2>4. r.matched["left"] = k.matched["left"] \cup semi
    BY <2>3 DEF Side
  <2> QED
    BY <1>2, <2>2, <2>4 DEF Marks
<1>3. CASE plan.kind # "semi"
  <2> DEFINE found(s) == {IF s = side THEN off + x[1] ELSE x[2] : x \in IF plan[s] THEN Meets(new, old) ELSE {}}
  <2>1. PICK m : m = [s \in Side |-> k.matched[s] \cup found(s)]
    OBVIOUS
  <2>2. r = [k EXCEPT !.out = @ (+) Joined(side, new, old), !.matched = m]
    BY <1>3, <2>1, ZenonT(60) DEF JoinIncoming
  <2>3. \A x : x \in Meets(new, old) <=> x \in (DOMAIN new) \X (DOMAIN old) /\ new[x[1]].key = old[x[2]].key
    BY DEF Meets
  <2>4. ASSUME NEW s \in Side, plan[s] PROVE found(s) = Adds(s, side, new, old, off)
    <3>0. found(s) = {IF s = side THEN off + x[1] ELSE x[2] : x \in Meets(new, old)}
      BY <2>4
    <3>1. CASE s = side
      <4>1. found(s) = {off + x[1] : x \in Meets(new, old)}
        BY <3>0, <3>1
      <4>2. \A a : a \in Hits(new, Elems(old)) <=> \E x \in Meets(new, old) : a = x[1]
        <5> TAKE a
        <5>1. ASSUME a \in Hits(new, Elems(old)) PROVE \E x \in Meets(new, old) : a = x[1]
          <6>1. PICK b \in DOMAIN old : a \in DOMAIN new /\ old[b].key = new[a].key
            BY <5>1 DEF Hits, Elems
          <6>2. <<a, b>> \in Meets(new, old) /\ <<a, b>>[1] = a
            BY <2>3, <6>1
          <6> QED
            BY <6>2
        <5>2. ASSUME NEW x \in Meets(new, old), a = x[1] PROVE a \in Hits(new, Elems(old))
          BY <2>3, <5>2 DEF Hits, Elems
        <5> QED
          BY <5>1, <5>2
      <4> QED
        BY <3>1, <4>1, <4>2 DEF Adds
    <3>2. CASE s # side
      <4>1. found(s) = {x[2] : x \in Meets(new, old)}
        BY <3>0, <3>2
      <4>2. \A a : a \in Hits(old, Elems(new)) <=> \E x \in Meets(new, old) : a = x[2]
        <5> TAKE a
        <5>1. ASSUME a \in Hits(old, Elems(new)) PROVE \E x \in Meets(new, old) : a = x[2]
          <6>1. PICK b \in DOMAIN new : a \in DOMAIN old /\ new[b].key = old[a].key
            BY <5>1 DEF Hits, Elems
          <6>2. <<b, a>> \in Meets(new, old) /\ <<b, a>>[2] = a
            BY <2>3, <6>1
          <6> QED
            BY <6>2
        <5>2. ASSUME NEW x \in Meets(new, old), a = x[2] PROVE a \in Hits(old, Elems(new))
          BY <2>3, <5>2 DEF Hits, Elems
        <5> QED
          BY <5>1, <5>2
      <4> QED
        <5>1. {x[2] : x \in Meets(new, old)} = Hits(old, Elems(new))
          BY <4>2
        <5>2. Adds(s, side, new, old, off) = Hits(old, Elems(new))
          BY <3>2 DEF Adds
        <5> QED
          BY <4>1, <5>1, <5>2
    <3> QED
      BY <3>1, <3>2
  <2> HIDE DEF found
  <2>5. r.matched = m /\ r.out = k.out (+) Joined(side, new, old)
    BY <2>2 DEF Fields
  <2>6. \A s \in Side : m[s] = k.matched[s] \cup found(s)
    BY <2>1
  <2> QED
    BY <1>3, <2>4, <2>5, <2>6 DEF Marks
<1> QED
  BY <1>2, <1>3

(* The rows found of a sequence that has grown.                            *)
LEMMA HitsConcat ==
    ASSUME NEW x \in Seq(RowType), NEW y \in Seq(RowType), NEW S
    PROVE  Hits(x \o y, S) = Hits(x, S) \cup {Len(x) + a : a \in Hits(y, S)}
<1>1. PICK l \in Nat, m \in Nat : l = Len(x) /\ m = Len(y)
  OBVIOUS
<1>2. PICK z : z = x \o y
  OBVIOUS
<1>3. /\ DOMAIN x = 1 .. l /\ DOMAIN y = 1 .. m /\ DOMAIN z = 1 .. l + m
      /\ \A n \in 1 .. l : z[n] = x[n]
      /\ \A n \in 1 .. m : z[l + n] = y[n]
  BY <1>1, <1>2, ConcatElems
<1>4. ASSUME NEW a PROVE a \in Hits(z, S) <=> a \in Hits(x, S) \/ \E b \in Hits(y, S) : a = l + b
  <2>1. ASSUME a \in Hits(z, S) PROVE a \in Hits(x, S) \/ \E b \in Hits(y, S) : a = l + b
    <3>1. a \in 1 .. l + m
      BY <1>3, <2>1 DEF Hits
    <3>2. CASE a \in 1 .. l
      BY <1>3, <2>1, <3>2 DEF Hits
    <3>3. CASE a \notin 1 .. l
      <4>1. PICK b \in 1 .. m : a = l + b
        <5>1. a - l \in 1 .. m /\ a = l + (a - l)
          BY <3>1, <3>3
        <5> QED
          BY <5>1
      <4>2. z[a] = y[b]
        BY <1>3, <4>1
      <4>3. b \in Hits(y, S)
        BY <1>3, <2>1, <4>2 DEF Hits
      <4> QED
        BY <4>1, <4>3
    <3> QED
      BY <3>2, <3>3
  <2>2. ASSUME a \in Hits(x, S) PROVE a \in Hits(z, S)
    <3>1. a \in 1 .. l /\ a \in 1 .. l + m
      BY <1>3, <2>2 DEF Hits
    <3> QED
      BY <1>3, <2>2, <3>1 DEF Hits
  <2>3. ASSUME NEW b \in Hits(y, S), a = l + b PROVE a \in Hits(z, S)
    <3>1. b \in 1 .. m
      BY <1>3 DEF Hits
    <3>2. l + b \in 1 .. l + m /\ z[l + b] = y[b]
      BY <1>3, <3>1
    <3> QED
      BY <1>3, <2>3, <3>2 DEF Hits
  <2> QED
    BY <2>1, <2>2, <2>3
<1> QED
  BY <1>1, <1>2, <1>4

(* More rows of one side.                                                  *)
LEMMA MeetingGrows ==
    ASSUME NEW A, NEW B, NEW C
    PROVE  /\ Meeting(A \cup B, C) = Meeting(A, C) \cup Meeting(B, C)
           /\ Meeting(C, A \cup B) = Meeting(C, A) \cup Meeting(C, B)
           /\ A \cap B = {} => Meeting(A, C) \cap Meeting(B, C) = {} /\ Meeting(C, A) \cap Meeting(C, B) = {}
<1>1. \A x, L, R : x \in Meeting(L, R) <=> x \in L \X R /\ x[1].key = x[2].key
  BY DEF Meeting
<1>2. Meeting(A \cup B, C) = Meeting(A, C) \cup Meeting(B, C)
  <2>1. \A x : x \in Meeting(A \cup B, C) <=> x \in Meeting(A, C) \/ x \in Meeting(B, C)
    BY <1>1
  <2> QED
    BY <2>1
<1>3. Meeting(C, A \cup B) = Meeting(C, A) \cup Meeting(C, B)
  <2>1. \A x : x \in Meeting(C, A \cup B) <=> x \in Meeting(C, A) \/ x \in Meeting(C, B)
    BY <1>1
  <2> QED
    BY <2>1
<1>4. ASSUME A \cap B = {}, NEW x \in Meeting(A, C) \cap Meeting(B, C) PROVE FALSE
  <2>1. x[1] \in A /\ x[1] \in B
    BY <1>1
  <2> QED
    BY <1>4, <2>1
<1>5. ASSUME A \cap B = {}, NEW x \in Meeting(C, A) \cap Meeting(C, B) PROVE FALSE
  <2>1. x[2] \in A /\ x[2] \in B
    BY <1>1
  <2> QED
    BY <1>5, <2>1
<1> QED
  BY <1>2, <1>3, <1>4, <1>5

(* Rows that met rows of S or of T.                                        *)
LEMMA HitsGrow ==
    ASSUME NEW x, NEW S, NEW T PROVE Hits(x, S \cup T) = Hits(x, S) \cup Hits(x, T)
  BY DEF Hits

(* A new tuple set of the left side, and one of the right side.            *)
LEMMA GrownLeft ==
    ASSUME NEW out, NEW matched, NEW x \in Seq(RowType), NEW y \in Seq(RowType), NEW new \in Seq(RowType),
           Distinct(new), Distinct(y), Elems(x) \cap Elems(new) = {}, ExactRun(out, matched, x, y),
           NEW o, NEW m, plan.kind # "semi" => o = out (+) Joined("left", new, y),
           \A s \in Side : Marks(s) => m[s] = matched[s] \cup Adds(s, "left", new, y, Len(x))
    PROVE  ExactRun(o, m, x \o new, y)
<1>1. Elems(x \o new) = Elems(x) \cup Elems(new)
  BY ConcatElems
<1>2. ASSUME plan.kind # "semi" PROVE OnceEach(o, Meeting(Elems(x \o new), Elems(y)))
  <2>1. OnceEach(Joined("left", new, y), Meeting(Elems(new), Elems(y)))
    <3>1. "left" \in Side
      BY DEF Side
    <3> QED
      BY <3>1, JoinedOnce
  <2>2. OnceEach(out, Meeting(Elems(x), Elems(y)))
    BY <1>2 DEF ExactRun
  <2>3. PICK A, B, C : A = Elems(x) /\ B = Elems(new) /\ C = Elems(y) /\ A \cap B = {}
    OBVIOUS
  <2>4. Meeting(A \cup B, C) = Meeting(A, C) \cup Meeting(B, C) /\ Meeting(A, C) \cap Meeting(B, C) = {}
    <3>1. /\ Meeting(A \cup B, C) = Meeting(A, C) \cup Meeting(B, C)
          /\ Meeting(C, A \cup B) = Meeting(C, A) \cup Meeting(C, B)
          /\ A \cap B = {} => Meeting(A, C) \cap Meeting(B, C) = {} /\ Meeting(C, A) \cap Meeting(C, B) = {}
      BY ONLY MeetingGrows
    <3> QED
      BY <2>3, <3>1
  <2>5. OnceEach(out (+) Joined("left", new, y), Meeting(A, C) \cup Meeting(B, C))
    BY <2>1, <2>2, <2>3, <2>4, OnceSum
  <2> QED
    BY <1>1, <1>2, <2>3, <2>4, <2>5
<1>3. ASSUME Marks("left") PROVE m["left"] = Hits(x \o new, Elems(y))
  <2>1. m["left"] = matched["left"] \cup {Len(x) + a : a \in Hits(new, Elems(y))}
    BY <1>3 DEF Side, Adds
  <2>2. matched["left"] = Hits(x, Elems(y))
    BY <1>3 DEF ExactRun
  <2> QED
    BY <2>1, <2>2, HitsConcat
<1>4. ASSUME Marks("right") PROVE m["right"] = Hits(y, Elems(x \o new))
  <2>1. m["right"] = matched["right"] \cup Hits(y, Elems(new))
    BY <1>4 DEF Side, Adds
  <2>2. matched["right"] = Hits(y, Elems(x))
    BY <1>4 DEF ExactRun
  <2> QED
    BY <1>1, <2>1, <2>2, HitsGrow
<1> QED
  BY <1>2, <1>3, <1>4 DEF ExactRun

(* The same for the right side.                                            *)
LEMMA GrownRight ==
    ASSUME NEW out, NEW matched, NEW x \in Seq(RowType), NEW y \in Seq(RowType), NEW new \in Seq(RowType),
           Distinct(new), Distinct(x), Elems(y) \cap Elems(new) = {}, ExactRun(out, matched, x, y),
           NEW o, NEW m, plan.kind # "semi" => o = out (+) Joined("right", new, x),
           \A s \in Side : Marks(s) => m[s] = matched[s] \cup Adds(s, "right", new, x, Len(y))
    PROVE  ExactRun(o, m, x, y \o new)
<1>1. Elems(y \o new) = Elems(y) \cup Elems(new)
  BY ConcatElems
<1>2. ASSUME plan.kind # "semi" PROVE OnceEach(o, Meeting(Elems(x), Elems(y \o new)))
  <2>1. OnceEach(Joined("right", new, x), Meeting(Elems(x), Elems(new)))
    <3>1. "right" \in Side /\ "right" # "left"
      BY DEF Side
    <3> QED
      BY <3>1, JoinedOnce
  <2>2. OnceEach(out, Meeting(Elems(x), Elems(y)))
    BY <1>2 DEF ExactRun
  <2>3. PICK A, B, C : A = Elems(y) /\ B = Elems(new) /\ C = Elems(x) /\ A \cap B = {}
    OBVIOUS
  <2>4. Meeting(C, A \cup B) = Meeting(C, A) \cup Meeting(C, B) /\ Meeting(C, A) \cap Meeting(C, B) = {}
    <3>1. /\ Meeting(A \cup B, C) = Meeting(A, C) \cup Meeting(B, C)
          /\ Meeting(C, A \cup B) = Meeting(C, A) \cup Meeting(C, B)
          /\ A \cap B = {} => Meeting(A, C) \cap Meeting(B, C) = {} /\ Meeting(C, A) \cap Meeting(C, B) = {}
      BY ONLY MeetingGrows
    <3> QED
      BY <2>3, <3>1
  <2>5. OnceEach(out (+) Joined("right", new, x), Meeting(C, A) \cup Meeting(C, B))
    BY <2>1, <2>2, <2>3, <2>4, OnceSum
  <2> QED
    BY <1>1, <1>2, <2>3, <2>4, <2>5
<1>3. ASSUME Marks("right") PROVE m["right"] = Hits(y \o new, Elems(x))
  <2>1. m["right"] = matched["right"] \cup {Len(y) + a : a \in Hits(new, Elems(x))}
    BY <1>3 DEF Side, Adds
  <2>2. matched["right"] = Hits(y, Elems(x))
    BY <1>3 DEF ExactRun
  <2> QED
    BY <2>1, <2>2, HitsConcat
<1>4. ASSUME Marks("left") PROVE m["left"] = Hits(x, Elems(y \o new))
  <2>1. m["left"] = matched["left"] \cup Hits(x, Elems(new))
    BY <1>4 DEF Side, Adds
  <2>2. matched["left"] = Hits(x, Elems(y))
    BY <1>4 DEF ExactRun
  <2> QED
    BY <1>1, <2>1, <2>2, HitsGrow
<1> QED
  BY <1>2, <1>3, <1>4 DEF ExactRun

(* What finalize adds: the rows that met none, once each.  They are no     *)
(* pairs of rows, as Null is not a row.                                    *)
LEMMA OuterRows ==
    ASSUME NEW side \in Side, NEW k, NEW x, x = tuples[k[side]], NEW S, k.matched[side] = Hits(x, S)
    PROVE  OnceEach(Outer(side, k), {Pair(side, r, Null) : r \in Elems(x) \ Met(Elems(x), S)})
<1>1. {Pair(side, x[a], Null) : a \in DOMAIN x \ Hits(x, S)} = {Pair(side, r, Null) : r \in Elems(x) \ Met(Elems(x), S)}
  <2>1. \A a \in DOMAIN x : a \in Hits(x, S) <=> x[a] \in Met(Elems(x), S)
    BY DEF Hits, Met, Elems
  <2>2. \A r : r \in Elems(x) \ Met(Elems(x), S) <=> \E a \in DOMAIN x \ Hits(x, S) : r = x[a]
    BY <2>1 DEF Elems
  <2>3. \A z : (\E a \in DOMAIN x \ Hits(x, S) : z = Pair(side, x[a], Null))
                 <=> (\E r \in Elems(x) \ Met(Elems(x), S) : z = Pair(side, r, Null))
    BY <2>2
  <2> QED
    BY <2>3
<1>2. Outer(side, k) = SetToBag({Pair(side, x[a], Null) : a \in DOMAIN x \ Hits(x, S)})
  BY Zenon DEF Outer
<1> QED
  BY <1>1, <1>2, OnceSet

(* At the end the kernel has the join of the rows it has.                  *)
LEMMA FinalExact ==
    ASSUME NEW k, DOMAIN k = Fields, k.left # 0, k.right # 0,
           NEW x \in Seq(RowType), NEW y \in Seq(RowType), x = tuples[k.left], y = tuples[k.right],
           ExactRun(k.out, k.matched, x, y)
    PROVE  OnceEach(Finalize(k).out, Result(Elems(x), Elems(y)))
<1>0. "left" \in Side /\ "right" \in Side /\ "right" # "left"
  BY DEF Side
<1>1. CASE plan.kind = "semi"
  <2>1. PICK b : b = SetToBag({tuples[k.left][a] : a \in k.matched["left"]})
    OBVIOUS
  <2>2. Finalize(k) = [k EXCEPT !.out = b]
    BY <1>1, <2>1, Zenon DEF Finalize
  <2>3. Finalize(k).out = b
    BY <2>2 DEF Fields
  <2>4. k.matched["left"] = Hits(x, Elems(y))
    BY <1>1 DEF ExactRun, Marks
  <2>5. {x[a] : a \in Hits(x, Elems(y))} = Met(Elems(x), Elems(y))
    BY DEF Hits, Met, Elems
  <2>6. b = SetToBag(Met(Elems(x), Elems(y)))
    <3>1. b = SetToBag({x[a] : a \in Hits(x, Elems(y))})
      BY <2>1, <2>4, Zenon
    <3> QED
      BY <2>5, <3>1, Zenon
  <2>7. OnceEach(b, Met(Elems(x), Elems(y)))
    BY <2>6, OnceSet
  <2> QED
    BY <1>1, <2>3, <2>7 DEF Result
<1>2. CASE plan.kind # "semi"
  <2>1. PICK c, d : c = (IF plan.left THEN Outer("left", k) ELSE EmptyBag) /\ d = (IF plan.right THEN Outer("right", k) ELSE EmptyBag)
    OBVIOUS
  <2>2. Finalize(k) = [k EXCEPT !.out = @ (+) c (+) d]
    BY <1>2, <2>1, Zenon DEF Finalize
  <2>3. Finalize(k).out = k.out (+) c (+) d
    BY <2>2 DEF Fields
  <2> DEFINE M == Meeting(Elems(x), Elems(y))
  <2> DEFINE C == {<<r, Null>> : r \in IF plan.left THEN Elems(x) \ Met(Elems(x), Elems(y)) ELSE {}}
  <2> DEFINE D == {<<Null, r>> : r \in IF plan.right THEN Elems(y) \ Met(Elems(y), Elems(x)) ELSE {}}
  <2>4. OnceEach(k.out, M)
    BY <1>2 DEF ExactRun
  <2>5. OnceEach(c, C)
    <3>1. CASE plan.left
      <4>1. k.matched["left"] = Hits(x, Elems(y))
        BY <1>2, <3>1 DEF ExactRun, Marks
      <4>2. OnceEach(Outer("left", k), {Pair("left", r, Null) : r \in Elems(x) \ Met(Elems(x), Elems(y))})
        BY <1>0, <4>1, OuterRows
      <4>3. {Pair("left", r, Null) : r \in Elems(x) \ Met(Elems(x), Elems(y))}
              = {<<r, Null>> : r \in Elems(x) \ Met(Elems(x), Elems(y))}
        BY DEF Pair
      <4> QED
        BY <2>1, <3>1, <4>2, <4>3
    <3>2. CASE ~plan.left
      <4>1. c = EmptyBag /\ C = {}
        BY <2>1, <3>2
      <4> QED
        BY <4>1, OnceNone
    <3> QED
      BY <3>1, <3>2
  <2>6. OnceEach(d, D)
    <3>1. CASE plan.right
      <4>1. k.matched["right"] = Hits(y, Elems(x))
        BY <1>2, <3>1 DEF ExactRun, Marks
      <4>2. OnceEach(Outer("right", k), {Pair("right", r, Null) : r \in Elems(y) \ Met(Elems(y), Elems(x))})
        BY <1>0, <4>1, OuterRows
      <4>3. {Pair("right", r, Null) : r \in Elems(y) \ Met(Elems(y), Elems(x))}
              = {<<Null, r>> : r \in Elems(y) \ Met(Elems(y), Elems(x))}
        BY <1>0 DEF Pair
      <4> QED
        BY <2>1, <3>1, <4>2, <4>3
    <3>2. CASE ~plan.right
      <4>1. d = EmptyBag /\ D = {}
        BY <2>1, <3>2
      <4> QED
        BY <4>1, OnceNone
    <3> QED
      BY <3>1, <3>2
  <2>7. Null \notin Elems(x) /\ Null \notin Elems(y)
    <3>1. Null \notin RowType
      BY JoinAssumption DEF RowType
    <3>2. Elems(x) \subseteq RowType /\ Elems(y) \subseteq RowType
      <4> HIDE DEF RowType
      <4> QED
        BY DEF Elems
    <3> QED
      BY <3>1, <3>2
  <2>8. M \cap C = {} /\ (M \cup C) \cap D = {}
    <3>1. \A z \in M : z[1] \in Elems(x) /\ z[2] \in Elems(y)
      BY DEF Meeting
    <3>2. \A z \in C : z[1] \in Elems(x) /\ z[2] = Null
      OBVIOUS
    <3>3. \A z \in D : z[1] = Null
      OBVIOUS
    <3> HIDE DEF M, C, D
    <3> QED
      BY <2>7, <3>1, <3>2, <3>3
  <2>9. M \cup C \cup D = Result(Elems(x), Elems(y))
    BY <1>2, Zenon DEF Result
  <2> HIDE DEF M, C, D
  <2>10. OnceEach(k.out (+) c, M \cup C)
    BY <2>4, <2>5, <2>8, OnceSum
  <2>11. OnceEach(k.out (+) c (+) d, (M \cup C) \cup D)
    BY <2>6, <2>8, <2>10, OnceSum
  <2> QED
    BY <2>3, <2>9, <2>11
<1> QED
  BY <1>1, <1>2

-----------------------------------------------------------------------------
(* What a producer sends: new[i] is the object for instance i, 0 if there  *)
(* is none.                                                                *)
One(n) == IF n = 0 THEN <<>> ELSE <<n>>
Last(complete) == IF complete THEN <<COMPLETE>> ELSE <<>>
Brings(side, new, complete) ==
    /\ \A i \in Instance :
         /\ new[i] = 0 \/ new[i] \in Len(tuples) + 1 .. Len(tuples')
         /\ mail'[i][side] = mail[i][side] \o One(new[i]) \o Last(complete)
         /\ \A s \in Side : s # side => mail'[i][s] = mail[i][s]
    /\ \A p \in 1 .. Len(tuples) : tuples'[p] = tuples[p]

(* The objects are those of the tuple sets, each one of its own.           *)
Carries(sets, new) ==
    /\ \A i \in Instance : new[i] # 0 <=> sets[i].some
    /\ \A i \in Instance : sets[i].some => tuples'[new[i]] = sets[i].rows
    /\ \A i, j \in Instance : new[i] = new[j] /\ new[i] # 0 => i = j

(* Deliver makes an object of every tuple set.                             *)
LEMMA DeliverBrings ==
    ASSUME HeapInv, NEW side \in Side, NEW sets, NEW complete,
           \A j \in Instance : sets[j].rows \in Seq(RowType),
           Deliver(side, sets, complete)
    PROVE  \E new : Brings(side, new, complete) /\ Carries(sets, new)
<1>1. PICK N \in Nat : N >= 1 /\ Instance = 1 .. N
  BY PlanFacts DEF HeapInv
<1>2. PICK l \in Nat : l = Len(tuples)
  BY DEF HeapInv
<1> DEFINE P == {j \in Instance : sets[j].some}
<1> DEFINE f == [j \in Instance |-> sets[j].rows]
<1> DEFINE Rank(i) == Cardinality(UpTo(P, i))
<1>3. P \in SUBSET (1 .. N)
  BY <1>1
<1>4. Objects(sets) = At(f, P)
  BY DEF Objects
<1>5. \A i \in Instance : Number(sets, i) = l + Rank(i)
  <2> TAKE i \in Instance
  <2>1. \A j : j \in 1 .. i <=> j \in Instance /\ j <= i
    BY <1>1
  <2>2. {j \in 1 .. i : sets[j].some} = UpTo(P, i)
    BY <2>1, Zenon DEF UpTo
  <2> QED
    BY <1>2, <2>2 DEF Number
<1>6. PICK c \in Nat : c = Cardinality(P)
  BY <1>3, PlacesAreFinite
<1>7. \A i \in Instance : i \in P <=> sets[i].some
  OBVIOUS
<1>8. \A i \in Instance : f[i] = sets[i].rows
  OBVIOUS
<1> HIDE DEF P, f
<1>9. /\ DOMAIN At(f, P) = 1 .. c
      /\ \A m \in P : Rank(m) \in 1 .. c /\ At(f, P)[Rank(m)] = f[m]
      /\ \A m, h \in P : Rank(m) = Rank(h) => m = h
  <2>1. Ranked(f, P)
    BY <1>3, AtRank
  <2> QED
    BY <1>6, <2>1, Zenon DEF Ranked
<1> HIDE DEF Rank
<1>10. PICK obj \in Seq(Seq(RowType)) : obj = At(f, P) /\ Len(obj) = c
  <2>1. Objects(sets) \in Seq(Seq(RowType)) /\ Len(Objects(sets)) \in Nat
    BY <1>1, <1>2, Numbers
  <2>2. PICK obj \in Seq(Seq(RowType)) : obj = At(f, P)
    BY <1>4, <2>1
  <2>3. DOMAIN obj = 1 .. Len(obj) /\ Len(obj) \in Nat
    OBVIOUS
  <2>4. Len(obj) = c
    BY <1>9, <2>2, <2>3
  <2> QED
    BY <2>2, <2>4
<1>11. tuples \in Seq(Seq(RowType)) /\ tuples' = tuples \o obj
  BY <1>4, <1>10 DEF HeapInv, Deliver
<1>12. /\ Len(tuples') = l + c /\ \A p \in 1 .. l : tuples'[p] = tuples[p]
       /\ \A p \in 1 .. c : tuples'[l + p] = obj[p]
  <2>1. /\ Len(tuples \o obj) = l + c
        /\ \A p \in DOMAIN tuples : (tuples \o obj)[p] = tuples[p]
        /\ \A p \in DOMAIN obj : (tuples \o obj)[Len(tuples) + p] = obj[p]
        /\ DOMAIN tuples = 1 .. Len(tuples) /\ DOMAIN obj = 1 .. Len(obj)
    <3>1. PICK T : T = Seq(RowType)
      OBVIOUS
    <3>2. PICK x \in Seq(T), y \in Seq(T) : x = tuples /\ y = obj
      BY <1>10, <1>11, <3>1
    <3>3. /\ Len(x \o y) = Len(x) + Len(y)
          /\ DOMAIN x = 1 .. Len(x) /\ DOMAIN y = 1 .. Len(y)
          /\ \A n \in DOMAIN x : (x \o y)[n] = x[n]
          /\ \A n \in DOMAIN y : (x \o y)[Len(x) + n] = y[n]
      BY ONLY x \in Seq(T), y \in Seq(T), ConcatElems
    <3> QED
      BY <1>2, <1>10, <3>2, <3>3
  <2> QED
    BY <1>2, <1>10, <1>11, <2>1
<1> DEFINE new == [i \in Instance |-> IF sets[i].some THEN Number(sets, i) ELSE 0]
<1>13. \A i \in Instance : sets[i].some =>
         new[i] = l + Rank(i) /\ Rank(i) \in 1 .. c /\ new[i] \in l + 1 .. l + c /\ new[i] # 0
  <2> SUFFICES ASSUME NEW i \in Instance, sets[i].some
               PROVE  new[i] = l + Rank(i) /\ Rank(i) \in 1 .. c /\ new[i] \in l + 1 .. l + c /\ new[i] # 0
    OBVIOUS
  <2>1. new[i] = l + Rank(i) /\ Rank(i) \in 1 .. c
    BY <1>5, <1>7, <1>9
  <2> HIDE DEF new
  <2> QED
    BY <2>1
<1>14. \A i \in Instance : ~sets[i].some => new[i] = 0
  OBVIOUS
<1>15. ASSUME NEW i \in Instance
       PROVE  /\ mail'[i][side] = mail[i][side] \o One(new[i]) \o Last(complete)
              /\ \A s \in Side : s # side => mail'[i][s] = mail[i][s]
  <2>1. One(new[i]) = IF sets[i].some THEN <<Number(sets, i)>> ELSE <<>>
    <3>1. CASE sets[i].some
      <4>1. new[i] # 0 /\ new[i] = Number(sets, i)
        BY <1>13, <3>1
      <4> HIDE DEF new
      <4> QED
        BY <3>1, <4>1 DEF One
    <3>2. CASE ~sets[i].some
      BY <1>14, <3>2 DEF One
    <3> QED
      BY <3>1, <3>2
  <2>2. PICK a, b : a = One(new[i]) /\ b = Last(complete)
    OBVIOUS
  <2>3. mail'[i] = [mail[i] EXCEPT ![side] = @ \o a \o b]
    BY <2>1, <2>2, Zenon DEF Deliver, Last
  <2>4. mail[i] \in [Side -> Seq(0 .. Len(tuples))]
    BY DEF HeapInv
  <2>5. mail'[i][side] = mail[i][side] \o a \o b /\ \A s \in Side : s # side => mail'[i][s] = mail[i][s]
    BY <2>3, <2>4
  <2> HIDE DEF new
  <2> QED
    BY <2>2, <2>5
<1> HIDE DEF new
<1>16. Brings(side, new, complete)
  BY <1>2, <1>12, <1>13, <1>14, <1>15 DEF Brings
<1>17. ASSUME NEW i \in Instance, sets[i].some PROVE tuples'[new[i]] = sets[i].rows
  BY <1>7, <1>8, <1>9, <1>10, <1>12, <1>13, <1>17
<1>18. ASSUME NEW i \in Instance, NEW j \in Instance, new[i] = new[j], new[i] # 0 PROVE i = j
  <2>1. sets[i].some /\ sets[j].some
    BY <1>14, <1>18
  <2>2. l + Rank(i) = l + Rank(j) /\ Rank(i) \in Nat /\ Rank(j) \in Nat
    BY <1>13, <1>18, <2>1
  <2>3. Rank(i) = Rank(j)
    BY <2>2
  <2> QED
    BY <1>7, <1>9, <2>1, <2>3
<1>19. \A i \in Instance : new[i] # 0 <=> sets[i].some
  BY <1>13, <1>14
<1> QED
  BY <1>16, <1>17, <1>18, <1>19 DEF Carries

(* Tell makes one object for all.                                          *)
LEMMA TellBrings ==
    ASSUME HeapInv, NEW side \in Side, NEW rows \in Seq(RowType), Tell(side, rows)
    PROVE  \E new : /\ Brings(side, new, FALSE)
                    /\ \A i \in Instance : new[i] # 0 /\ tuples'[new[i]] = rows
<1>1. PICK l \in Nat : l = Len(tuples)
  BY DEF HeapInv
<1>2. tuples \in Seq(Seq(RowType)) /\ tuples' = Append(tuples, rows)
  BY DEF HeapInv, Tell
<1>3. Len(tuples') = l + 1 /\ tuples'[l + 1] = rows /\ \A p \in 1 .. l : tuples'[p] = tuples[p]
  BY <1>1, <1>2
<1> DEFINE new == [i \in Instance |-> l + 1]
<1>4. \A i \in Instance : new[i] = l + 1
  OBVIOUS
<1> HIDE DEF new
<1>5. ASSUME NEW i \in Instance
      PROVE  /\ mail'[i][side] = mail[i][side] \o One(new[i]) \o Last(FALSE)
             /\ \A s \in Side : s # side => mail'[i][s] = mail[i][s]
  <2>1. mail[i] \in [Side -> Seq(Nat)]
    <3>1. mail[i] \in [Side -> Seq(0 .. l)]
      BY <1>1 DEF HeapInv
    <3>2. 0 .. l \subseteq Nat
      OBVIOUS
    <3>3. Seq(0 .. l) \subseteq Seq(Nat)
      BY <3>2
    <3> QED
      BY <3>1, <3>3
  <2>2. mail'[i] = [mail[i] EXCEPT ![side] = Append(@, l + 1)]
    BY <1>1 DEF Tell
  <2>3. One(new[i]) = <<l + 1>> /\ Last(FALSE) = <<>>
    BY <1>4 DEF One, Last
  <2>4. PICK q \in Seq(Nat) : q = mail[i][side]
    BY <2>1
  <2>5. PICK e \in Nat : e = l + 1
    OBVIOUS
  <2>6. Append(q, e) = q \o <<e>> \o <<>>
    BY ONLY q \in Seq(Nat), e \in Nat
  <2>7. Append(q, l + 1) = q \o <<l + 1>> \o <<>>
    BY <2>5, <2>6
  <2>8. mail'[i][side] = Append(q, l + 1) /\ \A s \in Side : s # side => mail'[i][s] = mail[i][s]
    BY <2>1, <2>2, <2>4
  <2> QED
    BY <2>3, <2>4, <2>7, <2>8, Zenon
<1>6. \A i \in Instance : new[i] \in l + 1 .. Len(tuples') /\ new[i] # 0 /\ tuples'[new[i]] = rows
  BY <1>3, <1>4
<1>7. Brings(side, new, FALSE)
  BY <1>1, <1>3, <1>5, <1>6 DEF Brings
<1> QED
  BY <1>6, <1>7

(* The rows of the object an instance is sent.                             *)
Added(new, i) == IF new[i] = 0 THEN {} ELSE Elems(tuples'[new[i]])

(* The messages of one object and of the end of a producer.                *)
LEMMA OneElems ==
    ASSUME NEW n \in Nat
    PROVE  /\ One(n) \in Seq(Nat) /\ Elems(One(n)) = {n} \ {0} /\ Distinct(One(n))
           /\ \A c \in BOOLEAN : Last(c) \in Seq(Nat) /\ Elems(Last(c)) \subseteq {0} /\ Distinct(Last(c))
<1>1. ASSUME NEW m \in Nat PROVE <<m>> \in Seq(Nat) /\ Elems(<<m>>) = {m} /\ Distinct(<<m>>)
  <2>0. <<m>> \in Seq(Nat)
    OBVIOUS
  <2>1. PICK t \in Seq(Nat) : t = <<m>>
    BY <2>0, Zenon
  <2>2. DOMAIN t = {1} /\ t[1] = m
    BY <2>1
  <2> QED
    BY <2>1, <2>2 DEF Elems, Distinct
<1>2. <<>> \in Seq(Nat)
  OBVIOUS
<1>3. One(n) \in Seq(Nat) /\ Elems(One(n)) = {n} \ {0} /\ Distinct(One(n))
  <2>1. CASE n = 0
    BY <1>2, <2>1, EmptyElems DEF One
  <2>2. CASE n # 0
    BY <1>1, <2>2 DEF One
  <2> QED
    BY <2>1, <2>2
<1>4. ASSUME NEW c \in BOOLEAN PROVE Last(c) \in Seq(Nat) /\ Elems(Last(c)) \subseteq {0} /\ Distinct(Last(c))
  <2>1. CASE c
    BY <1>1, <2>1 DEF Last, COMPLETE
  <2>2. CASE ~c
    BY <1>2, <2>2, EmptyElems DEF Last
  <2> QED
    BY <2>1, <2>2
<1> QED
  BY <1>3, <1>4

(* The objects of an instance are objects of the heap.                     *)
LEMMA LiveObjects ==
    ASSUME HeapInv, KernelInv, NEW i \in Instance, NEW s \in Side
    PROVE  /\ Live(i, s) \subseteq 1 .. Len(tuples) /\ Len(tuples) \in Nat
           /\ Elems(mail[i][s]) \subseteq 0 .. Len(tuples) /\ mail[i][s] \in Seq(Nat)
           /\ join[i][s] \in 0 .. Len(tuples)
           /\ \A o \in Live(i, s) : tuples[o] \in Seq(RowType)
           /\ Taken(i, s) \in Seq(RowType)
<1>1. PICK l \in Nat : l = Len(tuples)
  BY DEF HeapInv
<1>2. PICK q : q = mail[i][s] /\ q \in Seq(0 .. l)
  BY <1>1 DEF HeapInv
<1>3. \A n \in DOMAIN q : q[n] \in 0 .. l
  BY <1>2
<1>4. Elems(q) \subseteq 0 .. l
  BY <1>3 DEF Elems
<1>5. q \in Seq(Nat)
  <2>1. 0 .. l \subseteq Nat
    OBVIOUS
  <2>2. Seq(0 .. l) \subseteq Seq(Nat)
    BY <2>1
  <2> QED
    BY <1>2, <2>2
<1>6. join[i][s] \in 0 .. l
  BY <1>1 DEF KernelInv, Kernels
<1>7. Live(i, s) \subseteq 1 .. l
  BY <1>2, <1>4, <1>6 DEF Live
<1>8. \A o \in 1 .. l : tuples[o] \in Seq(RowType)
  BY <1>1 DEF HeapInv
<1>9. Taken(i, s) \in Seq(RowType)
  <2>1. CASE join[i][s] = 0
    BY <2>1 DEF Taken
  <2>2. CASE join[i][s] # 0
    <3>1. join[i][s] \in 1 .. l
      BY <1>6, <2>2
    <3> QED
      BY <1>8, <2>2, <3>1 DEF Taken
  <2> QED
    BY <2>1, <2>2
<1> QED
  BY <1>1, <1>2, <1>4, <1>5, <1>6, <1>7, <1>8, <1>9

(* What the instances have and get after a producer has sent.              *)
LEMMA ProducedLive ==
    ASSUME HeapInv, KernelInv, NEW side \in Side, NEW new, NEW complete \in BOOLEAN,
           Brings(side, new, complete), UNCHANGED join, NEW i \in Instance
    PROVE  /\ Live(i, side)' = Live(i, side) \cup ({new[i]} \ {0}) /\ new[i] \in Nat
           /\ new[i] \notin Live(i, side) /\ new[i] \notin Elems(mail[i][side]) \ {0}
           /\ \A s \in Side : s # side => Live(i, s)' = Live(i, s)
           /\ \A s \in Side : \A o \in Live(i, s) : tuples'[o] = tuples[o]
           /\ \A s \in Side : Taken(i, s)' = Taken(i, s)
<1>1. PICK l \in Nat : l = Len(tuples)
  BY DEF HeapInv
<1>2. new[i] = 0 \/ new[i] \in l + 1 .. Len(tuples')
  BY <1>1 DEF Brings
<1>3. new[i] \in Nat /\ (new[i] # 0 => new[i] > l)
  BY <1>2
<1>4. /\ mail[i][side] \in Seq(Nat) /\ Live(i, side) \subseteq 1 .. l /\ Elems(mail[i][side]) \subseteq 0 .. l
  BY <1>1, LiveObjects
<1>5. mail'[i][side] = mail[i][side] \o One(new[i]) \o Last(complete)
  BY DEF Brings
<1>6. Elems(mail'[i][side]) = Elems(mail[i][side]) \cup ({new[i]} \ {0}) \cup Elems(Last(complete))
  <2>1. PICK q \in Seq(Nat), a \in Seq(Nat), b \in Seq(Nat) :
          q = mail[i][side] /\ a = One(new[i]) /\ b = Last(complete)
    BY <1>3, <1>4, OneElems
  <2>2. q \o a \in Seq(Nat) /\ Elems(q \o a) = Elems(q) \cup Elems(a)
    BY ConcatElems
  <2>3. PICK qa \in Seq(Nat) : qa = q \o a
    BY <2>2
  <2>4. Elems(qa \o b) = Elems(qa) \cup Elems(b)
    BY ConcatElems
  <2> QED
    BY <1>3, <1>5, <2>1, <2>2, <2>3, <2>4, OneElems
<1>7. Elems(Last(complete)) \subseteq {0}
  BY <1>3, OneElems
<1>8. Live(i, side)' = Live(i, side) \cup ({new[i]} \ {0})
  <2>1. Live(i, side)' = (Elems(mail'[i][side]) \cup {join[i][side]}) \ {0}
    BY DEF Live, Elems
  <2> QED
    BY <1>6, <1>7, <2>1 DEF Live
<1>9. new[i] \notin Live(i, side) /\ new[i] \notin Elems(mail[i][side]) \ {0}
  BY <1>3, <1>4
<1>10. \A s \in Side : s # side => Live(i, s)' = Live(i, s)
  <2>1. \A s \in Side : s # side => mail'[i][s] = mail[i][s]
    BY DEF Brings
  <2> QED
    BY <2>1, Zenon DEF Live, Elems
<1>11. \A p \in 1 .. l : tuples'[p] = tuples[p]
  BY <1>1 DEF Brings
<1>12. \A s \in Side : \A o \in Live(i, s) : tuples'[o] = tuples[o]
  <2> TAKE s \in Side
  <2>1. Live(i, s) \subseteq 1 .. l
    BY <1>1, LiveObjects
  <2> QED
    BY <1>11, <2>1
<1>13. \A s \in Side : Taken(i, s)' = Taken(i, s)
  <2> TAKE s \in Side
  <2>1. join[i][s] \in 0 .. l
    BY <1>1, LiveObjects
  <2> QED
    BY <1>11, <2>1 DEF Taken
<1> QED
  BY <1>3, <1>8, <1>9, <1>10, <1>12, <1>13

(* Objects that stay as they are.                                          *)
LEMMA SameRows ==
    ASSUME NEW i, NEW s, Live(i, s)' = Live(i, s), \A o \in Live(i, s) : tuples'[o] = tuples[o]
    PROVE  /\ LiveRows(i, s)' = LiveRows(i, s)
           /\ buffers'[s] = buffers[s] /\ Clean(i, s) => Clean(i, s)'
<1>1. LiveRows(i, s)' = LiveRows(i, s)
  <2>1. LiveRows(i, s)' = UNION {Elems(tuples'[o]) : o \in Live(i, s)'}
    BY DEF LiveRows, Elems
  <2> QED
    BY <2>1 DEF LiveRows
<1>2. ASSUME buffers'[s] = buffers[s], Clean(i, s) PROVE Clean(i, s)'
  <2>1. Back(i, s)' = Back(i, s)
    BY <1>2 DEF Back, Elems
  <2>2. Clean(i, s)' <=>
          /\ \A o \in Live(i, s)' : Distinct(tuples'[o])
          /\ \A o, p \in Live(i, s)' : o # p => Elems(tuples'[o]) \cap Elems(tuples'[p]) = {}
          /\ Distinct(buffers'[s][i].rows) /\ Back(i, s)' \cap LiveRows(i, s)' = {}
          /\ ~buffers'[s][i].some => buffers'[s][i].rows = <<>>
    BY DEF Clean, Elems, Distinct
  <2> QED
    BY <1>1, <1>2, <2>1, <2>2 DEF Clean
<1> QED
  BY <1>1, <1>2

(* The object and the buffer of an instance have no row that it has.       *)
Fits(i, side, new) ==
    /\ Clean(i, side) /\ Added(new, i) \cap LiveRows(i, side) = {}
    /\ new[i] # 0 => Distinct(tuples'[new[i]])
    /\ Distinct(buffers'[side][i].rows)
    /\ ~buffers'[side][i].some => buffers'[side][i].rows = <<>>
    /\ Back(i, side)' \cap (LiveRows(i, side) \cup Added(new, i)) = {}

(* The rows an instance has and gets, and that none is there twice.        *)
LEMMA ProducedRows ==
    ASSUME HeapInv, KernelInv, NEW side \in Side, NEW new, NEW complete \in BOOLEAN,
           Brings(side, new, complete), UNCHANGED join, NEW i \in Instance
    PROVE  /\ LiveRows(i, side)' = LiveRows(i, side) \cup Added(new, i)
           /\ \A s \in Side : s # side => LiveRows(i, s)' = LiveRows(i, s)
           /\ \A s \in Side : s # side /\ buffers'[s] = buffers[s] /\ Clean(i, s) => Clean(i, s)'
           /\ Fits(i, side, new) => Clean(i, side)'
<1>1. /\ Live(i, side)' = Live(i, side) \cup ({new[i]} \ {0}) /\ new[i] \notin Live(i, side)
      /\ \A s \in Side : s # side => Live(i, s)' = Live(i, s)
      /\ \A s \in Side : \A o \in Live(i, s) : tuples'[o] = tuples[o]
  BY ProducedLive
<1>2. \A s : LiveRows(i, s)' = UNION {Elems(tuples'[o]) : o \in Live(i, s)'}
  BY DEF LiveRows, Elems
<1>3. \A s \in Side : UNION {Elems(tuples'[o]) : o \in Live(i, s)} = LiveRows(i, s)
  BY <1>1 DEF LiveRows
<1>4. LiveRows(i, side)' = LiveRows(i, side) \cup Added(new, i)
  BY <1>1, <1>2, <1>3 DEF Added
<1>5. \A s \in Side : s # side => LiveRows(i, s)' = LiveRows(i, s)
  BY <1>1, <1>2, <1>3
<1>6. ASSUME NEW s \in Side, s # side, buffers'[s] = buffers[s], Clean(i, s) PROVE Clean(i, s)'
  BY <1>1, <1>6, SameRows
<1>7. ASSUME Fits(i, side, new) PROVE Clean(i, side)'
  <2>0. /\ Clean(i, side) /\ Added(new, i) \cap LiveRows(i, side) = {}
        /\ new[i] # 0 => Distinct(tuples'[new[i]])
        /\ Distinct(buffers'[side][i].rows)
        /\ ~buffers'[side][i].some => buffers'[side][i].rows = <<>>
        /\ Back(i, side)' \cap (LiveRows(i, side) \cup Added(new, i)) = {}
    BY <1>7, Zenon DEF Fits
  <2>1. \A o \in Live(i, side)' : Distinct(tuples'[o])
    BY <1>1, <2>0 DEF Clean
  <2>2. \A o \in Live(i, side) : o # new[i] /\ Elems(tuples'[o]) \subseteq LiveRows(i, side)
    BY <1>1 DEF LiveRows
  <2>3. \A o, p \in Live(i, side) : o # p => Elems(tuples'[o]) \cap Elems(tuples'[p]) = {}
    BY <1>1, <2>0 DEF Clean
  <2>4. new[i] # 0 => Elems(tuples'[new[i]]) \cap LiveRows(i, side) = {}
    BY <2>0 DEF Added
  <2>5. \A o, p \in Live(i, side)' : o # p => Elems(tuples'[o]) \cap Elems(tuples'[p]) = {}
    BY <1>1, <2>2, <2>3, <2>4
  <2>6. Back(i, side)' \cap LiveRows(i, side)' = {}
    BY <1>4, <2>0
  <2> HIDE DEF Live, LiveRows, Back
  <2> QED
    BY <2>0, <2>1, <2>5, <2>6 DEF Clean, Distinct, Elems
<1> QED
  BY <1>4, <1>5, <1>6, <1>7

(* The new objects are nobody else's, unless the side is told to all.      *)
Fresh(side, new) == \A i, j \in Instance : new[i] = new[j] /\ new[i] # 0 => i = j \/ Broadcast(side)

(* The new objects keep OwnInv.                                            *)
LEMMA ProducedOwn ==
    ASSUME HeapInv, KernelInv, OrderInv, OwnInv, NEW side \in Side, NEW new, NEW complete \in BOOLEAN,
           Brings(side, new, complete), UNCHANGED <<plan, join>>, side \notin closed, Fresh(side, new)
    PROVE  OwnInv'
<1>1. Instance' = Instance /\ \A s : Broadcast(s)' <=> Broadcast(s)
  BY DEF Instance, Broadcast, Shuffles, Splits
<1>2. PICK l \in Nat : l = Len(tuples)
  BY DEF HeapInv
<1>3. \A i \in Instance : new[i] \in Nat /\ (new[i] # 0 => new[i] > l)
  <2> TAKE i \in Instance
  <2>1. new[i] = 0 \/ new[i] \in l + 1 .. Len(tuples')
    BY <1>2 DEF Brings
  <2> QED
    BY <2>1
<1>4. \A i \in Instance, s \in Side :
        /\ Live(i, s) \subseteq 1 .. l /\ Elems(mail[i][s]) \subseteq 0 .. l
        /\ mail[i][s] \in Seq(Nat) /\ join[i][s] \in 0 .. l
  BY <1>2, LiveObjects
<1>5. \A i \in Instance : 0 \notin Elems(mail[i][side])
  BY DEF OrderInv, Open, Elems, COMPLETE
<1>6. \A i \in Instance :
        /\ Live(i, side)' = Live(i, side) \cup ({new[i]} \ {0})
        /\ \A s \in Side : s # side => Live(i, s)' = Live(i, s)
  BY ProducedLive
<1>7. ASSUME NEW i \in Instance
      PROVE  Distinct(mail'[i][side]) /\ (join[i][side] # 0 => join[i][side] \notin Elems(mail'[i][side]))
  <2>1. PICK n \in Nat : n = new[i]
    BY <1>3
  <2>2. PICK q \in Seq(Nat), a \in Seq(Nat), b \in Seq(Nat) :
          q = mail[i][side] /\ a = One(n) /\ b = Last(complete)
    BY <1>4, <2>1, OneElems
  <2>3. /\ Elems(a) = {n} \ {0} /\ Elems(b) \subseteq {0} /\ Distinct(a) /\ Distinct(b)
    BY <2>2, OneElems
  <2>4. mail'[i][side] = q \o a \o b
    BY <2>1, <2>2 DEF Brings
  <2>5. Distinct(q) /\ (join[i][side] # 0 => join[i][side] \notin Elems(q))
    BY <2>2 DEF OwnInv
  <2>6. Elems(q) \subseteq 0 .. l /\ 0 \notin Elems(q)
    BY <1>4, <1>5, <2>2
  <2>7. Elems(q) \cap Elems(a) = {}
    BY <1>3, <2>1, <2>3, <2>6
  <2>8. q \o a \in Seq(Nat) /\ Elems(q \o a) = Elems(q) \cup Elems(a)
    BY ConcatElems
  <2>9. Distinct(q \o a)
    BY <2>3, <2>5, <2>7, ConcatDistinct
  <2>10. PICK qa \in Seq(Nat) : qa = q \o a
    BY <2>8
  <2>11. Elems(qa \o b) = Elems(qa) \cup Elems(b)
    BY ConcatElems
  <2>12. Elems(qa) \cap Elems(b) = {}
    BY <2>3, <2>6, <2>8, <2>10
  <2>13. Distinct(qa \o b)
    BY <2>3, <2>9, <2>10, <2>12, ConcatDistinct
  <2>14. join[i][side] # 0 => join[i][side] \notin Elems(a)
    BY <1>3, <1>4, <2>1, <2>3
  <2> QED
    BY <2>3, <2>4, <2>5, <2>8, <2>10, <2>11, <2>13, <2>14
<1>8. ASSUME NEW i \in Instance, NEW s \in Side
      PROVE  Distinct(mail'[i][s]) /\ (join[i][s] # 0 => join[i][s] \notin Elems(mail'[i][s]))
  <2>1. CASE s = side
    BY <1>7, <2>1
  <2>2. CASE s # side
    <3>1. mail'[i][s] = mail[i][s]
      BY <2>2 DEF Brings
    <3> QED
      BY <3>1 DEF OwnInv
  <2> QED
    BY <2>1, <2>2
<1>9. ASSUME NEW i \in Instance, NEW s \in Side, NEW j \in Instance, NEW t \in Side,
             NEW o \in Live(i, s)', o \in Live(j, t)'
      PROVE  s = t /\ (i = j \/ Broadcast(s))
  <2>1. o \in Live(i, s) \/ (s = side /\ o = new[i] /\ o # 0)
    BY <1>6
  <2>2. o \in Live(j, t) \/ (t = side /\ o = new[j] /\ o # 0)
    BY <1>6, <1>9
  <2>3. (o \in Live(i, s) => o \in 1 .. l) /\ (o \in Live(j, t) => o \in 1 .. l)
    BY <1>4
  <2>4. (o \in Live(i, s) => ~(o = new[j] /\ o # 0)) /\ (o \in Live(j, t) => ~(o = new[i] /\ o # 0))
    BY <1>3, <2>3
  <2>5. CASE o \in Live(i, s) /\ o \in Live(j, t)
    BY <2>5 DEF OwnInv
  <2>6. CASE s = side /\ t = side /\ o = new[i] /\ o = new[j] /\ o # 0
    BY <2>6 DEF Fresh
  <2> QED
    BY <2>1, <2>2, <2>4, <2>5, <2>6
<1>10. OwnInv' <=>
         \A i \in Instance, s \in Side :
           /\ Distinct(mail'[i][s])
           /\ join[i][s] # 0 => join[i][s] \notin Elems(mail'[i][s])
           /\ \A j \in Instance, t \in Side :
                Live(i, s)' \cap Live(j, t)' # {} => s = t /\ (i = j \/ Broadcast(s))
  BY <1>1 DEF OwnInv, Distinct, Elems
<1> QED
  BY <1>8, <1>9, <1>10

(* A kernel that does nothing and whose rows stay as they are.             *)
LEMMA SameKernel ==
    ASSUME UNCHANGED plan, NEW i, join'[i] = join[i], ExactKernel(i),
           Taken(i, "left")' = Taken(i, "left"), Taken(i, "right")' = Taken(i, "right")
    PROVE  ExactKernel(i)'
<1>1. PICK k, x, y : k = join[i] /\ x = Taken(i, "left") /\ y = Taken(i, "right")
  OBVIOUS
<1>2. (Marks("left")' <=> Marks("left")) /\ (Marks("right")' <=> Marks("right"))
  BY DEF Marks
<1>3. join'[i] = k /\ Taken(i, "left")' = x /\ Taken(i, "right")' = y
  BY <1>1
<1>4. plan'.kind = plan.kind /\ plan'.left = plan.left /\ plan'.right = plan.right
  OBVIOUS
<1>5. ASSUME k.status = "run"
      PROVE  ExactRun(join[i].out, join[i].matched, Taken(i, "left"), Taken(i, "right"))'
  <2>1. ExactRun(k.out, k.matched, x, y)
    BY <1>1, <1>5 DEF ExactKernel
  <2> QED
    BY <1>2, <1>3, <1>4, <2>1 DEF ExactRun
<1>6. ASSUME k.status = "done"
      PROVE  (join[i].complete = Side /\ OnceEach(join[i].out, Result(Elems(Taken(i, "left")), Elems(Taken(i, "right")))))'
  <2>1. k.complete = Side /\ OnceEach(k.out, Result(Elems(x), Elems(y)))
    BY <1>1, <1>6 DEF ExactKernel
  <2> QED
    BY <1>3, <1>4, <2>1 DEF Result
<1> QED
  BY <1>3, <1>5, <1>6 DEF ExactKernel

(* What holds of the other side, and of the kernels, after a producer sent.*)
LEMMA ProducedSame ==
    ASSUME HeapInv, KernelInv, NEW side \in Side, NEW new, NEW complete \in BOOLEAN,
           Brings(side, new, complete), UNCHANGED <<plan, slot, join>>,
           \A s \in Side : s # side => given'[s] = given[s] /\ buffers'[s] = buffers[s]
    PROVE  /\ \A s \in Side : s # side /\ Spread(s) => Spread(s)'
           /\ \A i \in Instance : ExactKernel(i) => ExactKernel(i)'
<1>1. /\ Instance' = Instance /\ (Shuffles' <=> Shuffles)
      /\ \A s : (Broadcast(s)' <=> Broadcast(s)) /\ (Splits(s)' <=> Splits(s))
  BY DEF Instance, Broadcast, Shuffles, Splits
<1>2. ASSUME NEW s \in Side, s # side, Spread(s) PROVE Spread(s)'
  <2>1. \A i \in Instance : LiveRows(i, s)' = LiveRows(i, s) /\ (Clean(i, s) => Clean(i, s)')
    BY <1>2, ProducedRows
  <2>2. Rows(s)' = Rows(s) /\ \A i : Back(i, s)' = Back(i, s)
    BY <1>2 DEF Rows, Row, Back, Elems
  <2>3. buffers'[s] = buffers[s] /\ slot' = slot
    BY <1>2
  <2>4. \A i \in Instance : Clean(i, s)
    BY <1>2 DEF Spread
  <2>5. UNION {LiveRows(i, s)' : i \in Instance} = UNION {LiveRows(i, s) : i \in Instance}
    BY <2>1
  <2> QED
    BY <1>1, <1>2, <2>1, <2>2, <2>3, <2>4, <2>5 DEF Spread
<1>3. ASSUME NEW i \in Instance, ExactKernel(i) PROVE ExactKernel(i)'
  <2>1. \A s \in Side : Taken(i, s)' = Taken(i, s)
    BY ProducedLive
  <2>2. Taken(i, "left")' = Taken(i, "left") /\ Taken(i, "right")' = Taken(i, "right")
    BY <2>1 DEF Side
  <2> QED
    BY <1>3, <2>2, SameKernel
<1> QED
  BY <1>2, <1>3

(* Of one tuple set every instance is sent one object.                     *)
LEMMA ProducedSingle ==
    ASSUME HeapInv, KernelInv, SingleInv, NEW side \in Side, NEW new, NEW complete \in BOOLEAN,
           Brings(side, new, complete), UNCHANGED <<plan, join>>,
           \A s \in Side : s # side => batches'[s] = batches[s] /\ buffers'[s] = buffers[s],
           batches'[side] # 0,
           side = "left" /\ plan.batches["left"] = 1 =>
              \A i \in Instance : /\ new[i] # 0 => Live(i, side) = {} /\ ~buffers'[side][i].some
                                  /\ buffers'[side][i].some => Live(i, side) = {}
    PROVE  SingleInv'
<1>1. Instance' = Instance
  BY DEF Instance
<1>2. CASE side = "left"
  <2>1. \A i \in Instance : Live(i, "left")' = Live(i, "left") \cup ({new[i]} \ {0})
    BY <1>2, ProducedLive
  <2>2. batches'["left"] # 0
    BY <1>2
  <2>3. ASSUME NEW i \in Instance, plan.batches["left"] = 1
        PROVE  /\ \A o, p \in Live(i, "left")' : o = p
               /\ buffers'["left"][i].some => Live(i, "left")' = {}
    <3>1. /\ new[i] # 0 => Live(i, "left") = {} /\ ~buffers'["left"][i].some
          /\ buffers'["left"][i].some => Live(i, "left") = {}
      BY <1>2, <2>3
    <3>2. \A o, p \in Live(i, "left") : o = p
      BY <2>3 DEF SingleInv
    <3> QED
      BY <2>1, <3>1, <3>2
  <2> QED
    BY <1>1, <2>2, <2>3 DEF SingleInv
<1>3. CASE side = "right"
  <2>1. \A i \in Instance : Live(i, "left")' = Live(i, "left")
    BY <1>3, ProducedLive DEF Side
  <2>2. batches'["left"] = batches["left"] /\ buffers'["left"] = buffers["left"]
    BY <1>3 DEF Side
  <2> QED
    BY <1>1, <2>1, <2>2 DEF SingleInv
<1> QED
  BY <1>2, <1>3 DEF Side

-----------------------------------------------------------------------------
(* The steps of the producers.                                             *)

(* The rows of a tuple set of a producer: they are new.                    *)
LEMMA NewRows ==
    ASSUME HeapInv, NEW side \in Side, NEW keys \in Seq(Key), NEW rows,
           rows = [n \in DOMAIN keys |-> [key |-> keys[n], id |-> Len(given[side]) + n]],
           given'[side] = given[side] \o keys
    PROVE  /\ rows \in Seq(RowType) /\ Distinct(rows) /\ Elems(rows) \cap Rows(side) = {}
           /\ Rows(side)' = Rows(side) \cup Elems(rows)
<1>1. PICK n \in Nat : DOMAIN keys = 1 .. n /\ n = Len(keys)
  OBVIOUS
<1>2. PICK q \in Seq(Key) : q = given[side]
  BY DEF HeapInv
<1>3. PICK g \in Nat : g = Len(q) /\ DOMAIN q = 1 .. g
  OBVIOUS
<1>4. DOMAIN rows = 1 .. n /\ \A m \in 1 .. n : rows[m] = [key |-> keys[m], id |-> g + m]
  BY <1>1, <1>2, <1>3
<1>5. \A m \in 1 .. n : keys[m] \in Key
  BY <1>1
<1>6. rows \in Seq(RowType)
  <2>1. rows \in [1 .. n -> RowType]
    BY <1>1, <1>2, <1>3, <1>5 DEF RowType
  <2> QED
    BY <2>1
<1>7. \A m \in 1 .. n : rows[m].id = g + m
  BY <1>4
<1>8. Distinct(rows)
  BY <1>4, <1>7 DEF Distinct
<1>9. Rows(side) = {[key |-> q[m], id |-> m] : m \in 1 .. g}
  BY <1>2, <1>3 DEF Rows, Row
<1>10. Elems(rows) = {[key |-> keys[m], id |-> g + m] : m \in 1 .. n}
  BY <1>4 DEF Elems
<1>11. Elems(rows) \cap Rows(side) = {}
  <2>1. \A r \in Rows(side) : r.id \in 1 .. g
    BY <1>9
  <2>2. \A r \in Elems(rows) : r.id \notin 1 .. g
    <3> SUFFICES ASSUME NEW r \in Elems(rows) PROVE r.id \notin 1 .. g
      OBVIOUS
    <3>1. PICK m \in 1 .. n : r = rows[m]
      BY <1>4 DEF Elems
    <3>2. r.id = g + m
      BY <1>7, <3>1
    <3> QED
      BY <3>2
  <2> QED
    BY <2>1, <2>2
<1>12. Rows(side)' = Rows(side) \cup Elems(rows)
  <2>1. PICK h : h = q \o keys
    OBVIOUS
  <2>2. DOMAIN h = 1 .. g + n
    BY <1>1, <1>3, <2>1, ConcatElems
  <2>3. \A m \in 1 .. g : h[m] = q[m]
    BY <1>1, <1>3, <2>1, ConcatElems
  <2>4. \A m \in 1 .. n : h[g + m] = keys[m]
    BY <1>1, <1>3, <2>1, ConcatElems
  <2>5. Rows(side)' = {[key |-> h[m], id |-> m] : m \in 1 .. g + n}
    BY <1>2, <2>1, <2>2 DEF Rows, Row
  <2>6. \A m \in 1 .. g + n : m \in 1 .. g \/ \E e \in 1 .. n : m = g + e
    <3> TAKE m \in 1 .. g + n
    <3>1. CASE m <= g
      BY <3>1
    <3>2. CASE m > g
      <4>1. m - g \in 1 .. n /\ m = g + (m - g)
        BY <3>2
      <4> QED
        BY <4>1
    <3> QED
      BY <3>1, <3>2
  <2>7. (\A m \in 1 .. g : m \in 1 .. g + n) /\ \A m \in 1 .. n : g + m \in 1 .. g + n
    OBVIOUS
  <2>8. {[key |-> h[m], id |-> m] : m \in 1 .. g + n}
          = {[key |-> q[m], id |-> m] : m \in 1 .. g} \cup {[key |-> keys[m], id |-> g + m] : m \in 1 .. n}
    <3>1. ASSUME NEW m \in 1 .. g + n
          PROVE  [key |-> h[m], id |-> m] \in
                   {[key |-> q[a], id |-> a] : a \in 1 .. g} \cup {[key |-> keys[a], id |-> g + a] : a \in 1 .. n}
      BY <2>3, <2>4, <2>6
    <3>2. ASSUME NEW m \in 1 .. g
          PROVE  [key |-> q[m], id |-> m] \in {[key |-> h[a], id |-> a] : a \in 1 .. g + n}
      BY <2>3, <2>7
    <3>3. ASSUME NEW m \in 1 .. n
          PROVE  [key |-> keys[m], id |-> g + m] \in {[key |-> h[a], id |-> a] : a \in 1 .. g + n}
      BY <2>4, <2>7
    <3> QED
      BY <3>1, <3>2, <3>3
  <2> QED
    BY <1>9, <1>10, <2>5, <2>8
<1> QED
  BY <1>6, <1>8, <1>11, <1>12

(* The instances share what a producer sends.                              *)
Shares(side, new, complete) ==
    /\ Brings(side, new, complete) /\ Fresh(side, new) /\ Spread(side)'
    /\ \A s \in Side : s # side => buffers'[s] = buffers[s]
    /\ ~Splits(side) => \A i \in Instance : new[i] # 0 => ~buffers'[side][i].some

(* The buffer or the object that gets the rows.                            *)
LEMMA GrownBuffer ==
    ASSUME NEW b \in Buffer, NEW rows \in Seq(RowType), Distinct(b.rows), Distinct(rows),
           Elems(b.rows) \cap Elems(rows) = {}
    PROVE  /\ Distinct(Buffered(b, rows).rows)
           /\ Elems(Buffered(b, rows).rows) = Elems(b.rows) \cup Elems(rows)
<1>1. b.rows \in Seq(RowType) /\ Buffered(b, rows).rows = b.rows \o rows
  BY BufferedRows DEF Buffer
<1> QED
  BY <1>1, ConcatElems, ConcatDistinct

(* The shuffle: an instance gets, or has held back for it, the rows whose  *)
(* keys lead to it.                                                        *)
LEMMA ShuffleShares ==
    ASSUME HeapInv, KernelInv, NEW side \in Side, NEW rows \in Seq(RowType), Distinct(rows),
           Spread(side), Elems(rows) \cap Rows(side) = {}, Rows(side)' = Rows(side) \cup Elems(rows),
           Shuffles, Shuffle(side, rows), UNCHANGED <<plan, slot, join>>
    PROVE  \E new : Shares(side, new, FALSE)
<1>1. /\ Instance' = Instance /\ Shuffles' /\ ~Broadcast(side) /\ ~Broadcast(side)'
      /\ ~Splits(side) /\ ~Splits(side)'
  BY DEF Instance, Broadcast, Shuffles, Splits
<1> DEFINE all == [i \in Instance |-> Buffered(buffers[side][i], Shuffled(rows, i))]
<1> DEFINE full == {i \in Instance : Len(all[i].rows) >= BufferSize}
<1> DEFINE sets == [i \in Instance |-> IF i \in full THEN all[i] ELSE None]
<1> DEFINE rest == [i \in Instance |-> IF i \in full THEN None ELSE all[i]]
<1>2. buffers' = [buffers EXCEPT ![side] = rest] /\ Deliver(side, sets, FALSE)
  BY DEF Shuffle
<1>3. \A i \in Instance : buffers[side][i] \in Buffer /\ Shuffled(rows, i) \in Seq(RowType)
  BY ShuffledRows DEF HeapInv
<1>4. ASSUME NEW i \in Instance
      PROVE  /\ all[i] \in Buffer /\ all[i].some /\ all[i].rows \in Seq(RowType)
             /\ Elems(all[i].rows) = Back(i, side) \cup {r \in Elems(rows) : slot[r.key] = i}
             /\ Distinct(all[i].rows)
  <2>1. PICK b \in Buffer : b = buffers[side][i]
    BY <1>3
  <2>2. PICK x \in Seq(RowType) : x = Shuffled(rows, i)
    BY <1>3
  <2>3. all[i] = Buffered(b, x)
    BY <2>1, <2>2
  <2>4. Elems(x) = {r \in Elems(rows) : slot[r.key] = i} /\ Distinct(x)
    BY <2>2, ShuffledElems
  <2>5. Distinct(b.rows) /\ Elems(b.rows) = Back(i, side) /\ Back(i, side) \subseteq Rows(side)
    BY <2>1 DEF Spread, Clean, Back
  <2>6. Elems(b.rows) \cap Elems(x) = {}
    BY <2>4, <2>5
  <2> HIDE DEF all
  <2> QED
    <3>1. Distinct(Buffered(b, x).rows) /\ Elems(Buffered(b, x).rows) = Elems(b.rows) \cup Elems(x)
      BY <2>4, <2>5, <2>6, GrownBuffer
    <3>2. Buffered(b, x) \in Buffer /\ Buffered(b, x).some /\ Buffered(b, x).rows \in Seq(RowType)
      BY BufferedRows
    <3> QED
      BY <2>3, <2>4, <2>5, <3>1, <3>2
<1> HIDE DEF all
<1>5. \A i \in Instance :
        /\ sets[i].rows \in Seq(RowType)
        /\ i \in full => sets[i] = all[i] /\ rest[i] = None
        /\ i \notin full => sets[i] = None /\ rest[i] = all[i]
  BY <1>4, BufferFacts DEF Buffer
<1>6. buffers'[side] = rest /\ \A s \in Side : s # side => buffers'[s] = buffers[s]
  BY <1>2 DEF HeapInv
<1> HIDE DEF full, sets, rest
<1>7a. PICK new : Brings(side, new, FALSE) /\ Carries(sets, new)
  <2>1. Deliver(side, sets, FALSE) /\ \A i \in Instance : sets[i].rows \in Seq(RowType)
    BY <1>2, <1>5
  <2> QED
    BY <2>1, DeliverBrings
<1>7. /\ \A i \in Instance : new[i] # 0 <=> sets[i].some
      /\ \A i \in Instance : sets[i].some => tuples'[new[i]] = sets[i].rows
      /\ \A i, j \in Instance : new[i] = new[j] /\ new[i] # 0 => i = j
  BY <1>7a DEF Carries
<1>8. Fresh(side, new)
  BY <1>7 DEF Fresh
<1>9. ASSUME NEW i \in Instance
      PROVE  /\ Clean(i, side)' /\ (new[i] # 0 => ~buffers'[side][i].some)
             /\ LiveRows(i, side)' \cup Back(i, side)' = {r \in Rows(side)' : slot[r.key] = i}
  <2>0. LiveRows(i, side)' = LiveRows(i, side) \cup Added(new, i) /\ (Fits(i, side, new) => Clean(i, side)')
    BY <1>7a, ProducedRows
  <2> DEFINE S == {r \in Elems(rows) : slot[r.key] = i}
  <2>1. /\ Back(i, side) \cap LiveRows(i, side) = {} /\ Clean(i, side)
        /\ LiveRows(i, side) \cup Back(i, side) = {r \in Rows(side) : slot[r.key] = i}
    BY DEF Spread, Clean
  <2>2. S \cap Rows(side) = {}
    OBVIOUS
  <2>3. {r \in Rows(side)' : slot[r.key] = i} = LiveRows(i, side) \cup Back(i, side) \cup S
    BY <2>1
  <2>4. S \cap LiveRows(i, side) = {} /\ S \cap Back(i, side) = {}
    BY <2>1, <2>2
  <2>5. Elems(all[i].rows) = Back(i, side) \cup S /\ Distinct(all[i].rows) /\ all[i].some
    BY <1>4
  <2>6. Back(i, side)' = Elems(rest[i].rows)
    BY <1>6 DEF Back, Elems
  <2> HIDE DEF S
  <2>7. CASE i \in full
    <3>1. new[i] # 0 /\ tuples'[new[i]] = all[i].rows
      BY <1>5, <1>7, <2>5, <2>7
    <3>2. Added(new, i) = Back(i, side) \cup S
      BY <2>5, <3>1 DEF Added
    <3>3. buffers'[side][i] = None /\ Back(i, side)' = {}
      BY <1>5, <1>6, <2>6, <2>7, BufferFacts, EmptyElems
    <3>4. ~buffers'[side][i].some /\ buffers'[side][i].rows = <<>> /\ Distinct(buffers'[side][i].rows)
      BY <3>3, BufferFacts, EmptyElems
    <3>5. Fits(i, side, new)
      BY <2>1, <2>4, <2>5, <3>1, <3>2, <3>3, <3>4 DEF Fits
    <3> QED
      BY <2>0, <2>3, <3>2, <3>3, <3>4, <3>5
  <2>8. CASE i \notin full
    <3>1. new[i] = 0 /\ Added(new, i) = {}
      BY <1>5, <1>7, <2>8, BufferFacts DEF Added
    <3>2. buffers'[side][i] = all[i] /\ Back(i, side)' = Back(i, side) \cup S
      BY <1>5, <1>6, <2>5, <2>6, <2>8
    <3>3. buffers'[side][i].some /\ Distinct(buffers'[side][i].rows)
      BY <2>5, <3>2
    <3>4. Fits(i, side, new)
      BY <2>1, <2>4, <3>1, <3>2, <3>3 DEF Fits
    <3> QED
      BY <2>0, <2>3, <3>1, <3>2, <3>4
  <2> QED
    BY <2>7, <2>8
<1>10. Spread(side)'
  BY <1>1, <1>9 DEF Spread
<1> QED
  BY <1>1, <1>6, <1>7a, <1>8, <1>9, <1>10 DEF Shares

(* The tell: every instance gets all the rows.                             *)
LEMMA TellShares ==
    ASSUME HeapInv, KernelInv, NEW side \in Side, NEW rows \in Seq(RowType), Distinct(rows),
           Spread(side), Elems(rows) \cap Rows(side) = {}, Rows(side)' = Rows(side) \cup Elems(rows),
           Broadcast(side), Tell(side, rows), UNCHANGED <<plan, slot, join, buffers>>
    PROVE  \E new : Shares(side, new, FALSE)
<1>1. /\ Instance' = Instance /\ ~Shuffles' /\ ~Shuffles /\ Broadcast(side)'
      /\ ~Splits(side) /\ ~Splits(side)'
  BY DEF Instance, Broadcast, Shuffles, Splits
<1>2. PICK new : /\ Brings(side, new, FALSE)
                 /\ \A i \in Instance : new[i] # 0 /\ tuples'[new[i]] = rows
  BY TellBrings
<1>3. Fresh(side, new)
  BY DEF Fresh
<1>4. ASSUME NEW i \in Instance
      PROVE  Clean(i, side)' /\ ~buffers'[side][i].some /\ LiveRows(i, side)' = Rows(side)'
  <2>1. LiveRows(i, side)' = LiveRows(i, side) \cup Added(new, i) /\ (Fits(i, side, new) => Clean(i, side)')
    BY <1>2, ProducedRows
  <2>2. Added(new, i) = Elems(rows)
    BY <1>2 DEF Added
  <2>3. Clean(i, side) /\ LiveRows(i, side) = Rows(side) /\ ~buffers[side][i].some
    BY DEF Spread
  <2>4. buffers[side][i].rows = <<>> /\ Back(i, side)' = {} /\ Distinct(buffers[side][i].rows)
    BY <2>3, EmptyElems DEF Clean, Back, Elems
  <2>5. Fits(i, side, new)
    BY <1>2, <2>2, <2>3, <2>4 DEF Fits
  <2> QED
    BY <2>1, <2>2, <2>3, <2>5
<1>5. Spread(side)'
  BY <1>1, <1>4 DEF Spread
<1> QED
  BY <1>1, <1>2, <1>3, <1>4, <1>5 DEF Shares

(* The producer is complete and its buffers are sent as they are.          *)
LEMMA FlushShares ==
    ASSUME HeapInv, KernelInv, NEW side \in Side, Spread(side), Rows(side)' = Rows(side),
           Splits(side) => buffers[side][1].rows = <<>>,
           buffers' = [buffers EXCEPT ![side] = [i \in Instance |-> None]],
           Deliver(side, buffers[side], TRUE), UNCHANGED <<plan, slot, join>>
    PROVE  \E new : Shares(side, new, TRUE) /\ \A i \in Instance : new[i] # 0 => buffers[side][i].some
<1>1. /\ Instance' = Instance /\ (Shuffles' <=> Shuffles) /\ (Broadcast(side)' <=> Broadcast(side))
      /\ (Splits(side)' <=> Splits(side)) /\ (Broadcast(side) => ~Splits(side))
  BY DEF Instance, Broadcast, Shuffles, Splits
<1>2. \A i \in Instance : buffers[side][i].rows \in Seq(RowType)
  BY DEF HeapInv, Buffer
<1>3. PICK new : Brings(side, new, TRUE) /\ Carries(buffers[side], new)
  BY <1>2, DeliverBrings
<1>4. /\ \A i \in Instance : new[i] # 0 <=> buffers[side][i].some
      /\ \A i \in Instance : buffers[side][i].some => tuples'[new[i]] = buffers[side][i].rows
      /\ \A i, j \in Instance : new[i] = new[j] /\ new[i] # 0 => i = j
  BY <1>3 DEF Carries
<1>5. (\A i \in Instance : buffers'[side][i] = None) /\ \A s \in Side : s # side => buffers'[s] = buffers[s]
  BY DEF HeapInv
<1>6. Fresh(side, new)
  BY <1>4 DEF Fresh
<1>7. ASSUME NEW i \in Instance
      PROVE  /\ Clean(i, side)' /\ ~buffers'[side][i].some /\ Back(i, side)' = {}
             /\ LiveRows(i, side)' = LiveRows(i, side) \cup Back(i, side)
             /\ ~buffers[side][i].some => Back(i, side) = {}
  <2>1. LiveRows(i, side)' = LiveRows(i, side) \cup Added(new, i) /\ (Fits(i, side, new) => Clean(i, side)')
    BY <1>3, ProducedRows
  <2>2. /\ Clean(i, side) /\ Distinct(buffers[side][i].rows) /\ Back(i, side) \cap LiveRows(i, side) = {}
        /\ ~buffers[side][i].some => buffers[side][i].rows = <<>>
    BY DEF Spread, Clean
  <2>3. ~buffers[side][i].some => Back(i, side) = {}
    BY <2>2, EmptyElems DEF Back
  <2>4. Added(new, i) = Back(i, side)
    <3>1. CASE buffers[side][i].some
      BY <1>4, <3>1 DEF Added, Back
    <3>2. CASE ~buffers[side][i].some
      BY <1>4, <2>3, <3>2 DEF Added
    <3> QED
      BY <3>1, <3>2
  <2>5. ~buffers'[side][i].some /\ buffers'[side][i].rows = <<>> /\ Distinct(buffers'[side][i].rows)
    BY <1>5, BufferFacts, EmptyElems
  <2>6. Back(i, side)' = {}
    BY <2>5, EmptyElems DEF Back, Elems
  <2>7. Fits(i, side, new)
    BY <1>4, <2>2, <2>4, <2>5, <2>6 DEF Fits
  <2> QED
    BY <2>1, <2>3, <2>4, <2>5, <2>6, <2>7
<1>8. Shuffles => \A i \in Instance : LiveRows(i, side)' \cup Back(i, side)' = {r \in Rows(side)' : slot'[r.key] = i}
  BY <1>7 DEF Spread
<1>9. ASSUME Broadcast(side), NEW i \in Instance
      PROVE  LiveRows(i, side)' = Rows(side)' /\ ~buffers'[side][i].some
  <2>1. LiveRows(i, side) = Rows(side) /\ ~buffers[side][i].some
    BY <1>9 DEF Spread
  <2> QED
    BY <1>7, <2>1
<1>10. ASSUME Splits(side)
       PROVE  /\ (UNION {LiveRows(i, side)' : i \in Instance}) \cup Back(1, side)' = Rows(side)'
              /\ \A i \in Instance :
                   /\ i # 1 => Back(i, side)' = {}
                   /\ Back(1, side)' \cap LiveRows(i, side)' = {}
                   /\ \A j \in Instance : i # j => LiveRows(i, side)' \cap LiveRows(j, side)' = {}
  <2>1. 1 \in Instance
    <3>1. PICK N \in Nat : N >= 1 /\ Instance = 1 .. N
      BY PlanFacts DEF HeapInv
    <3> QED
      BY <3>1
  <2>2. Back(1, side) = {}
    BY <1>10, EmptyElems DEF Back
  <2>3. \A i \in Instance : Back(i, side) = {}
    BY <1>10, <2>2 DEF Spread
  <2>4. \A i \in Instance : LiveRows(i, side)' = LiveRows(i, side)
    BY <1>7, <2>3
  <2>5. UNION {LiveRows(i, side)' : i \in Instance} = UNION {LiveRows(i, side) : i \in Instance}
    BY <2>4
  <2> QED
    BY <1>7, <1>10, <2>1, <2>2, <2>4, <2>5 DEF Spread
<1>11. Spread(side)'
  BY <1>1, <1>7, <1>8, <1>9, <1>10 DEF Spread
<1> QED
  BY <1>3, <1>4, <1>5, <1>6, <1>7, <1>11 DEF Shares

(* The split sends what it has, x, in parts.                               *)
LEMMA SplitSends ==
    ASSUME HeapInv, KernelInv, NEW side \in Side, NEW complete \in BOOLEAN, NEW New, Spread(side),
           New \cap Rows(side) = {}, Rows(side)' = Rows(side) \cup New, Splits(side),
           NEW x \in Seq(RowType), Distinct(x), Elems(x) = Back(1, side) \cup New,
           Deliver(side, SplitArray(x), complete),
           \A i \in Instance : buffers'[side][i] = None \/ (i # 1 /\ buffers'[side][i] = buffers[side][i]),
           \A s \in Side : s # side => buffers'[s] = buffers[s],
           UNCHANGED <<plan, slot, join>>
    PROVE  \E new : Shares(side, new, complete)
<1>1. /\ Instance' = Instance /\ ~Shuffles' /\ ~Broadcast(side)' /\ Splits(side)'
  BY DEF Instance, Broadcast, Shuffles, Splits
<1>2. PICK N \in Nat : N >= 1 /\ plan.instances = N /\ Instance = 1 .. N
  BY PlanFacts DEF HeapInv
<1> DEFINE sets == SplitArray(x)
<1>3. Deliver(side, sets, complete)
  OBVIOUS
<1>4. \A i \in Instance : sets[i].rows \in Seq(RowType) /\ sets[i].some
  BY <1>2, SplitParts
<1>5. /\ UNION {Elems(sets[i].rows) : i \in Instance} = Elems(x)
      /\ \A i \in Instance :
           /\ Distinct(sets[i].rows)
           /\ \A j \in Instance : i # j => Elems(sets[i].rows) \cap Elems(sets[j].rows) = {}
  BY <1>2, SplitElems
<1> HIDE DEF sets
<1>6. PICK new : Brings(side, new, complete) /\ Carries(sets, new)
  BY <1>3, <1>4, DeliverBrings
<1>7. /\ \A i \in Instance : new[i] # 0 /\ tuples'[new[i]] = sets[i].rows
      /\ \A i, j \in Instance : new[i] = new[j] /\ new[i] # 0 => i = j
  BY <1>4, <1>6 DEF Carries
<1>8. Fresh(side, new)
  BY <1>7 DEF Fresh
<1>9. \A i \in Instance : LiveRows(i, side) \subseteq Rows(side) /\ Back(1, side) \subseteq Rows(side)
  BY DEF Spread
<1>10. 1 \in Instance
  BY <1>2
<1>11. \A i \in Instance : Added(new, i) = Elems(sets[i].rows)
  BY <1>7 DEF Added
<1>12. ASSUME NEW i \in Instance
       PROVE  /\ Clean(i, side)' /\ Back(i, side)' = {}
              /\ LiveRows(i, side)' = LiveRows(i, side) \cup Elems(sets[i].rows)
  <2>1. LiveRows(i, side)' = LiveRows(i, side) \cup Added(new, i) /\ (Fits(i, side, new) => Clean(i, side)')
    BY <1>6, ProducedRows
  <2>2. Clean(i, side) /\ Back(1, side) \cap LiveRows(i, side) = {} /\ (i # 1 => Back(i, side) = {})
    BY DEF Spread
  <2>3. Elems(sets[i].rows) \subseteq Back(1, side) \cup New
    BY <1>5
  <2>4. Elems(sets[i].rows) \cap LiveRows(i, side) = {}
    BY <1>9, <2>2, <2>3
  <2>5. /\ Distinct(buffers'[side][i].rows) /\ Elems(buffers'[side][i].rows) = {}
        /\ ~buffers'[side][i].some => buffers'[side][i].rows = <<>>
    <3>1. CASE buffers'[side][i] = None
      BY <3>1, BufferFacts, EmptyElems
    <3>2. CASE i # 1 /\ buffers'[side][i] = buffers[side][i]
      BY <2>2, <3>2 DEF Clean, Back
    <3> QED
      BY <3>1, <3>2
  <2>6. Back(i, side)' = {}
    BY <2>5 DEF Back, Elems
  <2>7. Fits(i, side, new)
    BY <1>5, <1>7, <1>11, <2>2, <2>4, <2>5, <2>6 DEF Fits
  <2> QED
    BY <1>11, <2>1, <2>6, <2>7
<1>13. UNION {LiveRows(i, side)' : i \in Instance}
         = (UNION {LiveRows(i, side) : i \in Instance}) \cup (UNION {Elems(sets[i].rows) : i \in Instance})
  BY <1>12
<1>14. (UNION {LiveRows(i, side)' : i \in Instance}) \cup Back(1, side)' = Rows(side)'
  <2>1. (UNION {LiveRows(i, side) : i \in Instance}) \cup Back(1, side) = Rows(side)
    BY DEF Spread
  <2> QED
    BY <1>5, <1>10, <1>12, <1>13, <2>1
<1>15. ASSUME NEW i \in Instance, NEW j \in Instance, i # j
       PROVE  LiveRows(i, side)' \cap LiveRows(j, side)' = {}
  <2>1. /\ LiveRows(i, side) \cap LiveRows(j, side) = {}
        /\ Back(1, side) \cap LiveRows(i, side) = {} /\ Back(1, side) \cap LiveRows(j, side) = {}
    BY <1>15 DEF Spread
  <2>2. Elems(sets[i].rows) \subseteq Back(1, side) \cup New /\ Elems(sets[j].rows) \subseteq Back(1, side) \cup New
    BY <1>5
  <2>3. Elems(sets[i].rows) \cap Elems(sets[j].rows) = {}
    BY <1>5, <1>15
  <2>4. New \cap LiveRows(i, side) = {} /\ New \cap LiveRows(j, side) = {}
    BY <1>9
  <2> QED
    BY <1>12, <2>1, <2>2, <2>3, <2>4
<1>16. Spread(side)'
  BY <1>1, <1>10, <1>12, <1>14, <1>15 DEF Spread
<1> QED
  BY <1>6, <1>8, <1>16 DEF Shares

(* The split keeps what it has.                                            *)
LEMMA SplitHolds ==
    ASSUME HeapInv, KernelInv, NEW side \in Side, NEW New, Spread(side),
           New \cap Rows(side) = {}, Rows(side)' = Rows(side) \cup New, Splits(side),
           UNCHANGED <<tuples, mail>>, Distinct(buffers'[side][1].rows),
           Elems(buffers'[side][1].rows) = Back(1, side) \cup New,
           ~buffers'[side][1].some => buffers'[side][1].rows = <<>>,
           \A i \in Instance : i # 1 => buffers'[side][i] = buffers[side][i],
           \A s \in Side : s # side => buffers'[s] = buffers[s],
           UNCHANGED <<plan, slot, join>>
    PROVE  \E new : Shares(side, new, FALSE)
<1>1. /\ Instance' = Instance /\ ~Shuffles' /\ ~Broadcast(side)' /\ Splits(side)'
  BY DEF Instance, Broadcast, Shuffles, Splits
<1>2. 1 \in Instance
  <2>1. PICK N \in Nat : N >= 1 /\ Instance = 1 .. N
    BY PlanFacts DEF HeapInv
  <2> QED
    BY <2>1
<1>3. PICK new : new = [i \in Instance |-> 0]
  OBVIOUS
<1>4. \A i \in Instance : new[i] = 0
  BY <1>3
<1>5. Brings(side, new, FALSE)
  <2>1. One(0) = <<>> /\ Last(FALSE) = <<>>
    BY DEF One, Last
  <2>2. \A q \in Seq(Nat) : q = q \o <<>> \o <<>>
    OBVIOUS
  <2>3. \A i \in Instance : mail[i][side] \in Seq(Nat)
    BY LiveObjects
  <2>4. \A i \in Instance : mail'[i][side] = mail[i][side] \o One(new[i]) \o Last(FALSE)
    BY <1>4, <2>1, <2>2, <2>3
  <2> QED
    BY <1>4, <2>4 DEF Brings
<1>6. Fresh(side, new)
  BY <1>4 DEF Fresh
<1>7. Back(1, side)' = Back(1, side) \cup New /\ \A i \in Instance : i # 1 => Back(i, side)' = Back(i, side)
  BY DEF Back, Elems
<1>8. ASSUME NEW i \in Instance PROVE Clean(i, side)' /\ LiveRows(i, side)' = LiveRows(i, side)
  <2>1. LiveRows(i, side)' = LiveRows(i, side) \cup Added(new, i) /\ (Fits(i, side, new) => Clean(i, side)')
    BY <1>5, ProducedRows
  <2>2. Added(new, i) = {}
    BY <1>4 DEF Added
  <2>3. /\ Clean(i, side) /\ Back(1, side) \cap LiveRows(i, side) = {}
        /\ Back(i, side) \cap LiveRows(i, side) = {} /\ LiveRows(i, side) \subseteq Rows(side)
    BY DEF Spread, Clean
  <2>4. Back(i, side)' \cap LiveRows(i, side) = {}
    BY <1>7, <2>3
  <2>5. /\ Distinct(buffers'[side][i].rows)
        /\ ~buffers'[side][i].some => buffers'[side][i].rows = <<>>
    BY <2>3 DEF Clean
  <2>6. Fits(i, side, new)
    BY <1>4, <2>2, <2>3, <2>4, <2>5 DEF Fits
  <2> QED
    BY <2>1, <2>2, <2>6
<1>9. UNION {LiveRows(i, side)' : i \in Instance} = UNION {LiveRows(i, side) : i \in Instance}
  BY <1>8
<1>10. (UNION {LiveRows(i, side)' : i \in Instance}) \cup Back(1, side)' = Rows(side)'
  BY <1>7, <1>9 DEF Spread
<1>11. \A i \in Instance :
         /\ i # 1 => Back(i, side)' = {}
         /\ Back(1, side)' \cap LiveRows(i, side)' = {}
         /\ \A j \in Instance : i # j => LiveRows(i, side)' \cap LiveRows(j, side)' = {}
  <2>1. \A i \in Instance : LiveRows(i, side) \subseteq Rows(side)
    BY DEF Spread
  <2> QED
    BY <1>7, <1>8, <2>1 DEF Spread
<1>12. Spread(side)'
  BY <1>1, <1>8, <1>10, <1>11 DEF Spread
<1> QED
  BY <1>5, <1>6, <1>12 DEF Shares

(* A producer sends a tuple set.                                           *)
LEMMA ProduceShares ==
    ASSUME HeapInv, KernelInv, NEW side \in Side, NEW keys \in Batch, Spread(side), Produce(side, keys)
    PROVE  \E new : Shares(side, new, FALSE)
<1>1. /\ UNCHANGED <<plan, slot, closed, join>> /\ given' = [given EXCEPT ![side] = @ \o keys]
  BY DEF Produce
<1>2. keys \in Seq(Key)
  <2>1. PICK n \in 0 .. MaxBatch : keys \in [1 .. n -> Key]
    BY DEF Batch
  <2>2. n \in Nat
    BY JoinAssumption
  <2> QED
    BY <2>1, <2>2
<1>3. given'[side] = given[side] \o keys
  BY <1>1 DEF HeapInv
<1>4. PICK rows : /\ rows = [n \in DOMAIN keys |-> [key |-> keys[n], id |-> Len(given[side]) + n]]
                  /\ \/ Shuffles /\ Shuffle(side, rows)
                     \/ Splits(side) /\ Split(side, rows)
                     \/ ~Shuffles /\ ~Splits(side) /\ Tell(side, rows) /\ UNCHANGED buffers
  BY Zenon DEF Produce
<1>5. /\ rows \in Seq(RowType) /\ Distinct(rows) /\ Elems(rows) \cap Rows(side) = {}
      /\ Rows(side)' = Rows(side) \cup Elems(rows)
  BY <1>2, <1>3, <1>4, NewRows
<1>6. CASE Shuffles /\ Shuffle(side, rows)
  BY <1>1, <1>5, <1>6, ShuffleShares
<1>7. CASE ~Shuffles /\ ~Splits(side) /\ Tell(side, rows) /\ UNCHANGED buffers
  <2>1. Broadcast(side)
    BY <1>7 DEF Broadcast
  <2> QED
    BY <1>1, <1>5, <1>7, <2>1, TellShares
<1>8. CASE Splits(side) /\ Split(side, rows)
  <2>1. PICK N \in Nat : N >= 1 /\ plan.instances = N /\ Instance = 1 .. N
    BY PlanFacts DEF HeapInv
  <2>2. 1 \in Instance
    BY <2>1
  <2>3. PICK b \in Buffer : b = buffers[side][1]
    BY <2>2 DEF HeapInv
  <2>4. PICK all : all = Buffered(b, rows)
    OBVIOUS
  <2>5. /\ Distinct(b.rows) /\ Elems(b.rows) = Back(1, side) /\ Back(1, side) \subseteq Rows(side)
        /\ ~b.some => b.rows = <<>>
    BY <1>8, <2>2, <2>3 DEF Spread, Clean, Back
  <2>6. /\ all \in Buffer /\ all.some /\ all.rows \in Seq(RowType) /\ Distinct(all.rows)
        /\ Elems(all.rows) = Back(1, side) \cup Elems(rows)
    <3>1. Elems(b.rows) \cap Elems(rows) = {}
      BY <1>5, <2>5
    <3>2. Distinct(Buffered(b, rows).rows) /\ Elems(Buffered(b, rows).rows) = Elems(b.rows) \cup Elems(rows)
      BY <1>5, <2>5, <3>1, GrownBuffer
    <3>3. Buffered(b, rows) \in Buffer /\ Buffered(b, rows).some /\ Buffered(b, rows).rows \in Seq(RowType)
      BY <1>5, BufferedRows
    <3> QED
      BY <2>4, <2>5, <3>2, <3>3
  <2>7. \/ rows = <<>> /\ UNCHANGED <<buffers, tuples, mail>>
        \/ buffers' = [buffers EXCEPT ![side][1] = None] /\ Deliver(side, SplitArray(all.rows), FALSE)
        \/ buffers' = [buffers EXCEPT ![side][1] = all] /\ UNCHANGED <<tuples, mail>>
    BY <1>8, <2>3, <2>4, Zenon DEF Split
  <2>8. buffers \in [Side -> [Instance -> Buffer]]
    BY DEF HeapInv
  <2>9. CASE rows = <<>> /\ UNCHANGED <<buffers, tuples, mail>>
    <3>1. Elems(rows) = {}
      BY <2>9, EmptyElems
    <3>2. Elems(buffers'[side][1].rows) = Back(1, side) \cup Elems(rows)
      BY <2>3, <2>5, <2>9, <3>1
    <3> QED
      BY <1>1, <1>5, <1>8, <2>3, <2>5, <2>9, <3>2, SplitHolds
  <2>10. CASE buffers' = [buffers EXCEPT ![side][1] = None] /\ Deliver(side, SplitArray(all.rows), FALSE)
    <3>1. /\ buffers'[side][1] = None
          /\ \A i \in Instance : i # 1 => buffers'[side][i] = buffers[side][i]
          /\ \A s \in Side : s # side => buffers'[s] = buffers[s]
      BY <2>2, <2>8, <2>10
    <3>2. \A i \in Instance : buffers'[side][i] = None \/ (i # 1 /\ buffers'[side][i] = buffers[side][i])
      BY <3>1
    <3> QED
      BY <1>1, <1>5, <1>8, <2>6, <2>10, <3>1, <3>2, SplitSends
  <2>11. CASE buffers' = [buffers EXCEPT ![side][1] = all] /\ UNCHANGED <<tuples, mail>>
    <3>1. /\ buffers'[side][1] = all
          /\ \A i \in Instance : i # 1 => buffers'[side][i] = buffers[side][i]
          /\ \A s \in Side : s # side => buffers'[s] = buffers[s]
      BY <2>2, <2>8, <2>11
    <3> QED
      BY <1>1, <1>5, <1>8, <2>6, <2>11, <3>1, SplitHolds
  <2> QED
    BY <2>7, <2>9, <2>10, <2>11
<1> QED
  BY <1>4, <1>6, <1>7, <1>8

(* The producer is complete.                                               *)
LEMMA CloseShares ==
    ASSUME HeapInv, KernelInv, NEW side \in Side, Spread(side), Close(side)
    PROVE  \E new : /\ Shares(side, new, TRUE)
                    /\ ~Splits(side) => \A i \in Instance : new[i] # 0 => buffers[side][i].some
<1>1. /\ UNCHANGED <<plan, slot, given, batches, join>>
      /\ buffers' = [buffers EXCEPT ![side] = [i \in Instance |-> None]]
      /\ Deliver(side, IF Splits(side) /\ buffers[side][1].rows # <<>>
                       THEN SplitArray(buffers[side][1].rows) ELSE buffers[side], TRUE)
  BY DEF Close
<1>2. Rows(side)' = Rows(side)
  BY <1>1 DEF Rows, Row
<1>3. CASE Splits(side) /\ buffers[side][1].rows # <<>>
  <2>1. PICK N \in Nat : N >= 1 /\ Instance = 1 .. N
    BY PlanFacts DEF HeapInv
  <2>2. 1 \in Instance
    BY <2>1
  <2>3. PICK x \in Seq(RowType) : x = buffers[side][1].rows
    BY <2>2 DEF HeapInv, Buffer
  <2>4. Distinct(x) /\ Elems(x) = Back(1, side) \cup {}
    BY <2>2, <2>3 DEF Spread, Clean, Back
  <2>5. Deliver(side, SplitArray(x), TRUE)
    BY <1>1, <1>3, <2>3
  <2>6. /\ \A i \in Instance : buffers'[side][i] = None \/ (i # 1 /\ buffers'[side][i] = buffers[side][i])
        /\ \A s \in Side : s # side => buffers'[s] = buffers[s]
    BY <1>1 DEF HeapInv
  <2>7. {} \cap Rows(side) = {} /\ Rows(side)' = Rows(side) \cup {}
    BY <1>2
  <2>8. \E new : Shares(side, new, TRUE)
    BY <1>1, <1>3, <2>4, <2>5, <2>6, <2>7, SplitSends
  <2> QED
    BY <1>3, <2>8
<1>4. CASE ~(Splits(side) /\ buffers[side][1].rows # <<>>)
  <2>1. Deliver(side, buffers[side], TRUE)
    BY <1>1, <1>4
  <2> QED
    BY <1>1, <1>2, <1>4, <2>1, FlushShares
<1> QED
  BY <1>3, <1>4

(* The invariants of the objects and the rows hold after a producer's step.*)
LEMMA ProducerStep ==
    ASSUME HeapInv, KernelInv, OrderInv, Distribution, NEW side \in Side, NEW new, NEW complete \in BOOLEAN,
           Shares(side, new, complete), UNCHANGED <<plan, slot, join>>, side \notin closed,
           \A s \in Side : s # side => given'[s] = given[s] /\ batches'[s] = batches[s],
           batches'[side] # 0,
           side = "left" /\ plan.batches["left"] = 1 =>
              \A i \in Instance : new[i] # 0 \/ buffers'[side][i].some => Live(i, side) = {}
    PROVE  Distribution'
<1>1. /\ Brings(side, new, complete) /\ Fresh(side, new) /\ Spread(side)'
      /\ \A s \in Side : s # side => buffers'[s] = buffers[s]
      /\ ~Splits(side) => \A i \in Instance : new[i] # 0 => ~buffers'[side][i].some
  BY DEF Shares
<1>2. OwnInv /\ SingleInv /\ SpreadInv /\ \A i \in Instance : ExactKernel(i)
  BY DEF Distribution
<1>3. Instance' = Instance
  BY DEF Instance
<1>4. OwnInv'
  BY <1>1, <1>2, ProducedOwn
<1>5. SingleInv'
  <2>1. side = "left" /\ plan.batches["left"] = 1 =>
          \A i \in Instance : /\ new[i] # 0 => Live(i, side) = {} /\ ~buffers'[side][i].some
                              /\ buffers'[side][i].some => Live(i, side) = {}
    BY <1>1 DEF Splits
  <2> QED
    BY <1>1, <1>2, <2>1, ProducedSingle
<1>6. /\ \A s \in Side : s # side /\ Spread(s) => Spread(s)'
      /\ \A i \in Instance : ExactKernel(i) => ExactKernel(i)'
  BY <1>1, ProducedSame
<1>7. SpreadInv'
  BY <1>1, <1>2, <1>6 DEF SpreadInv
<1> QED
  BY <1>2, <1>3, <1>4, <1>5, <1>6, <1>7 DEF Distribution

(* Produce keeps the distribution.                                         *)
LEMMA ProduceExact ==
    ASSUME JoinInv, Distribution, NEW side \in Side, NEW keys \in Batch, Produce(side, keys)
    PROVE  Distribution'
<1>1. HeapInv /\ KernelInv /\ OrderInv
  BY DEF JoinInv
<1>2. PICK new : Shares(side, new, FALSE)
  BY <1>1, ProduceShares DEF Distribution, SpreadInv
<1>3. /\ side \notin closed /\ UNCHANGED <<plan, slot, join>> /\ batches[side] < plan.batches[side]
      /\ batches' = [batches EXCEPT ![side] = @ + 1] /\ given' = [given EXCEPT ![side] = @ \o keys]
  BY DEF Produce
<1>4. /\ \A s \in Side : s # side => given'[s] = given[s] /\ batches'[s] = batches[s]
      /\ batches[side] \in Nat /\ batches'[side] # 0
  BY <1>1, <1>3 DEF HeapInv
<1>5. side = "left" /\ plan.batches["left"] = 1 => \A i \in Instance : Live(i, side) = {}
  BY <1>3, <1>4 DEF Distribution, SingleInv
<1> QED
  BY <1>1, <1>2, <1>3, <1>4, <1>5, ProducerStep

(* Close keeps the distribution.                                           *)
LEMMA CloseExact ==
    ASSUME JoinInv, Distribution, NEW side \in Side, Close(side)
    PROVE  Distribution'
<1>1. HeapInv /\ KernelInv /\ OrderInv
  BY DEF JoinInv
<1>2. PICK new : /\ Shares(side, new, TRUE)
                 /\ ~Splits(side) => \A i \in Instance : new[i] # 0 => buffers[side][i].some
  BY <1>1, CloseShares DEF Distribution, SpreadInv
<1>3. /\ side \notin closed /\ UNCHANGED <<plan, slot, given, batches, join>> /\ batches[side] > 0
      /\ buffers' = [buffers EXCEPT ![side] = [i \in Instance |-> None]]
  BY DEF Close
<1>4. batches[side] \in Nat /\ batches'[side] # 0
  BY <1>1, <1>3 DEF HeapInv
<1>5. \A i \in Instance : ~buffers'[side][i].some
  BY <1>1, <1>3, BufferFacts DEF HeapInv
<1>6. side = "left" /\ plan.batches["left"] = 1 =>
        \A i \in Instance : new[i] # 0 \/ buffers'[side][i].some => Live(i, side) = {}
  BY <1>2, <1>5 DEF Distribution, SingleInv, Splits
<1> QED
  BY <1>1, <1>2, <1>3, <1>4, <1>6, ProducerStep

-----------------------------------------------------------------------------
(* An instance takes what it is sent.                                      *)

(* What is left of the mail without its head.                              *)
LEMMA TailElems ==
    ASSUME NEW q \in Seq(Nat), q # <<>>, Distinct(q)
    PROVE  /\ Elems(q) = {Head(q)} \cup Elems(Tail(q)) /\ Head(q) \notin Elems(Tail(q))
           /\ Distinct(Tail(q)) /\ Head(q) \in Nat
<1>1. PICK l \in Nat : l = Len(q) /\ l >= 1
  OBVIOUS
<1>2. DOMAIN q = 1 .. l /\ Head(q) = q[1] /\ Tail(q) \in Seq(Nat) /\ Len(Tail(q)) = l - 1 /\ q[1] \in Nat
  BY <1>1
<1>3. DOMAIN Tail(q) = 1 .. l - 1 /\ \A n \in 1 .. l - 1 : Tail(q)[n] = q[n + 1]
  BY <1>1, <1>2
<1>4. PICK t : t = Tail(q)
  OBVIOUS
<1>5. \A n \in 1 .. l - 1 : n + 1 \in 1 .. l /\ n + 1 # 1
  BY <1>1
<1>6. \A n \in 1 .. l : n = 1 \/ \E m \in 1 .. l - 1 : n = m + 1
  <2> TAKE n \in 1 .. l
  <2>1. CASE n = 1
    BY <2>1
  <2>2. CASE n # 1
    <3>1. n - 1 \in 1 .. l - 1 /\ n = (n - 1) + 1
      BY <1>1, <2>2
    <3> QED
      BY <3>1
  <2> QED
    BY <2>1, <2>2
<1>7. 1 \in 1 .. l
  BY <1>1
<1>8. \A n, m \in 1 .. l : q[n] = q[m] => n = m
  BY <1>2 DEF Distinct
<1>9. DOMAIN t = 1 .. l - 1 /\ \A n \in 1 .. l - 1 : t[n] = q[n + 1]
  BY <1>3, <1>4
<1>10. Distinct(t)
  <2> SUFFICES ASSUME NEW n \in 1 .. l - 1, NEW m \in 1 .. l - 1, t[n] = t[m] PROVE n = m
    BY <1>9 DEF Distinct
  <2>1. n + 1 = m + 1
    BY <1>5, <1>8, <1>9
  <2> QED
    BY <2>1
<1>11. q[1] \notin Elems(t)
  BY <1>5, <1>7, <1>8, <1>9 DEF Elems
<1>12. Elems(q) = {q[1]} \cup Elems(t)
  <2>1. \A n \in 1 .. l : q[n] \in {q[1]} \cup Elems(t)
    <3> TAKE n \in 1 .. l
    <3>1. CASE n = 1
      BY <3>1
    <3>2. CASE n # 1
      <4>1. PICK m \in 1 .. l - 1 : n = m + 1
        BY <1>6, <3>2
      <4>2. t[m] = q[n] /\ m \in DOMAIN t
        BY <1>9, <4>1
      <4> QED
        BY <4>2 DEF Elems
    <3> QED
      BY <3>1, <3>2
  <2>2. \A n \in 1 .. l - 1 : t[n] \in Elems(q)
    BY <1>2, <1>5, <1>9 DEF Elems
  <2>3. q[1] \in Elems(q)
    BY <1>2, <1>7 DEF Elems
  <2>4. Elems(t) \subseteq Elems(q)
    BY <1>9, <2>2 DEF Elems
  <2>5. Elems(q) \subseteq {q[1]} \cup Elems(t)
    BY <1>2, <2>1 DEF Elems
  <2> QED
    BY <2>3, <2>4, <2>5
<1> QED
  BY <1>2, <1>4, <1>10, <1>11, <1>12

(* The message at the head is for an object that is not the one that grows.*)
LEMMA HeadLive ==
    ASSUME JoinInv, OwnInv, NEW i \in Instance, NEW side \in Side, ReceiveTuple(i, side),
           NEW o, o = Head(mail[i][side])
    PROVE  /\ o \in 1 .. Len(tuples) /\ o \in Live(i, side) /\ o # join[i][side]
           /\ tuples[o] \in Seq(RowType)
           /\ Elems(mail[i][side]) = {o} \cup Elems(Tail(mail[i][side]))
           /\ o \notin Elems(Tail(mail[i][side])) /\ Distinct(Tail(mail[i][side]))
<1>1. HeapInv /\ KernelInv
  BY DEF JoinInv
<1>2. mail[i][side] # <<>> /\ o # 0
  BY DEF ReceiveTuple, COMPLETE
<1>3. PICK q \in Seq(Nat) : q = mail[i][side] /\ Distinct(q)
  BY <1>1, LiveObjects DEF OwnInv
<1>4. /\ Elems(q) = {o} \cup Elems(Tail(q)) /\ o \notin Elems(Tail(q)) /\ Distinct(Tail(q))
  BY <1>2, <1>3, TailElems
<1>5. o \in Live(i, side)
  BY <1>2, <1>3, <1>4 DEF Live
<1>6. o # join[i][side]
  BY <1>2, <1>3, <1>4 DEF OwnInv
<1>7. o \in 1 .. Len(tuples) /\ tuples[o] \in Seq(RowType)
  BY <1>1, <1>5, LiveObjects
<1> QED
  BY <1>3, <1>4, <1>5, <1>6, <1>7

(* The object that grows is nobody else's: the only side that several      *)
(* instances are told comes in one tuple set.                              *)
LEMMA GrowsAlone ==
    ASSUME JoinInv, OneLeftSet, OwnInv, SingleInv, NEW i \in Instance, NEW side \in Side,
           ReceiveTuple(i, side), join[i][side] # 0
    PROVE  /\ \A j \in Instance, t \in Side : join[i][side] \in Live(j, t) => j = i /\ t = side
           /\ ~(plan.kind = "semi" /\ side = "left")
<1>1. PICK o : o = Head(mail[i][side])
  OBVIOUS
<1>2. o \in Live(i, side) /\ o # join[i][side]
  BY <1>1, HeadLive
<1>3. join[i][side] \in Live(i, side)
  BY DEF Live
<1>4. ~(side = "left" /\ plan.batches["left"] = 1)
  BY <1>2, <1>3 DEF SingleInv
<1>5. ~(plan.kind = "semi" /\ side = "left")
  BY <1>4 DEF OneLeftSet
<1>6. PICK N \in Nat : N >= 1 /\ plan.instances = N /\ Instance = 1 .. N
  BY PlanFacts DEF JoinInv, HeapInv
<1>7. ASSUME NEW j \in Instance, NEW t \in Side, join[i][side] \in Live(j, t) PROVE j = i /\ t = side
  <2>1. t = side /\ (i = j \/ Broadcast(side))
    BY <1>3, <1>7 DEF OwnInv
  <2>2. ASSUME i # j PROVE FALSE
    <3>1. plan.instances > 1
      BY <1>6, <2>2
    <3>2. plan.kind = "loop" /\ side = "left"
      BY <2>1, <2>2, <3>1 DEF Broadcast, Shuffles, Splits, Side
    <3> QED
      BY <1>4, <3>1, <3>2 DEF OneLeftSet
  <2> QED
    BY <2>1, <2>2
<1> QED
  BY <1>5, <1>7

(* What a kernel that takes the object o does; z is its new state.         *)
Takes(i, side, o, z) ==
    /\ join[i].status = "run" /\ z.status = "run"
    /\ DOMAIN join = Instance /\ join' = [join EXCEPT ![i] = z]
    /\ mail' = [mail EXCEPT ![i][side] = Tail(@)]
    /\ z[side] = IF join[i][side] = 0 THEN o ELSE join[i][side]
    /\ z[Other(side)] = join[i][Other(side)]
    /\ join[i][side] = 0 => tuples' = tuples
    /\ join[i][side] # 0 => /\ tuples'[join[i][side]] = tuples[join[i][side]] \o tuples[o]
                            /\ \A p \in 1 .. Len(tuples) : p # join[i][side] => tuples'[p] = tuples[p]
    /\ plan.kind # "semi" => z.out = join[i].out (+) Joined(side, tuples[o], Taken(i, Other(side)))
    /\ \A s \in Side : Marks(s) =>
         z.matched[s] = join[i].matched[s] \cup Adds(s, side, tuples[o], Taken(i, Other(side)), Len(Taken(i, side)))

(* ReceiveTuple takes the object at the head of the mail.                  *)
LEMMA ReceiveTakes ==
    ASSUME JoinInv, OwnInv, NEW i \in Instance, NEW side \in Side, ReceiveTuple(i, side),
           NEW o, o = Head(mail[i][side]),
           plan.kind = "semi" /\ side = "left" => join[i][side] = 0
    PROVE  \E z : Takes(i, side, o, z)
<1>1. HeapInv /\ KernelInv
  BY DEF JoinInv
<1>2. PICK l \in Nat : l = Len(tuples)
  BY <1>1 DEF HeapInv
<1>3. o \in 1 .. l /\ tuples[o] \in Seq(RowType)
  BY <1>2, HeadLive
<1>4. PICK k : k = join[i]
  OBVIOUS
<1>5. /\ DOMAIN k = Fields /\ k.matched \in [Side -> SUBSET Nat] /\ k.status = "run"
      /\ \A s \in Side : k[s] \in 0 .. l
  BY <1>1, <1>2, <1>4 DEF KernelInv, Kernels, Fields, ReceiveTuple
<1>6. PICK new \in Seq(RowType) : new = tuples[o]
  BY <1>3
<1>7. PICK other \in Side : other = Other(side) /\ other # side
  BY DEF Side, Other
<1>8. \A s \in Side : Taken(i, s) \in Seq(RowType) /\ Taken(i, s) = IF k[s] = 0 THEN <<>> ELSE tuples[k[s]]
  BY <1>1, <1>4, LiveObjects DEF Taken
<1>9. PICK old \in Seq(RowType) :
        /\ old = IF k[Other(side)] = 0 THEN <<>> ELSE tuples[k[Other(side)]]
        /\ old = Taken(i, Other(side))
  BY <1>7, <1>8
<1>10. PICK off \in Nat : off = Len(Taken(i, side)) /\ off = Offset(side, k, new) /\ (k[side] = 0 => off = 0)
  <2>1. PICK x \in Seq(RowType) : x = Taken(i, side) /\ x = IF k[side] = 0 THEN <<>> ELSE tuples[k[side]]
    BY <1>8
  <2>2. Len(x) \in Nat /\ Len(<<>>) = 0
    OBVIOUS
  <2>3. Len(x) = Offset(side, k, new)
    BY <2>1, <2>2 DEF Offset
  <2> QED
    BY <2>1, <2>2, <2>3
<1>11. PICK r : r = JoinIncoming(side, k, new)
  OBVIOUS
<1>12. DOMAIN r = Fields /\ r.left = k.left /\ r.right = k.right /\ r.status = k.status
  <2>1. JoinedFields(side, k, new, old, off, r)
    BY <1>5, <1>9, <1>10, <1>11, JoinIncomingFields, Zenon
  <2> QED
    BY <2>1, Zenon DEF JoinedFields
<1>13. /\ plan.kind # "semi" => r.out = k.out (+) Joined(side, new, old)
       /\ \A s \in Side : Marks(s) => r.matched[s] = k.matched[s] \cup Adds(s, side, new, old, off)
  <2>1. plan.kind = "semi" /\ side = "left" => off = 0
    BY <1>4, <1>10
  <2> QED
    <3>1. JoinedRows(side, k, new, old, off, r)
      BY <1>5, <1>9, <1>10, <1>11, <2>1, JoinIncomingAdds, Zenon
    <3> QED
      BY <3>1, Zenon DEF JoinedRows
<1>14. PICK h : h = IF k[side] = 0 THEN o ELSE k[side]
  OBVIOUS
<1>15. PICK z : z = [r EXCEPT ![side] = h]
  OBVIOUS
<1>16. /\ join' = [join EXCEPT ![i] = [JoinIncoming(side, join[i], tuples[Head(mail[i][side])]) EXCEPT
                    ![side] = IF join[i][side] = 0 THEN Head(mail[i][side]) ELSE join[i][side]]]
       /\ tuples' = IF join[i][side] = 0 THEN tuples
                    ELSE [tuples EXCEPT ![join[i][side]] = @ \o tuples[Head(mail[i][side])]]
       /\ mail' = [mail EXCEPT ![i][side] = Tail(@)]
  BY Zenon DEF ReceiveTuple
<1>17. join' = [join EXCEPT ![i] = z]
  BY <1>4, <1>6, <1>11, <1>14, <1>15, <1>16
<1>18. z.status = "run" /\ z.matched = r.matched /\ z.out = r.out /\ z[side] = h /\ z[other] = k[other]
  <2>1. side \in Fields /\ side # "status" /\ side # "matched" /\ side # "out"
    BY DEF Fields, Side
  <2>2. r[other] = k[other]
    BY <1>12, <1>7 DEF Side
  <2>3. other \in Fields /\ "status" \in Fields /\ "matched" \in Fields /\ "out" \in Fields
    BY DEF Fields, Side
  <2> QED
    BY <1>5, <1>7, <1>12, <1>15, <2>1, <2>2, <2>3
<1>19. join[i][side] # 0 => /\ tuples'[join[i][side]] = tuples[join[i][side]] \o tuples[o]
                            /\ \A p \in 1 .. Len(tuples) : p # join[i][side] => tuples'[p] = tuples[p]
  <2> HAVE join[i][side] # 0
  <2>1. PICK p \in 1 .. l : p = join[i][side]
    BY <1>4, <1>5
  <2>2. PICK y : y = tuples[p] \o tuples[o]
    OBVIOUS
  <2>3. DOMAIN tuples = 1 .. l
    BY <1>1, <1>2 DEF HeapInv
  <2>4. tuples' = [tuples EXCEPT ![p] = y]
    BY <1>16, <2>1, <2>2
  <2>5. tuples'[p] = y /\ \A a \in 1 .. l : a # p => tuples'[a] = tuples[a]
    BY <2>3, <2>4
  <2> QED
    BY <1>2, <2>1, <2>2, <2>5
<1>20. join[i][side] = 0 => tuples' = tuples
  BY <1>16
<1>21. DOMAIN join = Instance
  BY <1>1 DEF KernelInv
<1>22. Takes(i, side, o, z)
  BY <1>4, <1>5, <1>6, <1>7, <1>9, <1>10, <1>13, <1>14, <1>16, <1>17, <1>18, <1>19, <1>20, <1>21 DEF Takes
<1> QED
  BY <1>22

(* The objects of an instance that takes one.  The object it has, if any,  *)
(* grows by the rows of the one it takes.                                  *)
Kept ==
    \A j \in Instance, t \in Side :
       /\ Live(j, t)' \subseteq Live(j, t) /\ LiveRows(j, t)' = LiveRows(j, t)
       /\ Clean(j, t)' /\ Distinct(mail'[j][t])
       /\ join'[j][t] # 0 => join'[j][t] \notin Elems(mail'[j][t])
Keeps(i, side, o) ==
    /\ Kept
    /\ Taken(i, side)' = Taken(i, side) \o tuples[o]
    /\ \A j \in Instance, t \in Side : ~(j = i /\ t = side) => Taken(j, t)' = Taken(j, t)

(* The rows an instance has or will get stay the same when it takes an     *)
(* object.                                                                 *)
LEMMA TakesKeeps ==
    ASSUME JoinInv, OneLeftSet, OwnInv, SingleInv, SpreadInv, NEW i \in Instance, NEW side \in Side,
           ReceiveTuple(i, side), NEW o, o = Head(mail[i][side]), NEW z, Takes(i, side, o, z)
    PROVE  Keeps(i, side, o)
<1>1. HeapInv /\ KernelInv /\ UNCHANGED buffers
  BY DEF JoinInv, ReceiveTuple
<1>2. /\ o \in 1 .. Len(tuples) /\ o \in Live(i, side) /\ o # join[i][side] /\ tuples[o] \in Seq(RowType)
      /\ Elems(mail[i][side]) = {o} \cup Elems(Tail(mail[i][side]))
      /\ o \notin Elems(Tail(mail[i][side])) /\ Distinct(Tail(mail[i][side]))
  BY HeadLive
<1>3. /\ mail'[i][side] = Tail(mail[i][side])
      /\ \A j \in Instance, t \in Side : ~(j = i /\ t = side) => mail'[j][t] = mail[j][t]
  <2>1. mail' = [mail EXCEPT ![i][side] = Tail(@)]
    BY DEF Takes
  <2>2. mail \in [Instance -> [Side -> Seq(0 .. Len(tuples))]]
    BY <1>1 DEF HeapInv
  <2> QED
    BY <2>1, <2>2
<1>4. /\ join'[i][side] = IF join[i][side] = 0 THEN o ELSE join[i][side]
      /\ \A j \in Instance, t \in Side : ~(j = i /\ t = side) => join'[j][t] = join[j][t]
  <2>1. join'[i] = z /\ \A j \in Instance : j # i => join'[j] = join[j]
    BY DEF Takes
  <2>2. \A t \in Side : t = side \/ t = Other(side)
    BY DEF Side, Other
  <2>3. z[Other(side)] = join[i][Other(side)] /\ z[side] = IF join[i][side] = 0 THEN o ELSE join[i][side]
    BY DEF Takes
  <2> QED
    BY <2>1, <2>2, <2>3
<1>5. \A j \in Instance, t \in Side : Clean(j, t)
  BY DEF SpreadInv, Spread
<1>6. ASSUME NEW j \in Instance, NEW t \in Side, ~(j = i /\ t = side)
      PROVE  /\ Live(j, t)' = Live(j, t) /\ LiveRows(j, t)' = LiveRows(j, t)
             /\ Clean(j, t)' /\ Distinct(mail'[j][t])
             /\ join'[j][t] # 0 => join'[j][t] \notin Elems(mail'[j][t])
             /\ Taken(j, t)' = Taken(j, t)
  <2>1. mail'[j][t] = mail[j][t] /\ join'[j][t] = join[j][t]
    BY <1>3, <1>4, <1>6
  <2>2. Live(j, t)' = Live(j, t)
    BY <2>1, Zenon DEF Live, Elems
  <2>3. \A a \in Live(j, t) : tuples'[a] = tuples[a]
    <3>1. CASE join[i][side] = 0
      BY <3>1 DEF Takes
    <3>2. CASE join[i][side] # 0
      <4>1. join[i][side] \notin Live(j, t)
        BY <1>6, <3>2, GrowsAlone
      <4>2. Live(j, t) \subseteq 1 .. Len(tuples)
        BY <1>1, LiveObjects
      <4>3. \A a \in 1 .. Len(tuples) : a # join[i][side] => tuples'[a] = tuples[a]
        BY <3>2 DEF Takes
      <4> QED
        BY <4>1, <4>2, <4>3
    <3> QED
      BY <3>1, <3>2
  <2>4. LiveRows(j, t)' = LiveRows(j, t) /\ Clean(j, t)'
    BY <1>1, <1>5, <2>2, <2>3, SameRows
  <2>5. Taken(j, t)' = Taken(j, t)
    <3>1. join[j][t] # 0 => join[j][t] \in Live(j, t)
      BY DEF Live
    <3> QED
      BY <2>1, <2>3, <3>1 DEF Taken
  <2>6. Distinct(mail[j][t]) /\ (join[j][t] # 0 => join[j][t] \notin Elems(mail[j][t]))
    BY DEF OwnInv
  <2> QED
    BY <2>1, <2>2, <2>4, <2>5, <2>6
<1>7. Live(i, side)' = (Elems(Tail(mail[i][side])) \cup {join'[i][side]}) \ {0}
  BY <1>3 DEF Live, Elems
<1>8. CASE join[i][side] = 0
  <2>1. join'[i][side] = o /\ tuples' = tuples /\ o # 0
    BY <1>2, <1>4, <1>8 DEF Takes
  <2>2. Live(i, side)' = Live(i, side)
    BY <1>2, <1>7, <1>8, <2>1 DEF Live
  <2>3. LiveRows(i, side)' = LiveRows(i, side) /\ Clean(i, side)'
    BY <1>1, <1>5, <2>1, <2>2, SameRows
  <2>4. Taken(i, side)' = tuples[o] /\ Taken(i, side) = <<>>
    BY <1>8, <2>1 DEF Taken
  <2>5. PICK x \in Seq(RowType) : x = tuples[o]
    BY <1>2
  <2>6. x = <<>> \o x
    BY ONLY x \in Seq(RowType)
  <2>7. Taken(i, side)' = Taken(i, side) \o tuples[o]
    BY <2>4, <2>5, <2>6
  <2> QED
    BY <1>2, <1>3, <1>6, <2>1, <2>2, <2>3, <2>7 DEF Keeps, Kept
<1>9. CASE join[i][side] # 0
  <2>1. PICK p \in 1 .. Len(tuples) : p = join[i][side]
    <3>1. join[i][side] \in Live(i, side) /\ Live(i, side) \subseteq 1 .. Len(tuples)
      BY <1>1, <1>9, LiveObjects DEF Live
    <3> QED
      BY <3>1
  <2>2. /\ p \in Live(i, side) /\ p # o /\ p # 0 /\ join'[i][side] = p
        /\ p \notin Elems(mail[i][side])
    BY <1>2, <1>4, <1>9, <2>1 DEF Live, OwnInv
  <2>3. Live(i, side)' = Live(i, side) \ {o}
    BY <1>2, <1>7, <2>1, <2>2 DEF Live
  <2>4. tuples'[p] = tuples[p] \o tuples[o] /\ \A a \in 1 .. Len(tuples) : a # p => tuples'[a] = tuples[a]
    BY <1>9, <2>1 DEF Takes
  <2>5. PICK x \in Seq(RowType), y \in Seq(RowType) : x = tuples[p] /\ y = tuples[o]
    <3>1. tuples[p] \in Seq(RowType)
      BY <1>1, <2>2, LiveObjects
    <3> QED
      BY <1>2, <3>1
  <2>6. /\ \A a \in Live(i, side) : Distinct(tuples[a])
        /\ \A a, b \in Live(i, side) : a # b => Elems(tuples[a]) \cap Elems(tuples[b]) = {}
        /\ Distinct(buffers[side][i].rows) /\ Back(i, side) \cap LiveRows(i, side) = {}
        /\ ~buffers[side][i].some => buffers[side][i].rows = <<>>
    BY <1>5 DEF Clean
  <2>7. Distinct(x) /\ Distinct(y) /\ Elems(x) \cap Elems(y) = {}
    BY <1>2, <2>2, <2>5, <2>6
  <2>8. PICK w : w = tuples'[p] /\ w = x \o y
    BY <2>4, <2>5
  <2>9. Distinct(w) /\ Elems(w) = Elems(x) \cup Elems(y)
    BY <2>7, <2>8, ConcatElems, ConcatDistinct
  <2>10. Live(i, side) \subseteq 1 .. Len(tuples)
    BY <1>1, LiveObjects
  <2>11. \A a \in Live(i, side)' : a # p => tuples'[a] = tuples[a] /\ a # o /\ a \in Live(i, side)
    BY <2>3, <2>4, <2>10
  <2>12. LiveRows(i, side)' = LiveRows(i, side)
    <3>1. LiveRows(i, side)' = UNION {Elems(tuples'[a]) : a \in Live(i, side)'}
      BY DEF LiveRows, Elems
    <3>2. \A a \in Live(i, side)' : Elems(tuples'[a]) \subseteq LiveRows(i, side)
      <4>1. Elems(x) \subseteq LiveRows(i, side) /\ Elems(y) \subseteq LiveRows(i, side)
        BY <1>2, <2>2, <2>5 DEF LiveRows
      <4>2. \A a \in Live(i, side) : Elems(tuples[a]) \subseteq LiveRows(i, side)
        BY DEF LiveRows
      <4> QED
        BY <2>8, <2>9, <2>11, <4>1, <4>2
    <3>3. \A a \in Live(i, side) : \E b \in Live(i, side)' : Elems(tuples[a]) \subseteq Elems(tuples'[b])
      <4> TAKE a \in Live(i, side)
      <4>1. p \in Live(i, side)'
        BY <2>2, <2>3
      <4>2. CASE a = o \/ a = p
        BY <2>5, <2>8, <2>9, <4>1, <4>2
      <4>3. CASE a # o /\ a # p
        BY <2>3, <2>11, <4>3
      <4> QED
        BY <4>2, <4>3
    <3>4. LiveRows(i, side) \subseteq UNION {Elems(tuples'[a]) : a \in Live(i, side)'}
      BY <3>3 DEF LiveRows
    <3> QED
      BY <3>1, <3>2, <3>4
  <2>13. Clean(i, side)'
    <3>1. \A a \in Live(i, side)' : Distinct(tuples'[a])
      BY <2>6, <2>8, <2>9, <2>11
    <3>2. ASSUME NEW a \in Live(i, side)', NEW b \in Live(i, side)', a # b
          PROVE  Elems(tuples'[a]) \cap Elems(tuples'[b]) = {}
      <4>1. ASSUME NEW c \in Live(i, side)', c # p PROVE Elems(tuples'[c]) \cap Elems(w) = {}
        <5>1. tuples'[c] = tuples[c] /\ c # o /\ c \in Live(i, side)
          BY <2>11, <4>1
        <5>2. Elems(tuples[c]) \cap Elems(x) = {} /\ Elems(tuples[c]) \cap Elems(y) = {}
          BY <1>2, <2>2, <2>5, <2>6, <4>1, <5>1
        <5> QED
          BY <2>9, <5>1, <5>2
      <4>2. CASE a # p /\ b # p
        BY <2>6, <2>11, <3>2, <4>2
      <4>3. CASE a = p
        BY <2>8, <3>2, <4>1, <4>3
      <4>4. CASE b = p
        BY <2>8, <3>2, <4>1, <4>4
      <4> QED
        BY <4>2, <4>3, <4>4
    <3>3. Back(i, side)' = Back(i, side)
      BY <1>1 DEF Back, Elems
    <3> QED
      BY <1>1, <2>6, <2>12, <3>1, <3>2, <3>3 DEF Clean, Distinct, Elems
  <2>14. Taken(i, side)' = Taken(i, side) \o tuples[o]
    BY <2>1, <2>2, <2>4 DEF Taken
  <2>15. Distinct(mail'[i][side]) /\ join'[i][side] \notin Elems(mail'[i][side])
    BY <1>2, <1>3, <2>2
  <2> QED
    BY <1>6, <2>3, <2>12, <2>13, <2>14, <2>15 DEF Keeps, Kept
<1> QED
  BY <1>8, <1>9

(* A step that keeps the rows of the instances keeps the invariants about  *)
(* them.                                                                   *)
LEMMA KeptSpread ==
    ASSUME OwnInv, SingleInv, SpreadInv, Kept, UNCHANGED <<plan, slot, given, batches, buffers>>
    PROVE  OwnInv' /\ SingleInv' /\ SpreadInv'
<1>1. /\ Instance' = Instance /\ (Shuffles' <=> Shuffles)
      /\ \A s : (Broadcast(s)' <=> Broadcast(s)) /\ (Splits(s)' <=> Splits(s))
  BY DEF Instance, Broadcast, Shuffles, Splits
<1>2. \A j \in Instance, t \in Side :
        /\ Live(j, t)' \subseteq Live(j, t) /\ LiveRows(j, t)' = LiveRows(j, t) /\ Clean(j, t)'
  BY DEF Kept
<1>3. OwnInv'
  <2>1. OwnInv' <=>
         \A i \in Instance, s \in Side :
           /\ Distinct(mail'[i][s])
           /\ join'[i][s] # 0 => join'[i][s] \notin Elems(mail'[i][s])
           /\ \A j \in Instance, t \in Side :
                Live(i, s)' \cap Live(j, t)' # {} => s = t /\ (i = j \/ Broadcast(s))
    BY <1>1 DEF OwnInv, Distinct, Elems
  <2>2. ASSUME NEW i \in Instance, NEW s \in Side, NEW j \in Instance, NEW t \in Side,
               Live(i, s)' \cap Live(j, t)' # {}
        PROVE  s = t /\ (i = j \/ Broadcast(s))
    <3>1. Live(i, s) \cap Live(j, t) # {}
      BY <1>2, <2>2
    <3> QED
      BY <3>1 DEF OwnInv
  <2> QED
    BY <2>1, <2>2 DEF Kept
<1>4. SingleInv'
  <2>1. "left" \in Side
    BY DEF Side
  <2>2. \A i \in Instance : Live(i, "left")' \subseteq Live(i, "left")
    BY <1>2, <2>1
  <2>3. ASSUME plan.batches["left"] = 1, NEW i \in Instance
        PROVE  /\ batches["left"] = 0 => Live(i, "left")' = {} /\ ~buffers["left"][i].some
               /\ \A o, p \in Live(i, "left")' : o = p
               /\ buffers["left"][i].some => Live(i, "left")' = {}
    BY <2>2, <2>3 DEF SingleInv
  <2> QED
    BY <1>1, <2>3 DEF SingleInv
<1>5. ASSUME NEW s \in Side PROVE Spread(s)'
  <2>1. \A i \in Instance : LiveRows(i, s)' = LiveRows(i, s) /\ Clean(i, s)'
    BY <1>2
  <2>2. Rows(s)' = Rows(s) /\ \A i : Back(i, s)' = Back(i, s)
    BY DEF Rows, Row, Back, Elems
  <2>3. buffers' = buffers /\ slot' = slot
    OBVIOUS
  <2>4. UNION {LiveRows(i, s)' : i \in Instance} = UNION {LiveRows(i, s) : i \in Instance}
    BY <2>1
  <2>5. Spread(s)
    BY DEF SpreadInv
  <2> QED
    BY <1>1, <2>1, <2>2, <2>3, <2>4, <2>5 DEF Spread
<1> QED
  BY <1>3, <1>4, <1>5 DEF SpreadInv

(* The rows a kernel has are distinct.                                     *)
LEMMA TakenRows ==
    ASSUME SpreadInv, NEW i \in Instance, NEW s \in Side
    PROVE  /\ Distinct(Taken(i, s))
           /\ \A o \in Live(i, s) : /\ Distinct(tuples[o])
                                    /\ o # join[i][s] => Elems(Taken(i, s)) \cap Elems(tuples[o]) = {}
<1>1. Clean(i, s)
  BY DEF SpreadInv, Spread
<1>2. CASE join[i][s] = 0
  BY <1>1, <1>2, EmptyElems DEF Taken, Clean
<1>3. CASE join[i][s] # 0
  <2>1. join[i][s] \in Live(i, s) /\ Taken(i, s) = tuples[join[i][s]]
    BY <1>3 DEF Live, Taken
  <2> QED
    BY <1>1, <2>1 DEF Clean
<1> QED
  BY <1>2, <1>3

(* ReceiveTuple keeps the distribution, and the kernel has joined the rows *)
(* it got.                                                                 *)
LEMMA ReceiveTupleExact ==
    ASSUME JoinInv, OneLeftSet, Distribution, NEW i \in Instance, NEW side \in Side, ReceiveTuple(i, side)
    PROVE  Distribution'
<1>1. OwnInv /\ SingleInv /\ SpreadInv /\ \A j \in Instance : ExactKernel(j)
  BY DEF Distribution
<1>2. HeapInv /\ KernelInv /\ UNCHANGED <<plan, slot, given, batches, closed, buffers>>
  BY DEF JoinInv, ReceiveTuple
<1>3. PICK o : o = Head(mail[i][side])
  OBVIOUS
<1>4. o \in Live(i, side) /\ o # join[i][side] /\ tuples[o] \in Seq(RowType)
  BY <1>1, <1>3, HeadLive
<1>5. PICK z : Takes(i, side, o, z)
  <2>1. plan.kind = "semi" /\ side = "left" => join[i][side] = 0
    BY <1>1, GrowsAlone
  <2> QED
    BY <1>1, <1>3, <2>1, ReceiveTakes
<1>6. Keeps(i, side, o)
  BY <1>1, <1>3, <1>5, TakesKeeps
<1>7. OwnInv' /\ SingleInv' /\ SpreadInv'
  BY <1>1, <1>2, <1>6, KeptSpread DEF Keeps
<1>8. join'[i] = z /\ \A j \in Instance : j # i => join'[j] = join[j]
  BY <1>5 DEF Takes
<1>9. /\ Taken(i, side)' = Taken(i, side) \o tuples[o]
      /\ \A j \in Instance, t \in Side : ~(j = i /\ t = side) => Taken(j, t)' = Taken(j, t)
  BY <1>6 DEF Keeps
<1>10. "left" \in Side /\ "right" \in Side /\ Other("left") = "right" /\ Other("right") = "left"
  BY DEF Side, Other
<1>11. ASSUME NEW j \in Instance, j # i PROVE ExactKernel(j)'
  BY <1>1, <1>2, <1>8, <1>9, <1>10, <1>11, SameKernel
<1>12. ExactKernel(i)'
  <2>1. PICK x \in Seq(RowType), y \in Seq(RowType), new \in Seq(RowType) :
          x = Taken(i, "left") /\ y = Taken(i, "right") /\ new = tuples[o]
    BY <1>2, <1>4, <1>10, LiveObjects
  <2>2. Distinct(x) /\ Distinct(y) /\ Distinct(new) /\ Elems(Taken(i, side)) \cap Elems(new) = {}
    BY <1>1, <1>4, <1>10, <2>1, TakenRows
  <2>3. PICK out, matched : out = join[i].out /\ matched = join[i].matched
    OBVIOUS
  <2>4. ExactRun(out, matched, x, y)
    BY <1>1, <1>5, <2>1, <2>3 DEF ExactKernel, Takes
  <2>5. PICK m, u : m = z.matched /\ u = z.out
    OBVIOUS
  <2>6. /\ plan.kind # "semi" => u = out (+) Joined(side, new, Taken(i, Other(side)))
        /\ \A s \in Side : Marks(s) =>
             m[s] = matched[s] \cup Adds(s, side, new, Taken(i, Other(side)), Len(Taken(i, side)))
        /\ z.status = "run"
    BY <1>5, <2>1, <2>3, <2>5 DEF Takes
  <2>7. PICK v, w : v = Taken(i, "left")' /\ w = Taken(i, "right")'
    OBVIOUS
  <2>8. ExactRun(u, m, v, w)
    <3>1. CASE side = "left"
      <4>1. v = x \o new /\ w = y
        BY <1>9, <1>10, <2>1, <2>7, <3>1
      <4>2. /\ plan.kind # "semi" => u = out (+) Joined("left", new, y)
            /\ \A s \in Side : Marks(s) => m[s] = matched[s] \cup Adds(s, "left", new, y, Len(x))
            /\ Elems(x) \cap Elems(new) = {}
        BY <1>10, <2>1, <2>2, <2>6, <3>1
      <4>3. ExactRun(u, m, x \o new, y)
        BY <2>2, <2>4, <4>2, GrownLeft
      <4> QED
        BY <4>1, <4>3
    <3>2. CASE side = "right"
      <4>1. v = x /\ w = y \o new
        BY <1>9, <1>10, <2>1, <2>7, <3>2
      <4>2. /\ plan.kind # "semi" => u = out (+) Joined("right", new, x)
            /\ \A s \in Side : Marks(s) => m[s] = matched[s] \cup Adds(s, "right", new, x, Len(y))
            /\ Elems(y) \cap Elems(new) = {}
        BY <1>10, <2>1, <2>2, <2>6, <3>2
      <4>3. ExactRun(u, m, x, y \o new)
        BY <2>2, <2>4, <4>2, GrownRight
      <4> QED
        BY <4>1, <4>3
    <3> QED
      BY <3>1, <3>2 DEF Side
  <2>9. /\ join'[i].status = "run" /\ join'[i].out = u /\ join'[i].matched = m
        /\ Taken(i, "left")' = v /\ Taken(i, "right")' = w
    BY <1>8, <2>5, <2>6, <2>7
  <2>10. (Marks("left")' <=> Marks("left")) /\ (Marks("right")' <=> Marks("right")) /\ plan'.kind = plan.kind
    BY <1>2 DEF Marks
  <2>11. ExactRun(join[i].out, join[i].matched, Taken(i, "left"), Taken(i, "right"))'
    BY <2>8, <2>9, <2>10 DEF ExactRun
  <2> QED
    BY <2>9, <2>11 DEF ExactKernel
<1>13. Instance' = Instance
  BY <1>2 DEF Instance
<1> QED
  BY <1>7, <1>11, <1>12, <1>13 DEF Distribution

(* ReceiveComplete keeps the distribution, and finalize completes the join *)
(* of the kernel.                                                          *)
LEMMA ReceiveCompleteExact ==
    ASSUME JoinInv, Distribution, NEW i \in Instance, NEW side \in Side, ReceiveComplete(i, side)
    PROVE  Distribution'
<1>1. OwnInv /\ SingleInv /\ SpreadInv /\ \A j \in Instance : ExactKernel(j)
  BY DEF Distribution
<1>2. HeapInv /\ KernelInv /\ UNCHANGED <<plan, slot, given, batches, closed, tuples, buffers>>
  BY DEF JoinInv, ReceiveComplete
<1>3. mail[i][side] # <<>> /\ Head(mail[i][side]) = 0 /\ mail' = [mail EXCEPT ![i][side] = Tail(@)]
  BY DEF ReceiveComplete, COMPLETE
<1>4. PICK q \in Seq(Nat) : q = mail[i][side] /\ Distinct(q)
  BY <1>1, <1>2, LiveObjects DEF OwnInv
<1>5. Elems(q) = {0} \cup Elems(Tail(q)) /\ Distinct(Tail(q))
  BY <1>3, <1>4, TailElems
<1>6. /\ mail'[i][side] = Tail(q)
      /\ \A j \in Instance, t \in Side : ~(j = i /\ t = side) => mail'[j][t] = mail[j][t]
  <2>1. mail \in [Instance -> [Side -> Seq(0 .. Len(tuples))]]
    BY <1>2 DEF HeapInv
  <2> QED
    BY <1>3, <1>4, <2>1
<1>7. PICK k : k = [join[i] EXCEPT !.complete = @ \cup {side}]
  OBVIOUS
<1>8. PICK z : z = IF k.complete # Side THEN k
                   ELSE [Finalize(k) EXCEPT !.status = IF k.left # 0 /\ k.right # 0 THEN "done" ELSE "error"]
  OBVIOUS
<1>9. join' = [join EXCEPT ![i] = z] /\ DOMAIN join = Instance /\ join[i].status = "run"
  BY <1>2, <1>7, <1>8 DEF ReceiveComplete, KernelInv
<1>10. join'[i] = z /\ \A j \in Instance : j # i => join'[j] = join[j]
  BY <1>9
<1>11. /\ DOMAIN k = Fields /\ k.left = join[i].left /\ k.right = join[i].right /\ k.matched = join[i].matched
       /\ k.out = join[i].out /\ k.status = "run"
  <2>1. DOMAIN join[i] = Fields
    BY <1>2 DEF KernelInv, Kernels, Fields
  <2> QED
    BY <1>7, <1>9, <2>1 DEF Fields
<1>12. PICK r : r = Finalize(k)
  OBVIOUS
<1>13. DOMAIN r = Fields /\ r.left = k.left /\ r.right = k.right /\ r.complete = k.complete
  BY <1>11, <1>12, FinalizeFields
<1>14. z.left = join[i].left /\ z.right = join[i].right
  BY <1>8, <1>11, <1>12, <1>13 DEF Fields
<1>15. \A j \in Instance, t \in Side : join'[j][t] = join[j][t]
  BY <1>10, <1>14 DEF Side
<1>16. Kept
  <2> SUFFICES ASSUME NEW j \in Instance, NEW t \in Side
               PROVE  /\ Live(j, t)' \subseteq Live(j, t) /\ LiveRows(j, t)' = LiveRows(j, t)
                      /\ Clean(j, t)' /\ Distinct(mail'[j][t])
                      /\ join'[j][t] # 0 => join'[j][t] \notin Elems(mail'[j][t])
    BY DEF Kept
  <2>1. Elems(mail'[j][t]) \ {0} = Elems(mail[j][t]) \ {0} /\ Distinct(mail'[j][t])
    <3>1. CASE j = i /\ t = side
      BY <1>4, <1>5, <1>6, <3>1
    <3>2. CASE ~(j = i /\ t = side)
      BY <1>1, <1>6, <3>2 DEF OwnInv
    <3> QED
      BY <3>1, <3>2
  <2>2. Live(j, t)' = (Elems(mail'[j][t]) \cup {join[j][t]}) \ {0}
    BY <1>15 DEF Live, Elems
  <2>3. Live(j, t)' = Live(j, t)
    BY <2>1, <2>2 DEF Live
  <2>4. Clean(j, t)
    BY <1>1 DEF SpreadInv, Spread
  <2>5. LiveRows(j, t)' = LiveRows(j, t) /\ Clean(j, t)'
    BY <1>2, <2>3, <2>4, SameRows
  <2>6. join[j][t] # 0 => join[j][t] \notin Elems(mail[j][t])
    BY <1>1 DEF OwnInv
  <2> QED
    BY <1>15, <2>1, <2>3, <2>5, <2>6
<1>17. OwnInv' /\ SingleInv' /\ SpreadInv'
  BY <1>1, <1>2, <1>16, KeptSpread
<1>18. \A j \in Instance, t \in Side : Taken(j, t)' = Taken(j, t)
  BY <1>2, <1>15 DEF Taken
<1>19. "left" \in Side /\ "right" \in Side
  BY DEF Side
<1>20. ASSUME NEW j \in Instance, j # i PROVE ExactKernel(j)'
  BY <1>1, <1>2, <1>10, <1>18, <1>19, <1>20, SameKernel
<1>21. ExactKernel(i)'
  <2>1. PICK x \in Seq(RowType), y \in Seq(RowType) : x = Taken(i, "left") /\ y = Taken(i, "right")
    BY <1>2, <1>19, LiveObjects
  <2>2. Taken(i, "left")' = x /\ Taken(i, "right")' = y
    BY <1>18, <1>19, <2>1
  <2>3. ExactRun(k.out, k.matched, x, y)
    BY <1>1, <1>9, <1>11, <2>1 DEF ExactKernel
  <2>4. CASE k.complete # Side
    <3>1. join'[i] = k
      BY <1>8, <1>10, <2>4
    <3>2. (Marks("left")' <=> Marks("left")) /\ (Marks("right")' <=> Marks("right")) /\ plan'.kind = plan.kind
      BY <1>2 DEF Marks
    <3>3. ExactRun(join[i].out, join[i].matched, Taken(i, "left"), Taken(i, "right"))'
      BY <2>2, <2>3, <3>1, <3>2 DEF ExactRun
    <3> QED
      BY <1>11, <3>1, <3>3 DEF ExactKernel
  <2>5. CASE k.complete = Side
    <3>1. z = [r EXCEPT !.status = IF k.left # 0 /\ k.right # 0 THEN "done" ELSE "error"]
      BY <1>8, <1>12, <2>5
    <3>2. /\ z.status = IF k.left # 0 /\ k.right # 0 THEN "done" ELSE "error"
          /\ z.complete = Side /\ z.out = r.out
      BY <1>13, <2>5, <3>1 DEF Fields
    <3>3. ASSUME k.left # 0, k.right # 0 PROVE OnceEach(r.out, Result(Elems(x), Elems(y)))
      <4>1. x = tuples[k.left] /\ y = tuples[k.right]
        BY <1>11, <2>1, <3>3 DEF Taken
      <4> QED
        BY <1>11, <1>12, <2>3, <3>3, <4>1, FinalExact
    <3>4. Result(Elems(Taken(i, "left")), Elems(Taken(i, "right")))' = Result(Elems(x), Elems(y))
      BY <1>2, <2>2 DEF Result
    <3>5. z.status # "run" /\ (z.status = "done" => k.left # 0 /\ k.right # 0)
      BY <3>2
    <3> QED
      BY <1>10, <3>2, <3>3, <3>4, <3>5 DEF ExactKernel, OnceEach, Side
  <2> QED
    BY <2>4, <2>5
<1>22. Instance' = Instance
  BY <1>2 DEF Instance
<1> QED
  BY <1>17, <1>20, <1>21, <1>22 DEF Distribution

-----------------------------------------------------------------------------
(* The invariant, and what it says in the end.                             *)

(* Nothing is sent and nothing is joined at first.                         *)
LEMMA ExactInitial == Init => ExactInv
<1> SUFFICES ASSUME Init PROVE SlotInv /\ Distribution
  BY DEF ExactInv
<1>1. SlotInv
  BY DEF Init, SlotInv
<1>2. \A i \in Instance, s \in Side :
        /\ mail[i][s] = <<>> /\ join[i] = Kernel /\ buffers[s][i] = None /\ given[s] = <<>>
  BY DEF Init
<1>3. Kernel.status = "run" /\ Kernel.out = EmptyBag /\ \A s \in Side : Kernel[s] = 0 /\ Kernel.matched[s] = {}
  BY DEF Kernel, Side
<1>4. \A i \in Instance, s \in Side : join[i][s] = 0 /\ Elems(mail[i][s]) = {} /\ Distinct(mail[i][s])
  BY <1>2, <1>3, EmptyElems
<1>5. \A i \in Instance, s \in Side :
        Live(i, s) = {} /\ LiveRows(i, s) = {} /\ Back(i, s) = {} /\ Taken(i, s) = <<>>
  <2> TAKE i \in Instance, s \in Side
  <2>1. Live(i, s) = {}
    BY <1>4 DEF Live
  <2>2. LiveRows(i, s) = {}
    BY <2>1 DEF LiveRows
  <2>3. Back(i, s) = {}
    BY <1>2, BufferFacts, EmptyElems DEF Back
  <2> QED
    BY <1>4, <2>1, <2>2, <2>3 DEF Taken
<1>6. OwnInv
  BY <1>4, <1>5 DEF OwnInv
<1>7. SingleInv
  BY <1>2, <1>5, BufferFacts DEF SingleInv, Side
<1>8. ASSUME NEW s \in Side PROVE Spread(s)
  <2>1. Rows(s) = {}
    <3>1. given[s] = <<>>
      BY DEF Init
    <3> QED
      BY <3>1, EmptyElems DEF Rows
  <2>2. \A i \in Instance : Clean(i, s)
    BY <1>2, <1>5, BufferFacts, EmptyElems DEF Clean
  <2>3. \A i \in Instance : ~buffers[s][i].some /\ LiveRows(i, s) = {} /\ Back(i, s) = {}
    BY <1>2, <1>5, BufferFacts
  <2>4. (UNION {LiveRows(i, s) : i \in Instance}) = {}
    BY <2>3
  <2>5. 1 \in Instance
    <3>1. PICK N \in Nat : N >= 1 /\ Instance = 1 .. N
      BY PlanFacts DEF Init
    <3> QED
      BY <3>1
  <2> QED
    BY <2>1, <2>2, <2>3, <2>4, <2>5 DEF Spread
<1>9. ASSUME NEW i \in Instance PROVE ExactKernel(i)
  <2>1. Taken(i, "left") = <<>> /\ Taken(i, "right") = <<>> /\ join[i] = Kernel
    BY <1>2, <1>5 DEF Side
  <2>2. Kernel.matched["left"] = {} /\ Kernel.matched["right"] = {}
    BY <1>3 DEF Side
  <2>3. Meeting({}, {}) = {} /\ Hits(<<>>, {}) = {}
    BY EmptyElems DEF Meeting, Hits
  <2>4. ExactRun(Kernel.out, Kernel.matched, <<>>, <<>>)
    BY <1>3, <2>2, <2>3, EmptyElems, OnceNone DEF ExactRun
  <2> QED
    BY <1>3, <2>1, <2>4 DEF ExactKernel
<1> QED
  BY <1>1, <1>6, <1>7, <1>8, <1>9 DEF Distribution, SpreadInv

(* Every step keeps the strengthened invariant.                            *)
LEMMA ExactStep == JoinInv /\ ExactInv /\ [Next]_vars => ExactInv'
<1> SUFFICES ASSUME JoinInv, ExactInv, [Next]_vars, OneLeftSet' PROVE SlotInv' /\ Distribution'
  BY DEF ExactInv
<1>1. ASSUME UNCHANGED <<plan, slot>> PROVE OneLeftSet /\ SlotInv' /\ Distribution
  <2>1. OneLeftSet
    BY <1>1 DEF OneLeftSet
  <2>2. SlotInv /\ Distribution
    BY <2>1 DEF ExactInv
  <2> QED
    BY <1>1, <2>1, <2>2 DEF SlotInv, Shuffles, Instance
<1>2. ASSUME NEW side \in Side, Close(side) PROVE SlotInv' /\ Distribution'
  BY <1>1, <1>2, CloseExact DEF Close
<1>3. ASSUME NEW side \in Side, NEW keys \in Batch, Produce(side, keys) PROVE SlotInv' /\ Distribution'
  BY <1>1, <1>3, ProduceExact DEF Produce
<1>4. ASSUME NEW i \in Instance, NEW side \in Side, ReceiveTuple(i, side) PROVE SlotInv' /\ Distribution'
  BY <1>1, <1>4, ReceiveTupleExact DEF ReceiveTuple
<1>5. ASSUME NEW i \in Instance, NEW side \in Side, ReceiveComplete(i, side) PROVE SlotInv' /\ Distribution'
  BY <1>1, <1>5, ReceiveCompleteExact DEF ReceiveComplete
<1>6. ASSUME UNCHANGED vars PROVE SlotInv' /\ Distribution'
  <2>1. UNCHANGED <<plan, slot, given, batches, closed, tuples, buffers, mail, join>>
    BY <1>6 DEF vars
  <2>2. OwnInv /\ SingleInv /\ SpreadInv /\ \A i \in Instance : ExactKernel(i)
    BY <1>1, <2>1 DEF Distribution
  <2>3. \A j \in Instance, t \in Side : Live(j, t)' = Live(j, t) /\ Taken(j, t)' = Taken(j, t)
    BY <2>1 DEF Live, Taken, Elems
  <2>4. \A j \in Instance, t \in Side : LiveRows(j, t)' = LiveRows(j, t) /\ Clean(j, t)'
    BY <2>1, <2>2, <2>3, SameRows DEF SpreadInv, Spread
  <2>5. Kept
    BY <2>1, <2>2, <2>3, <2>4 DEF Kept, OwnInv
  <2>6. OwnInv' /\ SingleInv' /\ SpreadInv'
    BY <2>1, <2>2, <2>5, KeptSpread
  <2>7. \A j \in Instance : ExactKernel(j)'
    BY <2>1, <2>2, <2>3, SameKernel DEF Side
  <2>8. Instance' = Instance
    BY <2>1 DEF Instance
  <2> QED
    BY <1>1, <2>1, <2>6, <2>7, <2>8 DEF Distribution
<1> QED
  BY <1>2, <1>3, <1>4, <1>5, <1>6 DEF Next, Ended

(* What is promised is the join of the two inputs.                         *)
LEMMA ReferenceIs == Reference = Result(Rows("left"), Rows("right"))
<1>1. Matching("left") = Met(Rows("left"), Rows("right")) /\ Matching("right") = Met(Rows("right"), Rows("left"))
  BY DEF Matching, Met, Other
<1> QED
  BY <1>1 DEF Reference, Result, Meeting

(* The instances together have the results, each of them at one.           *)
Parts(L, R, A, B) ==
    /\ UNION {Result(L[i], R[i]) : i \in Instance} = Result(A, B)
    /\ \A i, j \in Instance : i # j => Result(L[i], R[i]) \cap Result(L[j], R[j]) = {}

(* Rows that meet have the same slot.                                      *)
LEMMA HashParts ==
    ASSUME NEW A \in SUBSET RowType, NEW B \in SUBSET RowType, NEW L, NEW R, Shuffles, SlotInv,
           \A i \in Instance : L[i] = {r \in A : slot[r.key] = i} /\ R[i] = {r \in B : slot[r.key] = i}
    PROVE  Parts(L, R, A, B)
<1>1. \A r \in A \cup B : slot[r.key] \in Instance /\ r # Null
  BY JoinAssumption DEF SlotInv, RowType
<1>2. ASSUME NEW i \in Instance
      PROVE  /\ Met(L[i], R[i]) = {r \in Met(A, B) : slot[r.key] = i}
             /\ Met(R[i], L[i]) = {r \in Met(B, A) : slot[r.key] = i}
             /\ Meeting(L[i], R[i]) = {x \in Meeting(A, B) : slot[x[1].key] = i}
  <2>1. L[i] = {r \in A : slot[r.key] = i} /\ R[i] = {r \in B : slot[r.key] = i}
    OBVIOUS
  <2>2. Met(L[i], R[i]) = {r \in Met(A, B) : slot[r.key] = i}
    BY <2>1 DEF Met
  <2>3. Met(R[i], L[i]) = {r \in Met(B, A) : slot[r.key] = i}
    BY <2>1 DEF Met
  <2>4. Meeting(L[i], R[i]) = {x \in Meeting(A, B) : slot[x[1].key] = i}
    BY <2>1 DEF Meeting
  <2> QED
    BY <2>2, <2>3, <2>4
<1>3. CASE plan.kind = "semi"
  <2>1. \A i \in Instance : Result(L[i], R[i]) = {r \in Met(A, B) : slot[r.key] = i}
    BY <1>2, <1>3 DEF Result
  <2>2. Result(A, B) = Met(A, B) /\ Met(A, B) \subseteq A
    BY <1>3 DEF Result, Met
  <2> QED
    BY <1>1, <2>1, <2>2 DEF Parts
<1>4. CASE plan.kind # "semi"
  <2> DEFINE Home(x) == IF x[1] = Null THEN slot[x[2].key] ELSE slot[x[1].key]
  <2>1. Result(A, B) = Meeting(A, B)
                       \cup {<<r, Null>> : r \in IF plan.left THEN A \ Met(A, B) ELSE {}}
                       \cup {<<Null, r>> : r \in IF plan.right THEN B \ Met(B, A) ELSE {}}
    BY <1>4 DEF Result
  <2>2. \A x \in Meeting(A, B) : x[1] \in A /\ x[1] # Null /\ Home(x) = slot[x[1].key]
    BY <1>1 DEF Meeting
  <2>3. \A r \in A : <<r, Null>>[1] = r /\ r # Null /\ Home(<<r, Null>>) = slot[r.key]
    BY <1>1
  <2>4. \A r \in B : Home(<<Null, r>>) = slot[r.key]
    OBVIOUS
  <2> HIDE DEF Home
  <2>5. \A x \in Result(A, B) : Home(x) \in Instance
    BY <1>1, <2>1, <2>2, <2>3, <2>4
  <2>6. ASSUME NEW i \in Instance PROVE Result(L[i], R[i]) = {x \in Result(A, B) : Home(x) = i}
    <3>1. Result(L[i], R[i]) = Meeting(L[i], R[i])
                       \cup {<<r, Null>> : r \in IF plan.left THEN L[i] \ Met(L[i], R[i]) ELSE {}}
                       \cup {<<Null, r>> : r \in IF plan.right THEN R[i] \ Met(R[i], L[i]) ELSE {}}
      BY <1>4 DEF Result
    <3>2. Meeting(L[i], R[i]) = {x \in Meeting(A, B) : Home(x) = i}
      BY <1>2, <2>2
    <3>3. L[i] \ Met(L[i], R[i]) = {r \in A \ Met(A, B) : slot[r.key] = i}
      BY <1>2
    <3>4. R[i] \ Met(R[i], L[i]) = {r \in B \ Met(B, A) : slot[r.key] = i}
      BY <1>2
    <3>5. {<<r, Null>> : r \in IF plan.left THEN L[i] \ Met(L[i], R[i]) ELSE {}}
            = {x \in {<<r, Null>> : r \in IF plan.left THEN A \ Met(A, B) ELSE {}} : Home(x) = i}
      BY <2>3, <3>3
    <3>6. {<<Null, r>> : r \in IF plan.right THEN R[i] \ Met(R[i], L[i]) ELSE {}}
            = {x \in {<<Null, r>> : r \in IF plan.right THEN B \ Met(B, A) ELSE {}} : Home(x) = i}
      BY <2>4, <3>4
    <3> QED
      BY <2>1, <3>1, <3>2, <3>5, <3>6
  <2> QED
    BY <2>5, <2>6 DEF Parts
<1> QED
  BY <1>3, <1>4

(* Every row of the right side is with all the rows of the left side once. *)
LEMMA LoopParts ==
    ASSUME NEW A, NEW B, NEW L, NEW R, plan.kind # "semi", ~plan.left, ~plan.right,
           \A i \in Instance : L[i] = A, UNION {R[i] : i \in Instance} = B,
           \A i, j \in Instance : i # j => R[i] \cap R[j] = {}
    PROVE  Parts(L, R, A, B)
<1>1. \A i \in Instance : Result(L[i], R[i]) = Meeting(A, R[i])
  BY DEF Result
<1>2. Result(A, B) = Meeting(A, B)
  BY DEF Result
<1>3. \A i, j \in Instance : i # j => Meeting(A, R[i]) \cap Meeting(A, R[j]) = {}
  BY DEF Meeting
<1>4. UNION {Meeting(A, R[i]) : i \in Instance} = Meeting(A, B)
  <2>1. \A i \in Instance : Meeting(A, R[i]) \subseteq Meeting(A, B)
    BY DEF Meeting
  <2>2. \A x \in Meeting(A, B) : \E i \in Instance : x \in Meeting(A, R[i])
    BY DEF Meeting
  <2> QED
    BY <2>1, <2>2
<1> QED
  BY <1>1, <1>2, <1>3, <1>4 DEF Parts

(* One instance gets everything.                                           *)
LEMMA OnePart ==
    ASSUME NEW A, NEW B, NEW L, NEW R, Instance = {1}, L[1] = A, R[1] = B
    PROVE  Parts(L, R, A, B)
<1>1. UNION {Result(L[i], R[i]) : i \in Instance} = Result(A, B)
  OBVIOUS
<1> QED
  BY <1>1 DEF Parts

(* When all the instances are done nothing is on its way or held back.     *)
LEMMA AllTaken ==
    ASSUME JoinInv, Distribution, \A i \in Instance : join[i].status = "done"
    PROVE  \A i \in Instance, s \in Side :
             Elems(Taken(i, s)) = LiveRows(i, s) /\ Back(i, s) = {}
<1> TAKE i \in Instance, s \in Side
<1>1. join[i].complete = Side
  BY DEF Distribution, ExactKernel
<1>2. s \in closed /\ mail[i][s] = <<>>
  BY <1>1 DEF JoinInv, OrderInv
<1>3. Live(i, s) = {join[i][s]} \ {0}
  BY <1>2, EmptyElems DEF Live
<1>4. Elems(Taken(i, s)) = LiveRows(i, s)
  <2>1. CASE join[i][s] = 0
    BY <1>3, <2>1, EmptyElems DEF LiveRows, Taken
  <2>2. CASE join[i][s] # 0
    BY <1>3, <2>2 DEF LiveRows, Taken
  <2> QED
    BY <2>1, <2>2
<1>5. ~Held(i, s) /\ Spread(s)
  BY <1>2 DEF JoinInv, FedInv, Distribution, SpreadInv
<1>6. Back(i, s) = {}
  <2>1. CASE Splits(s)
    <3>1. buffers[s][1].rows = <<>>
      BY <1>5, <2>1 DEF Held
    <3>2. Back(1, s) = {}
      BY <3>1, EmptyElems DEF Back
    <3> QED
      BY <1>5, <2>1, <3>2 DEF Spread
  <2>2. CASE ~Splits(s)
    <3>1. buffers[s][i].rows = <<>>
      BY <1>5, <2>2 DEF Held, Spread, Clean
    <3> QED
      BY <3>1, EmptyElems DEF Back
  <2> QED
    BY <2>1, <2>2
<1> QED
  BY <1>4, <1>6

(* When all are done the kernels have their parts of the join.             *)
LEMMA ExactImplies == JoinInv /\ ExactInv /\ OneLeftSet => JoinIsExact
<1> SUFFICES ASSUME JoinInv, ExactInv, OneLeftSet, \A i \in Instance : join[i].status = "done"
             PROVE  /\ UNION {BagToSet(join[i].out) : i \in Instance} = Reference
                    /\ \A x \in Reference : \E i \in Instance :
                         /\ BagIn(x, join[i].out) /\ join[i].out[x] = 1
                         /\ \A j \in Instance \ {i} : ~BagIn(x, join[j].out)
  BY DEF JoinIsExact
<1>1. SlotInv /\ Distribution /\ HeapInv /\ \A s \in Side : Spread(s)
  BY DEF ExactInv, JoinInv, Distribution, SpreadInv
<1>2. \A i \in Instance, s \in Side : Elems(Taken(i, s)) = LiveRows(i, s) /\ Back(i, s) = {}
  BY <1>1, AllTaken
<1>3. "left" \in Side /\ "right" \in Side
  BY DEF Side
<1>4. PICK A, B : A = Rows("left") /\ B = Rows("right")
  OBVIOUS
<1>5. A \in SUBSET RowType /\ B \in SUBSET RowType
  <2>1. \A s \in Side : Rows(s) \subseteq RowType
    <3> TAKE s \in Side
    <3>1. PICK q \in Seq(Key) : q = given[s]
      BY <1>1 DEF HeapInv
    <3>2. \A n \in DOMAIN q : q[n] \in Key /\ n \in Nat
      OBVIOUS
    <3> QED
      BY <3>1, <3>2 DEF Rows, Row, RowType
  <2> QED
    BY <1>3, <1>4, <2>1
<1> DEFINE L == [i \in Instance |-> LiveRows(i, "left")]
<1> DEFINE R == [i \in Instance |-> LiveRows(i, "right")]
<1>6. \A i \in Instance : L[i] = LiveRows(i, "left") /\ R[i] = LiveRows(i, "right")
  OBVIOUS
<1> HIDE DEF L, R
<1>7. PICK N \in Nat : N >= 1 /\ plan.instances = N /\ Instance = 1 .. N
  BY <1>1, PlanFacts DEF HeapInv
<1>8. 1 \in Instance
  BY <1>7
<1>9. Parts(L, R, A, B)
  <2>1. CASE Shuffles
    <3>1. ASSUME NEW i \in Instance
          PROVE  L[i] = {r \in A : slot[r.key] = i} /\ R[i] = {r \in B : slot[r.key] = i}
      <4>1. \A s \in Side : LiveRows(i, s) \cup Back(i, s) = {r \in Rows(s) : slot[r.key] = i}
        BY <1>1, <2>1 DEF Spread
      <4>2. \A s \in Side : LiveRows(i, s) = {r \in Rows(s) : slot[r.key] = i}
        BY <1>2, <4>1
      <4> QED
        BY <1>3, <1>4, <1>6, <4>2
    <3> QED
      BY <1>1, <1>5, <2>1, <3>1, HashParts
  <2>2. CASE ~Shuffles /\ Splits("right")
    <3>1. Broadcast("left") /\ plan.kind = "loop"
      BY <2>2 DEF Broadcast, Splits
    <3>2. \A i \in Instance : L[i] = A
      BY <1>1, <1>3, <1>4, <1>6, <3>1 DEF Spread
    <3>3. /\ (UNION {LiveRows(i, "right") : i \in Instance}) \cup Back(1, "right") = Rows("right")
          /\ \A i, j \in Instance : i # j => LiveRows(i, "right") \cap LiveRows(j, "right") = {}
      BY <1>1, <1>3, <2>2 DEF Spread
    <3>4. UNION {R[i] : i \in Instance} = UNION {LiveRows(i, "right") : i \in Instance}
      BY <1>6
    <3>5. UNION {R[i] : i \in Instance} = B
      BY <1>2, <1>3, <1>4, <1>8, <3>3, <3>4
    <3>6. \A i, j \in Instance : i # j => R[i] \cap R[j] = {}
      BY <1>6, <3>3
    <3>7. plan.kind # "semi" /\ ~plan.left /\ ~plan.right
      BY <1>1, <3>1, JoinAssumption DEF HeapInv
    <3> QED
      BY <3>2, <3>5, <3>6, <3>7, LoopParts
  <2>3. CASE ~Shuffles /\ ~Splits("right")
    <3>1. ~(plan.instances > 1)
      BY <2>3 DEF Shuffles, Splits
    <3>2. Instance = {1}
      BY <1>7, <3>1
    <3>3. Broadcast("left") /\ Broadcast("right")
      BY <2>3 DEF Broadcast, Splits
    <3>4. L[1] = A /\ R[1] = B
      BY <1>1, <1>3, <1>4, <1>6, <1>8, <3>3 DEF Spread
    <3> QED
      BY <3>2, <3>4, OnePart
  <2> QED
    BY <2>1, <2>2, <2>3
<1>10. Reference = Result(A, B)
  BY <1>4, ReferenceIs
<1>11. ASSUME NEW i \in Instance PROVE OnceEach(join[i].out, Result(L[i], R[i]))
  <2>1. OnceEach(join[i].out, Result(Elems(Taken(i, "left")), Elems(Taken(i, "right"))))
    BY <1>1 DEF Distribution, ExactKernel
  <2> QED
    BY <1>2, <1>3, <1>6, <2>1
<1>12. \A i \in Instance : BagToSet(join[i].out) = Result(L[i], R[i])
  BY <1>11 DEF OnceEach, BagToSet
<1>13. UNION {BagToSet(join[i].out) : i \in Instance} = Reference
  <2>1. UNION {BagToSet(join[i].out) : i \in Instance} = UNION {Result(L[i], R[i]) : i \in Instance}
    BY <1>12
  <2> QED
    BY <1>9, <1>10, <2>1 DEF Parts
<1>14. ASSUME NEW x \in Reference
       PROVE  \E i \in Instance : /\ BagIn(x, join[i].out) /\ join[i].out[x] = 1
                                  /\ \A j \in Instance \ {i} : ~BagIn(x, join[j].out)
  <2>1. PICK i \in Instance : x \in Result(L[i], R[i])
    BY <1>9, <1>10 DEF Parts
  <2>2. BagIn(x, join[i].out) /\ join[i].out[x] = 1
    BY <1>11, <1>12, <2>1 DEF OnceEach, BagIn
  <2>3. \A j \in Instance \ {i} : x \notin Result(L[j], R[j])
    BY <1>9, <2>1 DEF Parts
  <2>4. \A j \in Instance \ {i} : ~BagIn(x, join[j].out)
    BY <1>12, <2>3 DEF BagIn
  <2> QED
    BY <2>2, <2>4
<1> QED
  BY <1>13, <1>14

(* JoinIsExact: whatever the tuple sets, the instances and the order in    *)
(* which the sides arrive, the instances that are done have together every *)
(* row of the join once, and nothing else. The hash of ShufflePOp brings   *)
(* rows that meet to one instance, splitArray gives a row to one instance, *)
(* the kernels join what arrives with all that came from the other side    *)
(* before, and TupleSet::append grows an object that no other instance     *)
(* has. The last holds, and the offset of the semi join kernel is right,   *)
(* when the left side of a semi join, or of a nested loop join of several  *)
(* instances, comes in one tuple set.                                      *)
THEOREM JoinExact == Spec => [](OneLeftSet => JoinIsExact)
<1>1. Init => JoinInv /\ ExactInv
  BY JoinInitial, ExactInitial
<1>2. JoinInv /\ ExactInv /\ [Next]_vars => (JoinInv /\ ExactInv)'
  BY JoinStep, ExactStep
<1>3. JoinInv /\ ExactInv => (OneLeftSet => JoinIsExact)
  BY ExactImplies
<1> QED
  BY <1>1, <1>2, <1>3, PTL DEF Spec
=============================================================================
