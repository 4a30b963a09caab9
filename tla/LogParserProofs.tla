-------------------------- MODULE LogParserProofs --------------------------
(***************************************************************************)
(* Proofs about the log parser, for any tables, sizes of events, and       *)
(* numbers of files and calls.                                             *)
(***************************************************************************)
EXTENDS LogParser, TLAPS

-----------------------------------------------------------------------------
(* The invariants.                                                         *)

(* What the type invariant needs: files are not empty, a reader has a      *)
(* stream, and what was measured is still there.                           *)
TypeInv ==
    /\ TypeOK
    /\ \A f \in DOMAIN files : Len(files[f]) >= 1
    /\ pc = "reading" => Len(streams) >= 1
    /\ pc = "measured" => measured <= Len(files[lastReadFileIndex])

(* The place of an event in the first file, and how far the parser is.     *)
End(p) == IF p = 0 THEN Magic ELSE files[1][p].end
At == IF pc = "reading" THEN streams[1].pos ELSE lastReadPoint

(* The events of a file lie one behind the other.                          *)
Laid ==
    \A p \in DOMAIN files[1] : files[1][p].end = End(p - 1) + Size[files[1][p].kind]

(* Events are further apart than the bytes of the magic header.            *)
Spaced ==
    \A p, q \in 0 .. Len(files[1]) : p < q => End(p) + Magic < End(q)

(* A rows event follows the TABLE_MAP event of its table.                  *)
Mapped ==
    \A p \in DOMAIN files[1] :
        /\ files[1][p].kind = "map" => files[1][p].table \in AnyTable
        /\ files[1][p].kind = "rows" =>
               /\ p > 1 /\ files[1][p - 1].kind = "map"
               /\ files[1][p].table = files[1][p - 1].table

(* The first file, whatever is read of it.                                 *)
FileInv ==
    /\ Laid /\ Spaced /\ Mapped
    /\ At \in 0 .. Len(files[1])
    /\ pc = "reading" => Len(streams) = 1
    /\ pc # "idle" => /\ fileSize = End(measured) /\ measured <= Len(files[1])
                      /\ lastReadPoint <= measured
    /\ pc = "reading" => lastReadPoint = measured
    /\ \A i \in DOMAIN delivered : /\ delivered[i].file = 1
                                   /\ delivered[i].pos \in DOMAIN files[1]

(* Without a failure totalSize never lags behind what was read, so that    *)
(* no event beyond the measured length is handed on.                       *)
OrderInv ==
    /\ totalSize + Magic >= End(At)
    /\ \A i \in DOMAIN delivered : delivered[i].pos <= At /\ delivered[i].pos <= lastReadPoint
    /\ \A i, j \in DOMAIN delivered : i < j => delivered[i].pos < delivered[j].pos

(* While the file does not grow under it, totalSize never runs ahead, and  *)
(* the table at hand is that of the event, or one that makes a call fail.  *)
TableInv ==
    /\ pc # "idle" => measured = Len(files[1])
    /\ totalSize + Magic <= End(At)
    /\ At > 0 /\ files[1][At].kind = "map" =>
           currentTable = files[1][At].table \/ currentTable \in OtherTable
    /\ \A i \in DOMAIN delivered : files[1][delivered[i].pos].table = delivered[i].as

(* With neither, everything up to where the parser is has been delivered.  *)
LossInv ==
    /\ At > 0 /\ files[1][At].kind = "map" => currentTable = files[1][At].table
    /\ \A p \in 1 .. At : files[1][p].kind = "rows" => Delivered(1, p, files[1][p].rows)

(* The parts of the invariant, under their conditions.                     *)
Parts ==
    /\ FileInv
    /\ ~failed => OrderInv
    /\ ~grew => TableInv
    /\ ~grew /\ ~failed => LossInv

IInv == TypeInv /\ (OneFile => Parts)

-----------------------------------------------------------------------------
(* Sequences.                                                              *)

(* An element of a sequence, and of its head.                              *)
LEMMA Element ==
    ASSUME NEW S, NEW s \in Seq(S)
    PROVE  /\ \A i \in DOMAIN s : s[i] \in S
           /\ Len(s) >= 1 => Head(s) = s[1] /\ 1 \in DOMAIN s
OBVIOUS

(* A sequence over a smaller set is one over a larger set.                 *)
LEMMA Larger ==
    ASSUME NEW S, NEW T, S \subseteq T, NEW s \in Seq(S)
    PROVE  s \in Seq(T)
<1>1. DOMAIN s = 1 .. Len(s) /\ Len(s) \in Nat /\ \A i \in 1 .. Len(s) : s[i] \in T
  OBVIOUS
<1> QED
  BY <1>1

(* The sequence with another first element.                                *)
LEMMA NewFirst ==
    ASSUME NEW S, NEW s \in Seq(S), Len(s) >= 1, NEW c \in S
    PROVE  /\ [s EXCEPT ![1] = c] \in Seq(S) /\ Len([s EXCEPT ![1] = c]) = Len(s)
           /\ [s EXCEPT ![1] = c][1] = c /\ DOMAIN [s EXCEPT ![1] = c] = DOMAIN s
           /\ \A i \in DOMAIN s : i # 1 => [s EXCEPT ![1] = c][i] = s[i]
OBVIOUS

-----------------------------------------------------------------------------
(* The binlog.                                                             *)

(* A file with one more event.                                             *)
LEMMA WithFile ==
    ASSUME NEW s \in Seq(Event), NEW k \in Kind, NEW t \in AnyTable \cup {NoTable},
           NEW n \in 0 .. MaxRows
    PROVE  /\ Bytes(s) \in Nat
           /\ With(s, k, t, n) \in Seq(Event)
           /\ Len(With(s, k, t, n)) = Len(s) + 1
           /\ \A i \in DOMAIN s : With(s, k, t, n)[i] = s[i]
           /\ With(s, k, t, n)[Len(s) + 1] =
                  [kind |-> k, table |-> t, rows |-> n, end |-> Bytes(s) + Size[k]]
<1>1. Bytes(s) \in Nat
  <2>1. CASE s = <<>>
    BY <2>1, LogAssumption DEF Bytes
  <2>2. CASE s # <<>>
    <3>1. Len(s) \in DOMAIN s
      BY <2>2
    <3>2. s[Len(s)] \in Event
      BY <3>1
    <3> QED
      BY <2>2, <3>2 DEF Bytes, Event
  <2> QED
    BY <2>1, <2>2
<1>2. Size[k] \in Nat
  BY LogAssumption
<1> DEFINE e == [kind |-> k, table |-> t, rows |-> n, end |-> Bytes(s) + Size[k]]
<1>3. e \in Event
  BY <1>1, <1>2 DEF Event
<1>4. With(s, k, t, n) = Append(s, e)
  BY DEF With
<1> HIDE DEF e
<1>5. /\ Append(s, e) \in Seq(Event) /\ Len(Append(s, e)) = Len(s) + 1
      /\ \A i \in DOMAIN s : Append(s, e)[i] = s[i]
      /\ Append(s, e)[Len(s) + 1] = e
  BY <1>3
<1> QED
  BY <1>1, <1>4, <1>5 DEF e

(* What logging an event does to the files.                                *)
LEMMA LogFiles ==
    ASSUME TypeInv, NEW k \in Kind, NEW t \in AnyTable \cup {NoTable}, NEW n \in 0 .. MaxRows,
           files' = [files EXCEPT ![Len(files)] = With(@, k, t, n)]
    PROVE  /\ files' \in Seq(Seq(Event)) /\ Len(files') = Len(files)
           /\ files'[Len(files)] = With(Last, k, t, n)
           /\ \A f \in DOMAIN files : /\ Len(files'[f]) >= Len(files[f])
                                      /\ \A p \in DOMAIN files[f] : files'[f][p] = files[f][p]
<1>1. files \in Seq(Seq(Event)) /\ Len(files) \in DOMAIN files
  BY DEF TypeInv, TypeOK
<1>2. Last \in Seq(Event)
  BY <1>1 DEF Last
<1>3. /\ With(Last, k, t, n) \in Seq(Event)
      /\ Len(With(Last, k, t, n)) = Len(Last) + 1
      /\ \A i \in DOMAIN Last : With(Last, k, t, n)[i] = Last[i]
  BY <1>2, WithFile, ZenonT(80)
<1>4. files' = [files EXCEPT ![Len(files)] = With(Last, k, t, n)]
  BY DEF Last
<1>5. /\ files' \in Seq(Seq(Event)) /\ Len(files') = Len(files)
      /\ files'[Len(files)] = With(Last, k, t, n)
      /\ \A f \in DOMAIN files : f # Len(files) => files'[f] = files[f]
  BY <1>1, <1>3, <1>4
<1>6. ASSUME NEW f \in DOMAIN files
      PROVE  /\ Len(files'[f]) >= Len(files[f])
             /\ \A p \in DOMAIN files[f] : files'[f][p] = files[f][p]
  <2>0. files[f] \in Seq(Event)
    BY <1>1
  <2>1. CASE f = Len(files)
    <3>1. files'[f] = With(Last, k, t, n) /\ files[f] = Last
      BY <2>1, <1>5 DEF Last
    <3> QED
      BY <3>1, <1>3, <1>2
  <2>2. CASE f # Len(files)
    BY <2>0, <2>2, <1>5
  <2> QED
    BY <2>1, <2>2
<1> QED
  BY <1>5, <1>6

(* A new file holds the format event.                                      *)
LEMMA NewFileEvent ==
    /\ NewFile \in Seq(Event) /\ Len(NewFile) = 1
    /\ NewFile[1] = [kind |-> "format", table |-> NoTable, rows |-> 0,
                     end |-> Magic + Size["format"]]
<1>1. "format" \in Kind /\ NoTable \in AnyTable \cup {NoTable} /\ 0 \in 0 .. MaxRows
  BY LogAssumption DEF Kind
<1> DEFINE s == <<>>
<1>2. s \in Seq(Event) /\ Len(s) = 0 /\ Bytes(s) = Magic
  BY DEF Bytes
<1>3. NewFile = With(s, "format", NoTable, 0)
  BY DEF NewFile
<1> HIDE DEF s
<1>4. /\ With(s, "format", NoTable, 0) \in Seq(Event)
      /\ Len(With(s, "format", NoTable, 0)) = Len(s) + 1
      /\ With(s, "format", NoTable, 0)[Len(s) + 1] =
             [kind |-> "format", table |-> NoTable, rows |-> 0, end |-> Bytes(s) + Size["format"]]
  BY <1>1, <1>2, WithFile, ZenonT(80)
<1> QED
  BY <1>2, <1>3, <1>4

(* A step of the database that logs an event.                              *)
LEMMA LogStep ==
    ASSUME TypeInv, LogBegin \/ LogMap \/ LogRows \/ LogXid
    PROVE  \E k \in Kind, t \in AnyTable \cup {NoTable}, n \in 0 .. MaxRows :
               /\ Log(k, t, n)
               /\ k = "map" => t \in AnyTable
               /\ k = "rows" => LastEvent.kind = "map" /\ t = LastEvent.table
<1>1. LastEvent \in Event
  <2>1. Len(files) \in DOMAIN files /\ files \in Seq(Seq(Event))
    BY DEF TypeInv, TypeOK
  <2>2. Last \in Seq(Event) /\ Len(Last) >= 1
    BY <2>1 DEF Last, TypeInv
  <2> QED
    BY <2>2 DEF LastEvent
<1>2. LastEvent.table \in AnyTable \cup {NoTable}
  BY <1>1 DEF Event
<1>3. MaxRows \in Nat
  BY LogAssumption
<1>4. CASE LogBegin
  BY <1>4, <1>3 DEF LogBegin, Kind
<1>5. CASE LogMap
  BY <1>5, <1>3 DEF LogMap, Kind
<1>6. CASE LogRows
  BY <1>6, <1>3, <1>2 DEF LogRows, Kind
<1>7. CASE LogXid
  BY <1>7, <1>3 DEF LogXid, Kind
<1> QED
  BY <1>4, <1>5, <1>6, <1>7

(* What a rotation does to the files.                                      *)
LEMMA RotateFiles ==
    ASSUME TypeInv, Rotate
    PROVE  /\ files' \in Seq(Seq(Event)) /\ Len(files') = Len(files) + 1
           /\ \A f \in DOMAIN files : Len(files'[f]) >= Len(files[f])
           /\ \A f \in DOMAIN files' : Len(files'[f]) >= 1
<1>1. files \in Seq(Seq(Event)) /\ Len(files) \in DOMAIN files
  BY DEF TypeInv, TypeOK
<1>2. Last \in Seq(Event)
  BY <1>1 DEF Last
<1> DEFINE w == With(Last, "rotate", NoTable, 0)
           g == [files EXCEPT ![Len(files)] = w]
<1>3. "rotate" \in Kind /\ "format" \in Kind /\ NoTable \in AnyTable \cup {NoTable} /\ 0 \in 0 .. MaxRows
  BY LogAssumption DEF Kind
<1>4. w \in Seq(Event) /\ Len(w) = Len(Last) + 1
  BY <1>2, <1>3, WithFile
<1>5. NewFile \in Seq(Event) /\ Len(NewFile) = 1
  BY NewFileEvent
<1>6. files' = Append(g, NewFile)
  BY DEF Rotate, Last
<1> HIDE DEF w
<1>7. /\ g \in Seq(Seq(Event)) /\ Len(g) = Len(files)
      /\ \A f \in DOMAIN files : g[f] = IF f = Len(files) THEN w ELSE files[f]
  BY <1>1, <1>4
<1> HIDE DEF g
<1>8. /\ files' \in Seq(Seq(Event)) /\ Len(files') = Len(files) + 1
      /\ \A f \in DOMAIN files : files'[f] = g[f]
      /\ files'[Len(files) + 1] = NewFile
  BY <1>5, <1>6, <1>7
<1>9. ASSUME NEW f \in DOMAIN files
      PROVE  Len(files'[f]) >= Len(files[f]) /\ Len(files[f]) >= 1
  <2>1. files[f] \in Seq(Event) /\ Len(files[f]) >= 1
    BY <1>1 DEF TypeInv
  <2>2. CASE f = Len(files)
    <3>1. files'[f] = w /\ files[f] = Last
      BY <2>2, <1>1, <1>7, <1>8 DEF Last
    <3> QED
      BY <2>1, <3>1, <1>2, <1>4
  <2>3. CASE f # Len(files)
    <3>1. files'[f] = files[f]
      BY <2>3, <1>7, <1>8
    <3> QED
      BY <2>1, <3>1
  <2> QED
    BY <2>2, <2>3
<1>10. ASSUME NEW f \in DOMAIN files'
       PROVE  Len(files'[f]) >= 1
  <2>1. f \in DOMAIN files \/ f = Len(files) + 1
    BY <1>8, <1>1
  <2>2. files'[f] \in Seq(Event)
    BY <1>8
  <2>3. CASE f \in DOMAIN files
    <3>1. files[f] \in Seq(Event) /\ Len(files'[f]) >= Len(files[f]) /\ Len(files[f]) >= 1
      BY <2>3, <1>1, <1>9
    <3> QED
      BY <3>1, <2>2
  <2>4. CASE f = Len(files) + 1
    <3>1. files'[f] = NewFile
      BY <2>4, <1>8
    <3> QED
      BY <3>1, <1>5
  <2> QED
    BY <2>1, <2>3, <2>4
<1> QED
  BY <1>8, <1>9, <1>10

-----------------------------------------------------------------------------
(* Types.                                                                  *)

(* The statics and streams still point into the binlog when it grows.      *)
LEMMA Growth ==
    ASSUME TypeInv,
           files' \in Seq(Seq(Event)), Len(files') \in Len(files) .. MaxFiles,
           \A f \in DOMAIN files : Len(files'[f]) >= Len(files[f]),
           \A f \in DOMAIN files' : Len(files'[f]) >= 1,
           grew' = (grew \/ pc # "idle"),
           UNCHANGED <<statics, totalSize, currentTable, locals, delivered, calls, failed>>
    PROVE  TypeInv'
<1>1. files \in Seq(Seq(Event)) /\ Len(files) \in 1 .. MaxFiles
  BY DEF TypeInv, TypeOK
<1>2. ASSUME NEW f \in DOMAIN files
      PROVE  /\ f \in DOMAIN files' /\ Len(files[f]) \in Nat /\ Len(files'[f]) \in Nat
             /\ Len(files'[f]) >= Len(files[f])
  <2>1. f \in 1 .. Len(files) /\ f \in 1 .. Len(files')
    BY <1>1
  <2>2. files[f] \in Seq(Event) /\ files'[f] \in Seq(Event)
    BY <1>1, <2>1
  <2>3. f \in DOMAIN files'
    BY <2>1
  <2>4. Len(files[f]) \in Nat /\ Len(files'[f]) \in Nat
    BY <2>2
  <2>5. Len(files'[f]) >= Len(files[f])
    OBVIOUS
  <2> QED
    BY <2>3, <2>4, <2>5
<1>3. lastReadFileIndex \in 1 .. Len(files) /\ lastReadFileIndex \in DOMAIN files
  BY <1>1 DEF TypeInv, TypeOK
<1>a. UNCHANGED <<lastReadPoint, lastReadFileIndex, firstCall, totalSize, currentTable, pc,
                  fileSize, measured, streams, delivered, calls, failed>>
  BY DEF statics, locals
<1>4. lastReadFileIndex' \in 1 .. Len(files') /\ lastReadPoint' \in 0 .. Len(files'[lastReadFileIndex'])
  <2>1. lastReadPoint \in 0 .. Len(files[lastReadFileIndex])
    BY DEF TypeInv, TypeOK
  <2>2. lastReadPoint' = lastReadPoint /\ lastReadFileIndex' = lastReadFileIndex
    BY <1>a
  <2>3. Len(files[lastReadFileIndex]) \in Nat /\ Len(files'[lastReadFileIndex]) \in Nat
        /\ Len(files'[lastReadFileIndex]) >= Len(files[lastReadFileIndex])
    BY <1>2, <1>3
  <2>4. lastReadPoint' \in 0 .. Len(files'[lastReadFileIndex'])
    BY <2>1, <2>2, <2>3
  <2>5. lastReadFileIndex' \in 1 .. Len(files')
    BY <2>2, <1>1, <1>3
  <2> QED
    BY <2>4, <2>5
<1>5. streams' \in Seq([file : DOMAIN files', pos : Nat])
  <2>1. [file : DOMAIN files, pos : Nat] \subseteq [file : DOMAIN files', pos : Nat]
    BY <1>2
  <2>2. streams \in Seq([file : DOMAIN files, pos : Nat]) /\ streams' = streams
    BY <1>a DEF TypeInv, TypeOK
  <2> QED
    BY ONLY <2>1, <2>2, Larger
<1>6. \A i \in DOMAIN streams' : streams'[i].pos <= Len(files'[streams'[i].file])
  <2>1. TAKE i \in DOMAIN streams'
  <2>2. streams' = streams /\ streams \in Seq([file : DOMAIN files, pos : Nat])
    BY <1>a DEF TypeInv, TypeOK
  <2>3. streams[i] \in [file : DOMAIN files, pos : Nat]
    BY <2>2, Element
  <2>4. streams[i].pos <= Len(files[streams[i].file]) /\ streams[i].file \in DOMAIN files /\ streams[i].pos \in Nat
    BY <2>2, <2>3 DEF TypeInv, TypeOK
  <2>5. /\ Len(files[streams[i].file]) \in Nat /\ Len(files'[streams[i].file]) \in Nat
        /\ Len(files'[streams[i].file]) >= Len(files[streams[i].file])
    BY <1>2, <2>4
  <2> QED
    BY ONLY <2>2, <2>4, <2>5
<1>7. pc' = "measured" => measured' <= Len(files'[lastReadFileIndex'])
  <2>1. measured \in Nat /\ measured' = measured /\ lastReadFileIndex' = lastReadFileIndex /\ pc' = pc
    BY <1>a DEF TypeInv, TypeOK
  <2>2. pc = "measured" => measured <= Len(files[lastReadFileIndex])
    BY DEF TypeInv
  <2> QED
    BY <1>2, <1>3, <2>1, <2>2
<1>8. grew' \in BOOLEAN
  BY DEF TypeInv, TypeOK
<1>9. /\ totalSize' \in Nat /\ currentTable' \in AnyTable \cup {NoTable}
      /\ firstCall' \in BOOLEAN /\ failed' \in BOOLEAN
      /\ pc' \in {"idle", "measured", "reading"} /\ fileSize' \in Nat /\ measured' \in Nat
      /\ delivered' \in Seq(Change) /\ calls' \in 0 .. MaxCalls
      /\ pc' = "reading" => Len(streams') >= 1
  BY <1>a DEF TypeInv, TypeOK
<1>10. Len(files') \in 1 .. MaxFiles
  BY <1>1, LogAssumption
<1> QED
  BY <1>4, <1>5, <1>6, <1>7, <1>8, <1>9, <1>10, Zenon DEF TypeInv, TypeOK

(* What the parser reads is an event of a file.                            *)
LEMMA ReadTypes ==
    ASSUME TypeInv, ReadEvent
    PROVE  /\ Len(streams) >= 1 /\ streams \in Seq([file : DOMAIN files, pos : Nat])
           /\ Cursor = streams[1] /\ Cursor \in [file : DOMAIN files, pos : Nat]
           /\ Cursor.pos + 1 \in DOMAIN files[Cursor.file]
           /\ Current \in Event
           /\ totalSize' \in Nat
<1>1. streams \in Seq([file : DOMAIN files, pos : Nat]) /\ Len(streams) >= 1
      /\ files \in Seq(Seq(Event)) /\ totalSize \in Nat
      /\ \A i \in DOMAIN streams : streams[i].pos <= Len(files[streams[i].file])
  BY DEF TypeInv, TypeOK, ReadEvent
<1>2. Cursor = streams[1] /\ 1 \in DOMAIN streams
  BY <1>1, Element DEF Cursor
<1>3. Cursor \in [file : DOMAIN files, pos : Nat]
  BY <1>1, <1>2, Element
<1>4. files[Cursor.file] \in Seq(Event) /\ Cursor.pos \in Nat
  BY <1>1, <1>3
<1>5. Cursor.pos <= Len(files[Cursor.file])
  BY <1>1, <1>2
<1>6. Cursor.pos # Len(files[Cursor.file])
  BY DEF ReadEvent, AtEnd
<1>7. Cursor.pos + 1 \in DOMAIN files[Cursor.file]
  BY <1>4, <1>5, <1>6
<1>8. Current \in Event
  BY <1>4, <1>7 DEF Current
<1>9. Current.kind \in Kind
  BY <1>8 DEF Event
<1>10. totalSize' \in Nat
  <2>1. totalSize' = totalSize + Size[Current.kind] /\ Size[Current.kind] \in Nat
    BY <1>9, LogAssumption DEF ReadEvent
  <2>2. PICK z \in Nat : z = Size[Current.kind]
    BY <2>1
  <2>3. totalSize' = totalSize + z /\ totalSize \in Nat
    BY <2>1, <2>2, <1>1
  <2> QED
    BY ONLY <2>2, <2>3
<1> QED
  BY <1>1, <1>2, <1>3, <1>7, <1>8, <1>10

(* Going on to the next event keeps the stream in its file.                *)
LEMMA ContinueTypes ==
    ASSUME TypeInv, ReadEvent, Continue
    PROVE  /\ streams' \in Seq([file : DOMAIN files, pos : Nat]) /\ Len(streams') = Len(streams)
           /\ \A i \in DOMAIN streams' : streams'[i].pos <= Len(files[streams'[i].file])
           /\ streams'[1].file = streams[1].file /\ streams'[1].pos = streams[1].pos + 1
<1> DEFINE c == [streams[1] EXCEPT !.pos = @ + 1]
<1>1. /\ Len(streams) >= 1 /\ streams \in Seq([file : DOMAIN files, pos : Nat])
      /\ Cursor = streams[1] /\ Cursor \in [file : DOMAIN files, pos : Nat]
      /\ Cursor.pos + 1 \in DOMAIN files[Cursor.file]
  BY ReadTypes
<1>2. files[Cursor.file] \in Seq(Event)
  <2>1. files \in Seq(Seq(Event))
    BY DEF TypeInv, TypeOK
  <2>2. Cursor.file \in DOMAIN files
    BY ONLY <1>1
  <2> QED
    BY ONLY <2>1, <2>2
<1>3. Cursor.pos + 1 <= Len(files[Cursor.file])
  BY <1>1, <1>2
<1>4. c \in [file : DOMAIN files, pos : Nat] /\ c.file = streams[1].file /\ c.pos = streams[1].pos + 1
  BY <1>1
<1>5. streams' = [streams EXCEPT ![1] = c]
  BY DEF Continue
<1> HIDE DEF c
<1>6. /\ streams' \in Seq([file : DOMAIN files, pos : Nat]) /\ Len(streams') = Len(streams)
      /\ streams'[1] = c /\ DOMAIN streams' = DOMAIN streams
      /\ \A i \in DOMAIN streams : i # 1 => streams'[i] = streams[i]
  BY <1>1, <1>4, <1>5, NewFirst
<1>7. \A i \in DOMAIN streams : streams[i].pos <= Len(files[streams[i].file])
  BY DEF TypeInv, TypeOK
<1> QED
  BY <1>1, <1>3, <1>4, <1>6, <1>7

(* Types of a step of the parser, which leaves the binlog alone.           *)
LEMMA SameFiles ==
    ASSUME TypeInv, UNCHANGED <<files, calls, grew>>,
           lastReadFileIndex' \in 1 .. Len(files),
           lastReadPoint' \in 0 .. Len(files[lastReadFileIndex']),
           firstCall' \in BOOLEAN, failed' \in BOOLEAN, totalSize' \in Nat,
           currentTable' \in AnyTable \cup {NoTable}, delivered' \in Seq(Change),
           UNCHANGED <<fileSize, measured>>, pc' \in {"idle", "reading"},
           streams' \in Seq([file : DOMAIN files, pos : Nat]),
           \A i \in DOMAIN streams' : streams'[i].pos <= Len(files[streams'[i].file]),
           pc' = "reading" => Len(streams') >= 1
    PROVE  TypeInv'
<1>1. /\ files' = files /\ files' \in Seq(Seq(Event)) /\ Len(files') \in 1 .. MaxFiles
      /\ calls' \in 0 .. MaxCalls /\ grew' \in BOOLEAN /\ fileSize' \in Nat /\ measured' \in Nat
      /\ \A f \in DOMAIN files' : Len(files'[f]) >= 1
  BY DEF TypeInv, TypeOK
<1>2. /\ streams' \in Seq([file : DOMAIN files', pos : Nat])
      /\ \A i \in DOMAIN streams' : streams'[i].pos <= Len(files'[streams'[i].file])
      /\ lastReadFileIndex' \in 1 .. Len(files')
      /\ lastReadPoint' \in 0 .. Len(files'[lastReadFileIndex'])
  BY <1>1, Zenon
<1>3. pc' # "measured" /\ pc' \in {"idle", "measured", "reading"}
  OBVIOUS
<1> QED
  BY <1>1, <1>2, <1>3, Zenon DEF TypeInv, TypeOK

(* A step that reads an event, and goes on or leaves.                      *)
LEMMA ReadStep ==
    ASSUME TypeInv, ReadEvent, Continue \/ Leave,
           currentTable' \in AnyTable \cup {NoTable}, delivered' \in Seq(Change), failed' \in BOOLEAN
    PROVE  TypeInv'
<1>1. totalSize' \in Nat /\ Len(streams) >= 1
  BY ReadTypes
<1>2. UNCHANGED <<files, lastReadPoint, lastReadFileIndex, firstCall, fileSize, measured, calls, grew>>
  BY DEF ReadEvent, statics
<1>3. /\ streams' \in Seq([file : DOMAIN files, pos : Nat])
      /\ \A i \in DOMAIN streams' : streams'[i].pos <= Len(files[streams'[i].file])
      /\ pc' \in {"idle", "reading"}
      /\ pc' = "reading" => Len(streams') >= 1
  <2>1. CASE Continue
    <3>1. pc' = "reading"
      BY <2>1 DEF ReadEvent, Continue
    <3> QED
      BY <2>1, <3>1, <1>1, ContinueTypes
  <2>2. CASE Leave
    <3>1. streams' = <<>> /\ pc' = "idle"
      BY <2>2 DEF Leave
    <3>2. ASSUME NEW S PROVE <<>> \in Seq(S) /\ DOMAIN <<>> = {}
      OBVIOUS
    <3> QED
      BY <3>1, <3>2
  <2> QED
    BY <2>1, <2>2
<1>4. /\ lastReadFileIndex' \in 1 .. Len(files)
      /\ lastReadPoint' \in 0 .. Len(files[lastReadFileIndex']) /\ firstCall' \in BOOLEAN
  BY <1>2 DEF TypeInv, TypeOK
<1> QED
  BY <1>1, <1>2, <1>3, <1>4, SameFiles

(* The record of a change has its type.                                    *)
LEMMA RowsTypes ==
    ASSUME TypeInv, ReadRows
    PROVE  delivered' \in Seq(Change)
<1> DEFINE d == [file |-> Cursor.file, pos |-> Cursor.pos + 1,
                 row |-> Current.rows, as |-> currentTable]
<1>1. Cursor \in [file : DOMAIN files, pos : Nat] /\ Current \in Event
  BY ReadTypes DEF ReadRows
<1>2. Cursor.file \in Nat /\ Cursor.pos + 1 \in Nat
  <2>1. DOMAIN files = 1 .. Len(files) /\ Len(files) \in Nat
    BY DEF TypeInv, TypeOK
  <2>2. Cursor.file \in DOMAIN files /\ Cursor.pos \in Nat
    BY ONLY <1>1
  <2> QED
    BY ONLY <2>1, <2>2
<1>3. Current.rows \in Nat /\ currentTable \in Table
  BY <1>1, LogAssumption DEF Event, ReadRows
<1>4. d \in Change
  BY <1>2, <1>3 DEF Change
<1>5. delivered' = Append(delivered, d) /\ delivered \in Seq(Change)
  BY DEF ReadRows, TypeInv, TypeOK
<1> QED
  BY <1>4, <1>5

(* The first step of a call keeps types.                                   *)
LEMMA MeasureTypes ==
    ASSUME TypeInv, Measure
    PROVE  TypeInv'
<1>1. UNCHANGED <<files, lastReadPoint, lastReadFileIndex, firstCall, totalSize,
                  currentTable, streams, delivered, grew, failed>>
  BY DEF Measure, statics
<1>2. pc' = "measured" /\ calls' \in 0 .. MaxCalls
  <2>1. calls \in 0 .. MaxCalls /\ calls < MaxCalls /\ calls' = calls + 1 /\ pc' = "measured"
    BY DEF Measure, TypeInv, TypeOK
  <2> QED
    BY <2>1, LogAssumption
<1>3. files[lastReadFileIndex] \in Seq(Event)
  BY DEF TypeInv, TypeOK
<1>4. /\ 0 \in 0 .. MaxRows /\ "format" \in Kind /\ NoTable \in AnyTable \cup {NoTable}
  BY LogAssumption DEF Kind
<1>5. fileSize' \in Nat /\ measured' \in Nat /\ measured' = Len(files[lastReadFileIndex])
  <2>1. Bytes(files[lastReadFileIndex]) \in Nat
    BY <1>3, <1>4, WithFile
  <2> QED
    BY <2>1, <1>3 DEF Measure
<1> QED
  BY <1>1, <1>2, <1>5 DEF TypeInv, TypeOK

(* The reader is made inside the binlog.                                   *)
LEMMA OpenTypes ==
    ASSUME TypeInv, Open
    PROVE  TypeInv'
<1> DEFINE Stream == [file : DOMAIN files, pos : Nat]
<1>1. UNCHANGED <<files, totalSize, currentTable, fileSize, measured, delivered, calls, grew, failed>>
      /\ pc' = "reading" /\ firstCall' = FALSE
  BY DEF Open
<1>2. /\ files \in Seq(Seq(Event)) /\ lastReadFileIndex \in 1 .. Len(files)
      /\ lastReadPoint \in 0 .. Len(files[lastReadFileIndex]) /\ measured \in Nat
      /\ measured <= Len(files[lastReadFileIndex])
  BY DEF TypeInv, TypeOK, Open
<1>3. \A f \in 1 .. Len(files) : f \in DOMAIN files /\ files[f] \in Seq(Event) /\ Len(files[f]) \in Nat
  BY <1>2
<1>4. Rest \in Stream /\ Rest.file = lastReadFileIndex /\ Rest.pos = lastReadPoint
  BY <1>2, <1>3 DEF Rest
<1>7. failed' \in BOOLEAN /\ totalSize' \in Nat /\ currentTable' \in AnyTable \cup {NoTable}
      /\ delivered' \in Seq(Change) /\ firstCall' \in BOOLEAN
  BY <1>1 DEF TypeInv, TypeOK
<1>5. CASE ~firstCall /\ lastReadFileIndex < Len(files)
  <2> DEFINE n == [file |-> lastReadFileIndex + 1, pos |-> 0]
  <2>1. lastReadFileIndex + 1 \in 1 .. Len(files)
    BY <1>2, <1>5
  <2>2. n \in Stream /\ n.file = lastReadFileIndex + 1 /\ n.pos = 0
    BY <2>1, <1>3
  <2>3. streams' = <<n, Rest>> /\ lastReadPoint' = Len(files[lastReadFileIndex + 1])
        /\ lastReadFileIndex' = lastReadFileIndex + 1
    BY <1>5 DEF Open
  <2> HIDE DEF n, Stream
  <2>4. /\ <<n, Rest>> \in Seq(Stream) /\ Len(<<n, Rest>>) = 2
        /\ <<n, Rest>>[1] = n /\ <<n, Rest>>[2] = Rest /\ DOMAIN <<n, Rest>> = {1, 2}
    BY <1>4, <2>2
  <2>5. \A i \in DOMAIN streams' : streams'[i].pos <= Len(files[streams'[i].file])
    <3>1. n.pos <= Len(files[n.file])
      BY <2>1, <2>2, <1>3
    <3>2. Rest.pos <= Len(files[Rest.file])
      BY <1>2, <1>4
    <3>3. TAKE i \in DOMAIN streams'
    <3>4. streams'[i] = n \/ streams'[i] = Rest
      BY <2>3, <2>4
    <3> QED
      BY ONLY <3>1, <3>2, <3>4, Zenon
  <2>6. lastReadFileIndex' \in 1 .. Len(files) /\ lastReadPoint' \in 0 .. Len(files[lastReadFileIndex'])
    BY <2>1, <2>3, <1>3
  <2> QED
    BY <1>1, <1>7, <2>3, <2>4, <2>5, <2>6, SameFiles DEF Stream
<1>6. CASE ~(~firstCall /\ lastReadFileIndex < Len(files))
  <2>1. streams' = <<Rest>> /\ lastReadPoint' = measured /\ lastReadFileIndex' = lastReadFileIndex
    BY <1>6 DEF Open
  <2> HIDE DEF Stream
  <2>2. <<Rest>> \in Seq(Stream) /\ Len(<<Rest>>) = 1 /\ <<Rest>>[1] = Rest /\ DOMAIN <<Rest>> = {1}
    BY <1>4
  <2>3. \A i \in DOMAIN streams' : streams'[i].pos <= Len(files[streams'[i].file])
    BY <2>1, <2>2, <1>2, <1>4
  <2>4. lastReadPoint' \in 0 .. Len(files[lastReadFileIndex'])
    BY <2>1, <1>2, <1>3
  <2> QED
    BY <1>1, <1>2, <1>7, <2>1, <2>2, <2>3, <2>4, SameFiles DEF Stream
<1> QED
  BY <1>5, <1>6

(* Leaving a stream at its end keeps types.                                *)
LEMMA NextStreamTypes ==
    ASSUME TypeInv, NextStream
    PROVE  TypeInv'
<1> DEFINE Stream == [file : DOMAIN files, pos : Nat]
<1>1. UNCHANGED <<files, lastReadPoint, lastReadFileIndex, firstCall, totalSize, currentTable, pc,
                  fileSize, measured, delivered, calls, grew, failed>>
  BY DEF NextStream, statics
<1>2. streams \in Seq(Stream) /\ Len(streams) > 1 /\ streams' = Tail(streams)
  BY DEF NextStream, TypeInv, TypeOK
<1>3. \A i \in DOMAIN streams : streams[i].pos <= Len(files[streams[i].file])
  BY DEF TypeInv, TypeOK
<1> HIDE DEF Stream
<1>4. /\ streams' \in Seq(Stream) /\ Len(streams') >= 1
      /\ \A i \in DOMAIN streams' : i + 1 \in DOMAIN streams /\ streams'[i] = streams[i + 1]
  BY <1>2
<1>5. \A i \in DOMAIN streams' : streams'[i].pos <= Len(files[streams'[i].file])
  BY <1>3, <1>4
<1> QED
  BY <1>1, <1>4, <1>5 DEF TypeInv, TypeOK, Stream

(* Every step keeps types.                                                 *)
LEMMA TypeStep ==
    ASSUME TypeInv, [Next]_vars
    PROVE  TypeInv'
<1>1. CASE LogBegin \/ LogMap \/ LogRows \/ LogXid
  <2>1. PICK k \in Kind, t \in AnyTable \cup {NoTable}, n \in 0 .. MaxRows : Log(k, t, n)
    BY <1>1, LogStep
  <2>2. /\ files' = [files EXCEPT ![Len(files)] = With(@, k, t, n)]
        /\ grew' = (grew \/ pc # "idle")
        /\ UNCHANGED <<statics, totalSize, currentTable, locals, delivered, calls, failed>>
    BY <2>1 DEF Log
  <2>3. /\ files' \in Seq(Seq(Event)) /\ Len(files') = Len(files)
        /\ \A f \in DOMAIN files : Len(files'[f]) >= Len(files[f])
    BY <2>2, LogFiles
  <2>4. files \in Seq(Seq(Event)) /\ Len(files) \in 1 .. MaxFiles /\ MaxFiles \in Nat
        /\ \A f \in DOMAIN files : Len(files[f]) >= 1
    BY LogAssumption DEF TypeInv, TypeOK
  <2>5. Len(files') \in Len(files) .. MaxFiles
    BY <2>3, <2>4
  <2>6. \A f \in DOMAIN files' : Len(files'[f]) >= 1
    <3>1. TAKE f \in DOMAIN files'
    <3>2. f \in DOMAIN files /\ files[f] \in Seq(Event) /\ files'[f] \in Seq(Event)
      BY <2>3, <2>4
    <3>3. Len(files'[f]) >= Len(files[f]) /\ Len(files[f]) >= 1
      BY <3>2, <2>3, <2>4
    <3> QED
      BY <3>2, <3>3
  <2> QED
    BY <2>2, <2>3, <2>5, <2>6, Growth
<1>2. CASE Rotate
  <2>1. /\ files' \in Seq(Seq(Event)) /\ Len(files') = Len(files) + 1
        /\ \A f \in DOMAIN files : Len(files'[f]) >= Len(files[f])
        /\ \A f \in DOMAIN files' : Len(files'[f]) >= 1
    BY <1>2, RotateFiles
  <2>2. Len(files') \in Len(files) .. MaxFiles
    <3>1. Len(files) \in 1 .. MaxFiles /\ MaxFiles \in Nat /\ Len(files) < MaxFiles
      BY <1>2, LogAssumption DEF Rotate, TypeInv, TypeOK
    <3> QED
      BY <2>1, <3>1
  <2>3. /\ grew' = (grew \/ pc # "idle")
        /\ UNCHANGED <<statics, totalSize, currentTable, locals, delivered, calls, failed>>
    BY <1>2 DEF Rotate
  <2> QED
    BY <2>1, <2>2, <2>3, Growth
<1>3. CASE Measure \/ Open \/ NextStream
  BY <1>3, MeasureTypes, OpenTypes, NextStreamTypes
<1>4. CASE EndOfLog
  <2>1. UNCHANGED <<files, lastReadPoint, lastReadFileIndex, firstCall, totalSize, currentTable,
                    fileSize, measured, delivered, calls, grew, failed>>
        /\ pc' = "idle" /\ streams' = <<>>
    BY <1>4 DEF EndOfLog, Leave, statics
  <2>2. ASSUME NEW S PROVE <<>> \in Seq(S) /\ DOMAIN <<>> = {}
    OBVIOUS
  <2> QED
    BY <2>1, <2>2 DEF TypeInv, TypeOK
<1>5. CASE Break \/ Skip
  BY <1>5, ReadStep DEF Break, Skip, TypeInv, TypeOK
<1>6. CASE ReadMap
  <2>1. Current.table \in AnyTable \cup {NoTable}
    BY <1>6, ReadTypes DEF ReadMap, Event
  <2> QED
    BY <1>6, <2>1, ReadStep DEF ReadMap, TypeInv, TypeOK
<1>7. CASE ReadRows
  BY <1>7, RowsTypes, ReadStep DEF ReadRows, TypeInv, TypeOK
<1>8. CASE Fail
  BY <1>8, ReadStep DEF Fail, TypeInv, TypeOK
<1>9. CASE Idle \/ UNCHANGED vars
  BY <1>9 DEF Idle, vars, statics, locals, TypeInv, TypeOK
<1> QED
  BY <1>1, <1>2, <1>3, <1>4, <1>5, <1>6, <1>7, <1>8, <1>9 DEF Next, Database, Parser

(* The types of the initial state.                                         *)
LEMMA TypeInit == Init => TypeInv
<1> SUFFICES ASSUME Init PROVE TypeInv
  OBVIOUS
<1>1. NewFile \in Seq(Event) /\ Len(NewFile) = 1
  BY NewFileEvent
<1>2. files = <<NewFile>>
  BY DEF Init
<1>3. files \in Seq(Seq(Event)) /\ Len(files) = 1 /\ files[1] = NewFile /\ DOMAIN files = {1}
  BY <1>1, <1>2
<1>4. ASSUME NEW S PROVE <<>> \in Seq(S) /\ DOMAIN <<>> = {}
  OBVIOUS
<1>5. 0 \in 0 .. MaxCalls /\ 1 \in 1 .. MaxFiles
  BY LogAssumption
<1>6. /\ lastReadFileIndex \in 1 .. Len(files) /\ lastReadPoint \in 0 .. Len(files[lastReadFileIndex])
      /\ Len(files) \in 1 .. MaxFiles /\ \A f \in DOMAIN files : Len(files[f]) >= 1
      /\ totalSize \in Nat /\ fileSize \in Nat /\ measured \in Nat /\ calls \in 0 .. MaxCalls
  BY <1>1, <1>3, <1>5 DEF Init
<1>7. /\ streams \in Seq([file : DOMAIN files, pos : Nat]) /\ DOMAIN streams = {}
      /\ delivered \in Seq(Change)
  BY <1>4, Zenon DEF Init
<1>8. /\ firstCall \in BOOLEAN /\ grew \in BOOLEAN /\ failed \in BOOLEAN
      /\ pc \in {"idle", "measured", "reading"} /\ pc # "reading" /\ pc # "measured"
      /\ currentTable \in AnyTable \cup {NoTable}
  BY DEF Init
<1> QED
  BY <1>3, <1>6, <1>7, <1>8, Zenon DEF TypeInv, TypeOK

(* The parser's read point and its streams always point into the binlog,   *)
(* however it grows and rotates (Parser.parse).                            *)
THEOREM TypeCorrect == Spec => []TypeOK
<1>1. Init => TypeInv
  BY TypeInit
<1>2. TypeInv /\ [Next]_vars => TypeInv'
  BY TypeStep
<1>3. TypeInv => TypeOK
  BY DEF TypeInv
<1> QED
  BY <1>1, <1>2, <1>3, PTL DEF Spec

-----------------------------------------------------------------------------
(* One file.                                                               *)

(* What is known of a binlog of one file.                                  *)
LEMMA One ==
    ASSUME TypeInv, OneFile, FileInv
    PROVE  /\ files[1] \in Seq(Event) /\ Len(files[1]) \in Nat /\ Len(files[1]) >= 1
           /\ DOMAIN files[1] = 1 .. Len(files[1])
           /\ lastReadFileIndex = 1 /\ lastReadPoint \in 0 .. Len(files[1])
           /\ Magic \in Nat /\ totalSize \in Nat /\ At \in 0 .. Len(files[1])
           /\ \A p \in 0 .. Len(files[1]) : End(p) \in Nat
           /\ \A p, q \in 0 .. Len(files[1]) : p <= q => End(p) <= End(q)
<1>1. files \in Seq(Seq(Event)) /\ Len(files) = 1 /\ 1 \in DOMAIN files
  BY DEF TypeInv, TypeOK, OneFile
<1>2. files[1] \in Seq(Event) /\ Len(files[1]) \in Nat /\ DOMAIN files[1] = 1 .. Len(files[1])
  BY <1>1
<1>3. Len(files[1]) >= 1
  BY <1>1 DEF TypeInv
<1>4. lastReadFileIndex = 1 /\ lastReadPoint \in 0 .. Len(files[1]) /\ totalSize \in Nat
  BY <1>1 DEF TypeInv, TypeOK
<1>5. Magic \in Nat /\ At \in 0 .. Len(files[1])
  BY LogAssumption DEF FileInv
<1>6. ASSUME NEW p \in 0 .. Len(files[1]) PROVE End(p) \in Nat
  <2>1. CASE p = 0
    BY <2>1, <1>5 DEF End
  <2>2. CASE p # 0
    <3>1. files[1][p] \in Event
      BY <1>2, <2>2
    <3> QED
      BY <3>1, <2>2 DEF Event, End
  <2> QED
    BY <2>1, <2>2
<1>7. ASSUME NEW p \in 0 .. Len(files[1]), NEW q \in 0 .. Len(files[1]), p <= q
      PROVE  End(p) <= End(q)
  <2>1. CASE p = q
    BY <2>1, <1>6
  <2>2. CASE p < q
    <3>1. End(p) + Magic < End(q)
      BY <2>2 DEF FileInv, Spaced
    <3> QED
      BY <3>1, <1>5, <1>6
  <2> QED
    BY <1>7, <2>1, <2>2
<1> QED
  BY <1>2, <1>3, <1>4, <1>5, <1>6, <1>7

(* One more event in the file.                                             *)
LEMMA LogOne ==
    ASSUME TypeInv, OneFile, FileInv,
           NEW k \in Kind, NEW t \in AnyTable \cup {NoTable}, NEW n \in 0 .. MaxRows,
           Log(k, t, n), k = "map" => t \in AnyTable,
           k = "rows" => LastEvent.kind = "map" /\ t = LastEvent.table
    PROVE  /\ Len(files'[1]) = Len(files[1]) + 1 /\ DOMAIN files'[1] = 1 .. Len(files'[1])
           /\ \A p \in DOMAIN files[1] : files'[1][p] = files[1][p]
           /\ \A p \in 0 .. Len(files[1]) : End(p)' = End(p)
           /\ Laid' /\ Spaced' /\ Mapped'
<1>0. PICK L \in Nat : L = Len(files[1])
  BY One
<1>1. /\ files[1] \in Seq(Event) /\ L \in Nat /\ L >= 1 /\ DOMAIN files[1] = 1 .. L
      /\ Magic \in Nat /\ \A p \in 0 .. L : End(p) \in Nat
      /\ \A p, q \in 0 .. L : p <= q => End(p) <= End(q)
  BY <1>0, One
<1>2. Last = files[1] /\ Len(files) = 1 /\ LastEvent = files[1][L]
  BY <1>0 DEF Last, LastEvent, OneFile
<1>3. files' \in Seq(Seq(Event)) /\ files'[1] = With(files[1], k, t, n)
  <2>1. files' = [files EXCEPT ![Len(files)] = With(@, k, t, n)]
    BY DEF Log
  <2>2. files' \in Seq(Seq(Event)) /\ files'[Len(files)] = With(Last, k, t, n)
    BY <2>1, LogFiles, Zenon
  <2> QED
    BY <2>2, <1>2
<1>4. /\ Len(files'[1]) = L + 1 /\ files'[1] \in Seq(Event)
      /\ \A p \in DOMAIN files[1] : files'[1][p] = files[1][p]
      /\ files'[1][L + 1] = [kind |-> k, table |-> t, rows |-> n, end |-> Bytes(files[1]) + Size[k]]
  <2>1. PICK g \in Seq(Event) : g = files[1]
    BY <1>1
  <2> DEFINE w == With(g, k, t, n)
  <2>2. /\ Len(w) = Len(g) + 1 /\ w \in Seq(Event)
        /\ \A p \in DOMAIN g : w[p] = g[p]
        /\ w[Len(g) + 1] = [kind |-> k, table |-> t, rows |-> n, end |-> Bytes(g) + Size[k]]
    BY WithFile, ZenonT(80)
  <2> HIDE DEF w
  <2>3. files'[1] = w
    BY <1>3, <2>1 DEF w
  <2> QED
    BY <1>0, <2>1, <2>2, <2>3
<1>5. DOMAIN files'[1] = 1 .. L + 1
  BY <1>1, <1>4
<1>6. Bytes(files[1]) = End(L)
  BY <1>0, <1>1 DEF Bytes, End
<1>7. ASSUME NEW p \in 0 .. L PROVE End(p)' = End(p)
  <2>1. CASE p = 0
    BY <2>1 DEF End
  <2>2. CASE p # 0
    <3>1. p \in DOMAIN files[1]
      BY <2>2, <1>1
    <3> QED
      BY <2>2, <3>1, <1>4 DEF End
  <2> QED
    BY <2>1, <2>2
<1>8. /\ End(L + 1)' = End(L) + Size[k]
      /\ Size[k] \in Nat /\ Size[k] > Magic
      /\ files'[1][L + 1].kind = k /\ files'[1][L + 1].table = t
      /\ files'[1][L + 1].end = End(L) + Size[k]
  BY <1>1, <1>4, <1>6, LogAssumption DEF End
<1>9. Laid'
  <2>1. SUFFICES ASSUME NEW p \in 1 .. L + 1
                 PROVE  files'[1][p].end = End(p - 1)' + Size[files'[1][p].kind]
    BY <1>5 DEF Laid
  <2>2. CASE p \in 1 .. L
    <3>0. p - 1 \in 0 .. L
      BY <2>2, <1>1
    <3>1. files'[1][p] = files[1][p] /\ p \in DOMAIN files[1] /\ End(p - 1)' = End(p - 1)
      BY <3>0, <2>2, <1>1, <1>4, <1>7
    <3>2. files[1][p].end = End(p - 1) + Size[files[1][p].kind]
      BY <3>1 DEF FileInv, Laid
    <3> QED
      BY <3>1, <3>2
  <2>3. CASE p = L + 1
    <3>1. p - 1 = L /\ L \in 0 .. L
      BY <2>3, <1>1
    <3>2. End(p - 1)' = End(L)
      BY <3>1, <1>7
    <3> QED
      BY <2>3, <3>2, <1>8
  <2> QED
    BY <2>2, <2>3, <1>1
<1>10. Spaced'
  <2>1. SUFFICES ASSUME NEW p \in 0 .. L + 1, NEW q \in 0 .. L + 1, p < q
                 PROVE  End(p)' + Magic < End(q)'
    BY <1>4 DEF Spaced
  <2>2. CASE q \in 0 .. L
    <3>1. p \in 0 .. L
      BY <2>1, <2>2, <1>1
    <3>2. End(p) + Magic < End(q)
      BY <2>1, <2>2, <3>1, <1>0 DEF FileInv, Spaced
    <3> QED
      BY <2>2, <3>1, <3>2, <1>7
  <2>3. CASE q = L + 1
    <3>1. p \in 0 .. L /\ L \in 0 .. L /\ p <= L
      BY <2>1, <2>3, <1>1
    <3>2. End(p) <= End(L) /\ End(p) \in Nat /\ End(L) \in Nat /\ End(p)' = End(p)
      BY <3>1, <1>1, <1>7
    <3>3. End(q)' = End(L) + Size[k]
      BY <2>3, <1>8
    <3> QED
      BY <3>2, <3>3, <1>1, <1>8
  <2> QED
    BY <2>2, <2>3, <1>1
<1>11. Mapped'
  <2>1. SUFFICES ASSUME NEW p \in 1 .. L + 1
                 PROVE  /\ files'[1][p].kind = "map" => files'[1][p].table \in AnyTable
                        /\ files'[1][p].kind = "rows" =>
                               /\ p > 1 /\ files'[1][p - 1].kind = "map"
                               /\ files'[1][p].table = files'[1][p - 1].table
    BY <1>5 DEF Mapped
  <2>2. CASE p \in 1 .. L
    <3>1. files'[1][p] = files[1][p] /\ p \in DOMAIN files[1]
      BY <2>2, <1>1, <1>4
    <3>2. p > 1 => files'[1][p - 1] = files[1][p - 1]
      <4>1. p > 1 => p - 1 \in DOMAIN files[1]
        BY <2>2, <1>1
      <4> QED
        BY <4>1, <1>4
    <3>3. /\ files[1][p].kind = "map" => files[1][p].table \in AnyTable
          /\ files[1][p].kind = "rows" =>
                 /\ p > 1 /\ files[1][p - 1].kind = "map"
                 /\ files[1][p].table = files[1][p - 1].table
      BY <3>1 DEF FileInv, Mapped
    <3> QED
      BY <3>1, <3>2, <3>3
  <2>3. CASE p = L + 1
    <3>1. p > 1 /\ p - 1 = L /\ files'[1][L] = files[1][L]
      BY <2>3, <1>1, <1>4
    <3>2. LastEvent = files[1][L]
      BY <1>2
    <3> QED
      BY <2>3, <3>1, <3>2, <1>8
  <2> QED
    BY <2>2, <2>3, <1>1
<1> QED
  BY <1>0, <1>4, <1>5, <1>7, <1>9, <1>10, <1>11

(* Logging an event keeps the parts.                                       *)
LEMMA LogParts ==
    ASSUME TypeInv, OneFile, Parts, LogBegin \/ LogMap \/ LogRows \/ LogXid
    PROVE  Parts'
<1> DEFINE L == Len(files[1])
<1>0. FileInv
  BY DEF Parts
<1>1. /\ files[1] \in Seq(Event) /\ L \in Nat /\ L >= 1 /\ DOMAIN files[1] = 1 .. L
      /\ lastReadPoint \in 0 .. L /\ At \in 0 .. L
  BY <1>0, One
<1>2. PICK k \in Kind, t \in AnyTable \cup {NoTable}, n \in 0 .. MaxRows :
          /\ Log(k, t, n)
          /\ k = "map" => t \in AnyTable
          /\ k = "rows" => LastEvent.kind = "map" /\ t = LastEvent.table
  <2>1. \E k \in Kind, t \in AnyTable \cup {NoTable}, n \in 0 .. MaxRows :
            /\ Log(k, t, n)
            /\ k = "map" => t \in AnyTable
            /\ k = "rows" => LastEvent.kind = "map" /\ t = LastEvent.table
    BY LogStep
  <2> QED
    BY <2>1
<1>3. /\ UNCHANGED <<lastReadPoint, totalSize, currentTable, pc, fileSize, measured, streams, delivered, failed>>
      /\ grew' = (grew \/ pc # "idle")
  BY <1>2 DEF Log, statics, locals
<1>4. /\ Len(files'[1]) = L + 1 /\ DOMAIN files'[1] = 1 .. L + 1
      /\ \A p \in DOMAIN files[1] : files'[1][p] = files[1][p]
      /\ \A p \in 0 .. L : End(p)' = End(p)
      /\ Laid' /\ Spaced' /\ Mapped'
  BY <1>0, <1>2, LogOne
<1>5. At' = At
  BY <1>3 DEF At
<1>6. End(At)' = End(At)
  BY <1>1, <1>4, <1>5 DEF End
<1>7. pc # "idle" => measured <= L /\ measured \in 0 .. L
  BY <1>0, <1>1 DEF FileInv, TypeInv, TypeOK
<1>8. \A i \in DOMAIN delivered : delivered[i].file = 1 /\ delivered[i].pos \in 1 .. L
  BY <1>0, <1>1 DEF FileInv
<1> HIDE DEF L
<1>9. FileInv'
  <2>1. At' \in 0 .. Len(files'[1])
    BY <1>1, <1>4, <1>5
  <2>2. pc' = "reading" => Len(streams') = 1
    BY <1>0, <1>3 DEF FileInv
  <2>3. pc' # "idle" => /\ fileSize' = End(measured)' /\ measured' <= Len(files'[1])
                        /\ lastReadPoint' <= measured'
    <3>1. pc # "idle" => End(measured)' = End(measured)
      BY <1>1, <1>3, <1>4, <1>7 DEF End
    <3> QED
      BY <3>1, <1>0, <1>1, <1>3, <1>4, <1>7 DEF FileInv
  <2>4. pc' = "reading" => lastReadPoint' = measured'
    BY <1>0, <1>3 DEF FileInv
  <2>5. \A i \in DOMAIN delivered' : delivered'[i].file = 1 /\ delivered'[i].pos \in DOMAIN files'[1]
    BY <1>1, <1>3, <1>4, <1>8
  <2> QED
    BY <1>4, <2>1, <2>2, <2>3, <2>4, <2>5 DEF FileInv
<1>10. ~failed' => OrderInv'
  <2>1. SUFFICES ASSUME ~failed PROVE OrderInv'
    BY <1>3
  <2>2. OrderInv
    BY <2>1 DEF Parts
  <2> QED
    BY <2>2, <1>3, <1>5, <1>6 DEF OrderInv
<1>11. ASSUME ~grew' PROVE TableInv'
  <2>1. ~grew /\ pc = "idle"
    BY <1>3, <1>11
  <2>2. TableInv
    BY <2>1 DEF Parts
  <2>3. At > 0 => files'[1][At] = files[1][At]
    BY <1>1, <1>4
  <2>4. \A i \in DOMAIN delivered : files'[1][delivered[i].pos] = files[1][delivered[i].pos]
    BY <1>1, <1>4, <1>8
  <2>5. pc' = "idle" /\ totalSize' + Magic <= End(At)'
    BY <2>1, <2>2, <1>3, <1>6 DEF TableInv
  <2> QED
    BY <2>2, <2>3, <2>4, <2>5, <1>3, <1>5 DEF TableInv
<1>12. ASSUME ~grew', ~failed' PROVE LossInv'
  <2>1. LossInv
    BY <1>3, <1>12 DEF Parts
  <2>2. At > 0 => files'[1][At] = files[1][At]
    BY <1>1, <1>4
  <2>3. \A p \in 1 .. At : files'[1][p] = files[1][p]
    BY <1>1, <1>4
  <2>5. ASSUME NEW p \in 1 .. At, files'[1][p].kind = "rows"
        PROVE  Delivered(1, p, files[1][p].rows)'
    <3>1. Delivered(1, p, files[1][p].rows)
      BY <2>1, <2>3, <2>5 DEF LossInv
    <3>2. files'[1][p].rows = files[1][p].rows
      BY <2>3
    <3> QED
      BY <3>1, <3>2, <1>3 DEF Delivered
  <2> QED
    BY <2>1, <2>2, <2>5, <1>3, <1>5 DEF LossInv
<1> QED
  BY <1>9, <1>10, <1>11, <1>12 DEF Parts

(* The event the parser has read.                                          *)
LEMMA ReadOne ==
    ASSUME TypeInv, OneFile, FileInv, ReadEvent
    PROVE  /\ Cursor.file = 1 /\ Cursor.pos = At
           /\ At + 1 \in 1 .. Len(files[1]) /\ Current = files[1][At + 1]
           /\ totalSize' = totalSize + Size[Current.kind] /\ Size[Current.kind] \in Nat
           /\ End(At + 1) = End(At) + Size[Current.kind]
           /\ pc = "reading" /\ Len(streams) = 1
           /\ measured = lastReadPoint /\ fileSize = End(measured)
           /\ UNCHANGED <<files, lastReadPoint, lastReadFileIndex, firstCall, fileSize, measured, grew>>
<1>1. pc = "reading" /\ Len(streams) = 1 /\ measured = lastReadPoint /\ fileSize = End(measured)
  BY DEF ReadEvent, FileInv
<1>2. /\ Cursor = streams[1] /\ Cursor \in [file : DOMAIN files, pos : Nat]
      /\ Cursor.pos + 1 \in DOMAIN files[Cursor.file] /\ Current \in Event
  BY ReadTypes
<1>3. files \in Seq(Seq(Event)) /\ DOMAIN files = {1}
  BY DEF OneFile, TypeInv, TypeOK
<1>4. Cursor.file = 1 /\ Cursor.pos = At /\ At \in Nat
  BY <1>1, <1>2, <1>3 DEF At
<1>5. At + 1 \in DOMAIN files[1] /\ Current = files[1][At + 1] /\ DOMAIN files[1] = 1 .. Len(files[1])
  BY <1>2, <1>4, One DEF Current
<1>6. Current.kind \in Kind
  BY <1>2 DEF Event
<1>7. totalSize' = totalSize + Size[Current.kind] /\ Size[Current.kind] \in Nat
  BY <1>6, LogAssumption DEF ReadEvent
<1>8. PICK q \in DOMAIN files[1] : q = At + 1
  BY <1>5
<1>9. files[1][q].end = End(q - 1) + Size[files[1][q].kind]
  BY DEF FileInv, Laid
<1>10. End(At + 1) = End(At) + Size[Current.kind]
  <2>1. q - 1 = At /\ q # 0 /\ files[1][q] = Current
    BY <1>4, <1>5, <1>8
  <2>2. End(q) = End(At) + Size[Current.kind]
    BY <2>1, <1>9 DEF End
  <2> QED
    BY <2>2, <1>8
<1>11. UNCHANGED <<files, lastReadPoint, lastReadFileIndex, firstCall, fileSize, measured, grew>>
  BY DEF ReadEvent, statics
<1> QED
  BY <1>1, <1>4, <1>5, <1>7, <1>10, <1>11

(* Going on: the event is within the length that was measured unless a     *)
(* call has failed.                                                        *)
LEMMA Forward ==
    ASSUME TypeInv, OneFile, Parts, ReadEvent, ~BeyondLimit, Continue
    PROVE  /\ At' = At + 1 /\ End(At)' = End(At + 1) /\ pc' = "reading" /\ Len(streams') = 1
           /\ ~failed => totalSize' + Magic >= End(At + 1) /\ At + 1 <= lastReadPoint
           /\ ~grew => totalSize' + Magic <= End(At + 1) /\ measured = Len(files[1])
<1> DEFINE L == Len(files[1])
<1>0. FileInv
  BY DEF Parts
<1>1. /\ At + 1 \in 1 .. L /\ totalSize' = totalSize + Size[Current.kind]
      /\ Size[Current.kind] \in Nat /\ End(At + 1) = End(At) + Size[Current.kind]
      /\ pc = "reading" /\ Len(streams) = 1 /\ files' = files
      /\ measured = lastReadPoint /\ fileSize = End(measured)
  BY <1>0, ReadOne
<1>2. /\ L \in Nat /\ At \in 0 .. L /\ lastReadPoint \in 0 .. L /\ Magic \in Nat /\ totalSize \in Nat
      /\ \A p \in 0 .. L : End(p) \in Nat
  BY <1>0, One
<1>3. streams'[1].pos = streams[1].pos + 1 /\ Len(streams') = 1 /\ pc' = "reading"
  BY <1>1, ContinueTypes DEF Continue
<1>4. At' = At + 1
  BY <1>1, <1>3 DEF At
<1>5. End(At)' = End(At + 1)
  BY <1>1, <1>4 DEF End
<1>6. At + 1 \in 0 .. L /\ End(At + 1) \in Nat /\ End(At) \in Nat /\ End(lastReadPoint) \in Nat
  BY <1>1, <1>2
<1>7. ASSUME ~failed PROVE totalSize' + Magic >= End(At + 1) /\ At + 1 <= lastReadPoint
  <2>1. totalSize + Magic >= End(At)
    BY <1>7 DEF Parts, OrderInv
  <2>2. totalSize' + Magic >= End(At + 1)
    <3>1. PICK z \in Nat : z = Size[Current.kind]
      BY <1>1
    <3>2. totalSize' = totalSize + z /\ End(At + 1) = End(At) + z
      BY <3>1, <1>1
    <3>3. ASSUME NEW a \in Nat, NEW b \in Nat, NEW c \in Nat, a + c >= b
          PROVE  (a + z) + c >= b + z
      BY <3>3
    <3>4. totalSize \in Nat /\ Magic \in Nat /\ End(At) \in Nat
      BY <1>2, <1>6
    <3> QED
      BY ONLY <2>1, <3>2, <3>3, <3>4
  <2>3. totalSize' <= End(lastReadPoint)
    BY <1>1, <1>2, <1>6 DEF BeyondLimit
  <2>4. lastReadPoint < At + 1 => End(lastReadPoint) + Magic < End(At + 1)
    BY <1>0, <1>2, <1>6 DEF FileInv, Spaced
  <2>5. totalSize' \in Nat
    <3>1. PICK z \in Nat : z = Size[Current.kind]
      BY <1>1
    <3>2. totalSize' = totalSize + z /\ totalSize \in Nat
      BY <3>1, <1>1, <1>2
    <3> QED
      BY ONLY <3>1, <3>2
  <2> QED
    BY <2>2, <2>3, <2>4, <2>5, <1>2, <1>6
<1>8. ASSUME ~grew PROVE totalSize' + Magic <= End(At + 1) /\ measured = L
  <2>1. totalSize + Magic <= End(At) /\ measured = L
    BY <1>8, <1>1 DEF Parts, TableInv
  <2> QED
    BY <2>1, <1>1, <1>2, <1>6
<1> QED
  BY <1>1, <1>3, <1>4, <1>5, <1>7, <1>8

(* An event that brings no change.                                         *)
LEMMA PassOver ==
    ASSUME TypeInv, OneFile, Parts, ReadEvent, ~BeyondLimit, Continue,
           UNCHANGED <<delivered, failed>>,
           Current.kind = "map" => currentTable' = Current.table,
           ~grew /\ ~failed => Current.kind # "rows"
    PROVE  Parts'
<1> DEFINE L == Len(files[1])
<1>0. FileInv
  BY DEF Parts
<1>1. /\ At' = At + 1 /\ End(At)' = End(At + 1) /\ pc' = "reading" /\ Len(streams') = 1
      /\ ~failed => totalSize' + Magic >= End(At + 1) /\ At + 1 <= lastReadPoint
      /\ ~grew => totalSize' + Magic <= End(At + 1) /\ measured = L
  BY Forward
<1>2. /\ At + 1 \in 1 .. L /\ Current = files[1][At + 1]
      /\ measured = lastReadPoint /\ fileSize = End(measured)
      /\ UNCHANGED <<files, lastReadPoint, fileSize, measured, grew>>
  BY <1>0, ReadOne
<1>3. L \in Nat /\ At \in 0 .. L /\ lastReadPoint \in 0 .. L
  BY <1>0, One
<1>4. \A i \in DOMAIN delivered : delivered[i].file = 1 /\ delivered[i].pos \in DOMAIN files[1]
                                  /\ delivered[i].pos \in Nat
  BY <1>0, One DEF FileInv
<1>5. FileInv'
  <2>1. Laid' /\ Spaced' /\ Mapped' /\ End(measured)' = End(measured)
    BY <1>0, <1>2 DEF FileInv, Laid, Spaced, Mapped, End
  <2>2. At' \in 0 .. Len(files'[1])
    BY <1>1, <1>2, <1>3
  <2>3. fileSize' = End(measured)' /\ measured' <= Len(files'[1]) /\ lastReadPoint' <= measured'
        /\ lastReadPoint' = measured'
    BY <2>1, <1>2, <1>3
  <2> QED
    BY <2>1, <2>2, <2>3, <1>1, <1>2, <1>4 DEF FileInv
<1>6. ASSUME ~failed' PROVE OrderInv'
  <2>1. OrderInv
    BY <1>6 DEF Parts
  <2>2. \A i \in DOMAIN delivered : delivered[i].pos <= At + 1 /\ delivered[i].pos <= lastReadPoint
    BY <2>1, <1>3, <1>4 DEF OrderInv
  <2>3. totalSize' + Magic >= End(At)'
    BY <1>1, <1>6
  <2> QED
    BY <2>1, <2>2, <2>3, <1>1, <1>2 DEF OrderInv
<1>7. ASSUME ~grew' PROVE TableInv'
  <2>1. TableInv /\ ~grew
    BY <1>2, <1>7 DEF Parts
  <2>2. totalSize' + Magic <= End(At)' /\ measured' = Len(files'[1])
    BY <2>1, <1>1, <1>2
  <2>3. files'[1][At'] = Current
    BY <1>1, <1>2
  <2> QED
    BY <2>1, <2>2, <2>3, <1>2 DEF TableInv
<1>8. ASSUME ~grew', ~failed' PROVE LossInv'
  <2>1. LossInv /\ ~grew /\ ~failed
    BY <1>2, <1>8 DEF Parts
  <2>2. files'[1][At'] = Current /\ Current.kind # "rows"
    BY <2>1, <1>1, <1>2
  <2>3. ASSUME NEW p \in 1 .. At', files'[1][p].kind = "rows"
        PROVE  Delivered(1, p, files[1][p].rows)'
    <3>1. p \in 1 .. At
      BY <2>2, <2>3, <1>1, <1>3
    <3>2. Delivered(1, p, files[1][p].rows)
      BY <2>1, <2>3, <3>1, <1>2 DEF LossInv
    <3> QED
      BY <3>2, <1>2 DEF Delivered
  <2> QED
    BY <2>2, <2>3 DEF LossInv
<1> QED
  BY <1>5, <1>6, <1>7, <1>8 DEF Parts

(* A rows event follows a TABLE_MAP event the parser has just read.        *)
LEMMA AfterMap ==
    ASSUME TypeInv, OneFile, FileInv, ReadEvent, Current.kind = "rows"
    PROVE  /\ At > 0 /\ files[1][At].kind = "map" /\ files[1][At].table \in AnyTable
           /\ Current.table = files[1][At].table
<1>1. At + 1 \in 1 .. Len(files[1]) /\ Current = files[1][At + 1] /\ DOMAIN files[1] = 1 .. Len(files[1])
      /\ At \in 0 .. Len(files[1])
  BY One, ReadOne
<1>2. /\ At + 1 > 1 /\ files[1][At + 1 - 1].kind = "map"
      /\ files[1][At + 1].table = files[1][At + 1 - 1].table
  BY <1>1 DEF FileInv, Mapped
<1>3. At + 1 - 1 = At /\ At \in DOMAIN files[1] /\ At > 0
  BY <1>1, <1>2
<1>4. files[1][At].kind = "map" /\ files[1][At + 1].table = files[1][At].table
  BY <1>2, <1>3
<1>5. files[1][At].table \in AnyTable
  BY <1>3, <1>4 DEF FileInv, Mapped
<1> QED
  BY <1>1, <1>3, <1>4, <1>5

(* A change is handed on.                                                  *)
LEMMA RowsParts ==
    ASSUME TypeInv, OneFile, Parts, ReadRows
    PROVE  Parts'
<1> DEFINE L == Len(files[1])
           d == [file |-> Cursor.file, pos |-> Cursor.pos + 1, row |-> Current.rows, as |-> currentTable]
           N == Len(delivered)
<1>0. FileInv /\ ReadEvent /\ ~BeyondLimit /\ Continue /\ Current.kind = "rows" /\ currentTable \in Table
  BY DEF Parts, ReadRows
<1>1. /\ At' = At + 1 /\ End(At)' = End(At + 1) /\ pc' = "reading" /\ Len(streams') = 1
      /\ ~failed => totalSize' + Magic >= End(At + 1) /\ At + 1 <= lastReadPoint
      /\ ~grew => totalSize' + Magic <= End(At + 1) /\ measured = L
  BY <1>0, Forward
<1>2. /\ At + 1 \in 1 .. L /\ Current = files[1][At + 1] /\ Cursor.file = 1 /\ Cursor.pos = At
      /\ measured = lastReadPoint /\ fileSize = End(measured)
      /\ UNCHANGED <<files, lastReadPoint, fileSize, measured, grew>>
  BY <1>0, ReadOne
<1>3. L \in Nat /\ At \in 0 .. L /\ lastReadPoint \in 0 .. L /\ DOMAIN files[1] = 1 .. L
  BY <1>0, One
<1>4. /\ At > 0 /\ files[1][At].kind = "map" /\ files[1][At].table \in AnyTable
      /\ Current.table = files[1][At].table
  BY <1>0, AfterMap
<1>5. UNCHANGED <<currentTable, failed>> /\ delivered' = Append(delivered, d) /\ delivered \in Seq(Change)
  BY DEF ReadRows, TypeInv, TypeOK
<1>6. d.file = 1 /\ d.pos = At + 1 /\ d.row = Current.rows /\ d.as = currentTable
  BY <1>2
<1> HIDE DEF d
<1>7. /\ N \in Nat /\ DOMAIN delivered = 1 .. N /\ DOMAIN delivered' = 1 .. N + 1
      /\ \A i \in 1 .. N : delivered'[i] = delivered[i]
      /\ delivered'[N + 1] = d
  <2>1. delivered' \in Seq(Change) /\ delivered \in Seq(Change)
    BY <1>5, RowsTypes
  <2>2. Len(delivered') = N + 1
    BY <1>5
  <2>3. DOMAIN delivered = 1 .. N /\ DOMAIN delivered' = 1 .. N + 1 /\ N \in Nat
    BY <2>1, <2>2
  <2> QED
    BY <1>5, <2>3
<1> HIDE DEF N
<1>8. \A i \in 1 .. N : delivered[i].file = 1 /\ delivered[i].pos \in 1 .. L
  BY <1>0, <1>3, <1>7 DEF FileInv
<1>9. FileInv'
  <2>1. Laid' /\ Spaced' /\ Mapped' /\ End(measured)' = End(measured)
    BY <1>0, <1>2 DEF FileInv, Laid, Spaced, Mapped, End
  <2>2. At' \in 0 .. Len(files'[1])
    BY <1>1, <1>2, <1>3
  <2>3. fileSize' = End(measured)' /\ measured' <= Len(files'[1]) /\ lastReadPoint' <= measured'
        /\ lastReadPoint' = measured'
    BY <2>1, <1>2, <1>3
  <2>4. ASSUME NEW i \in 1 .. N + 1
        PROVE  delivered'[i].file = 1 /\ delivered'[i].pos \in DOMAIN files'[1]
    <3>1. CASE i \in 1 .. N
      BY <3>1, <1>2, <1>3, <1>7, <1>8
    <3>2. CASE i = N + 1
      BY <3>2, <1>2, <1>3, <1>6, <1>7
    <3> QED
      BY <3>1, <3>2, <1>7
  <2> QED
    BY <2>1, <2>2, <2>3, <2>4, <1>1, <1>2, <1>7 DEF FileInv
<1>10. ASSUME ~failed' PROVE OrderInv'
  <2>1. OrderInv /\ At + 1 <= lastReadPoint /\ totalSize' + Magic >= End(At)'
    BY <1>1, <1>5, <1>10 DEF Parts
  <2>2. \A i \in 1 .. N : delivered[i].pos <= At /\ delivered[i].pos <= lastReadPoint
    BY <2>1, <1>7 DEF OrderInv
  <2>3. ASSUME NEW i \in 1 .. N + 1
        PROVE  delivered'[i].pos <= At' /\ delivered'[i].pos <= lastReadPoint'
    <3>1. CASE i \in 1 .. N
      BY <3>1, <2>2, <1>1, <1>2, <1>3, <1>7, <1>8
    <3>2. CASE i = N + 1
      BY <3>2, <2>1, <1>1, <1>2, <1>3, <1>6, <1>7
    <3> QED
      BY <3>1, <3>2, <1>7
  <2>4. ASSUME NEW i \in 1 .. N + 1, NEW j \in 1 .. N + 1, i < j
        PROVE  delivered'[i].pos < delivered'[j].pos
    <3>1. i \in 1 .. N
      BY <2>4, <1>7
    <3>2. CASE j \in 1 .. N
      BY <2>4, <3>1, <3>2, <2>1, <1>7 DEF OrderInv
    <3>3. CASE j = N + 1
      <4>1. delivered'[i].pos = delivered[i].pos /\ delivered[i].pos \in 1 .. L /\ delivered[i].pos <= At
        BY <3>1, <2>2, <1>7, <1>8
      <4>2. delivered'[j].pos = At + 1
        BY <3>3, <1>6, <1>7
      <4> QED
        BY <4>1, <4>2, <1>3
    <3> QED
      BY <3>2, <3>3, <1>7
  <2> QED
    BY <2>1, <2>3, <2>4, <1>7 DEF OrderInv
<1>11. ASSUME ~grew' PROVE TableInv'
  <2>1. TableInv /\ ~grew
    BY <1>2, <1>11 DEF Parts
  <2>2. totalSize' + Magic <= End(At)' /\ measured' = Len(files'[1])
    BY <2>1, <1>1, <1>2
  <2>3. files'[1][At'].kind # "map"
    BY <1>0, <1>1, <1>2
  <2>4. currentTable = Current.table
    BY <2>1, <1>0, <1>4, LogAssumption DEF TableInv
  <2>5. ASSUME NEW i \in 1 .. N + 1
        PROVE  files'[1][delivered'[i].pos].table = delivered'[i].as
    <3>1. CASE i \in 1 .. N
      BY <3>1, <2>1, <1>2, <1>7 DEF TableInv
    <3>2. CASE i = N + 1
      BY <3>2, <2>4, <1>2, <1>6, <1>7
    <3> QED
      BY <3>1, <3>2, <1>7
  <2> QED
    BY <2>2, <2>3, <2>5, <1>7 DEF TableInv
<1>12. ASSUME ~grew', ~failed' PROVE LossInv'
  <2>1. LossInv
    BY <1>2, <1>5, <1>12 DEF Parts
  <2>2. files'[1][At'].kind # "map"
    BY <1>0, <1>1, <1>2
  <2>3. ASSUME NEW p \in 1 .. At', files'[1][p].kind = "rows"
        PROVE  Delivered(1, p, files[1][p].rows)'
    <3>1. CASE p \in 1 .. At
      <4>1. Delivered(1, p, files[1][p].rows)
        BY <2>1, <2>3, <3>1, <1>2 DEF LossInv
      <4>2. PICK i \in 1 .. N : delivered[i].file = 1 /\ delivered[i].pos = p /\ delivered[i].row = files[1][p].rows
        BY <4>1, <1>7 DEF Delivered
      <4>3. i \in 1 .. N + 1 /\ delivered'[i] = delivered[i]
        BY <4>2, <1>7
      <4> QED
        BY <4>2, <4>3, <1>2, <1>7 DEF Delivered
    <3>2. CASE p = At + 1
      <4>1. N + 1 \in DOMAIN delivered' /\ delivered'[N + 1] = d
        BY <1>7
      <4>2. d.file = 1 /\ d.pos = p /\ d.row = files'[1][p].rows
        BY <3>2, <1>2, <1>6
      <4> QED
        BY <4>1, <4>2 DEF Delivered
    <3> QED
      BY <3>1, <3>2, <1>1, <1>3
  <2> QED
    BY <2>2, <2>3 DEF LossInv
<1> QED
  BY <1>9, <1>10, <1>11, <1>12 DEF Parts

(* The end of a call: the next one is at the read point.                   *)
LEMMA LeaveParts ==
    ASSUME TypeInv, OneFile, Parts, Leave,
           UNCHANGED <<files, lastReadPoint, delivered, currentTable, grew>>,
           ~failed' => ~failed /\ totalSize' + Magic >= End(lastReadPoint),
           ~grew => totalSize' + Magic <= End(lastReadPoint),
           ~grew => \/ currentTable \in OtherTable
                    \/ At = lastReadPoint,
           ~grew /\ ~failed' => At = lastReadPoint
    PROVE  Parts'
<1>0. FileInv
  BY DEF Parts
<1>1. pc' = "idle" /\ At' = lastReadPoint
  BY DEF Leave, At
<1>2. /\ lastReadPoint \in 0 .. Len(files[1]) /\ Len(files[1]) \in Nat
      /\ DOMAIN files[1] = 1 .. Len(files[1]) /\ At \in 0 .. Len(files[1])
  BY <1>0, One
<1>3. End(At)' = End(lastReadPoint)
  BY <1>1 DEF End
<1>4. FileInv'
  <2>1. Laid' /\ Spaced' /\ Mapped'
    BY <1>0 DEF FileInv, Laid, Spaced, Mapped, End
  <2> QED
    BY <2>1, <1>0, <1>1, <1>2 DEF FileInv
<1>5. ASSUME ~failed' PROVE OrderInv'
  <2>1. OrderInv /\ totalSize' + Magic >= End(At)'
    BY <1>3, <1>5 DEF Parts
  <2> QED
    BY <2>1, <1>1 DEF OrderInv
<1>6. ASSUME ~grew' PROVE TableInv'
  <2>1. TableInv /\ ~grew
    BY <1>6 DEF Parts
  <2>2. totalSize' + Magic <= End(At)'
    BY <1>3, <2>1
  <2>3. At' > 0 /\ files'[1][At'].kind = "map" =>
            currentTable' = files'[1][At'].table \/ currentTable' \in OtherTable
    BY <1>1, <2>1 DEF TableInv
  <2> QED
    BY <2>1, <2>2, <2>3, <1>1 DEF TableInv
<1>7. ASSUME ~grew', ~failed' PROVE LossInv'
  <2>1. LossInv /\ At' = At
    BY <1>1, <1>7 DEF Parts
  <2> QED
    BY <2>1 DEF LossInv, Delivered
<1> QED
  BY <1>4, <1>5, <1>6, <1>7 DEF Parts

(* The loop ends with an event beyond the length that was measured, with   *)
(* an exception, or with the log.                                          *)
LEMMA EndParts ==
    ASSUME TypeInv, OneFile, Parts, Break \/ Fail \/ EndOfLog
    PROVE  Parts'
<1> DEFINE L == Len(files[1])
<1>0. FileInv
  BY DEF Parts
<1>1. /\ L \in Nat /\ lastReadPoint \in 0 .. L /\ At \in 0 .. L /\ Magic \in Nat /\ totalSize \in Nat
      /\ \A p \in 0 .. L : End(p) \in Nat
      /\ \A p, q \in 0 .. L : p <= q => End(p) <= End(q)
  BY <1>0, One
<1>2. End(lastReadPoint) \in Nat /\ End(At) \in Nat
  BY <1>1
<1>3. ~grew /\ pc = "reading" => lastReadPoint = L
  BY <1>0 DEF Parts, TableInv, FileInv
<1> HIDE DEF L
<1>4. ASSUME ReadEvent
      PROVE  /\ UNCHANGED <<files, lastReadPoint, grew>> /\ fileSize = End(lastReadPoint)
             /\ totalSize' \in Nat
             /\ ~grew => totalSize' + Magic <= End(lastReadPoint)
  <2>1. /\ At + 1 \in 1 .. L /\ totalSize' = totalSize + Size[Current.kind]
        /\ Size[Current.kind] \in Nat /\ End(At + 1) = End(At) + Size[Current.kind]
        /\ pc = "reading" /\ measured = lastReadPoint /\ fileSize = End(measured)
        /\ UNCHANGED <<files, lastReadPoint, grew>>
    BY <1>0, <1>4, ReadOne DEF L
  <2>2. ASSUME ~grew PROVE totalSize' + Magic <= End(lastReadPoint)
    <3>1. totalSize + Magic <= End(At) /\ lastReadPoint = L
      BY <2>1, <2>2, <1>3 DEF Parts, TableInv
    <3>2. PICK z \in Nat : z = Size[Current.kind]
      BY <2>1
    <3>3. totalSize' = totalSize + z /\ End(At + 1) = End(At) + z
      BY <2>1, <3>2
    <3>4. totalSize' + Magic <= End(At + 1)
      BY <3>1, <3>3, <1>1, <1>2
    <3>5. At + 1 \in 0 .. L /\ L \in 0 .. L /\ At + 1 <= L
      BY <2>1, <1>1
    <3>6. End(At + 1) <= End(L) /\ End(At + 1) \in Nat /\ End(L) \in Nat
      BY <3>5, <1>1
    <3> QED
      BY <3>1, <3>4, <3>6, <2>1, <1>1
  <2>3. totalSize' \in Nat
    BY <2>1, <1>1
  <2> QED
    BY <2>1, <2>2, <2>3
<1>5. CASE Break
  <2>1. ReadEvent /\ Leave /\ totalSize' > fileSize /\ UNCHANGED <<currentTable, delivered, failed>>
    BY <1>5 DEF Break, BeyondLimit
  <2>2. totalSize' > End(lastReadPoint) /\ totalSize' \in Nat
    BY <2>1, <1>4
  <2>3. totalSize' + Magic >= End(lastReadPoint)
    BY <2>2, <1>1, <1>2
  <2>4. grew
    BY <2>1, <2>2, <1>1, <1>2, <1>4 DEF TypeInv, TypeOK
  <2> QED
    BY <2>1, <2>3, <2>4, <1>4, LeaveParts
<1>6. CASE Fail
  <2>1. ReadEvent /\ Leave /\ failed' /\ UNCHANGED <<currentTable, delivered>>
        /\ \/ currentTable \in OtherTable
           \/ Current.kind = "rows" /\ currentTable \in Table /\ Current.table # currentTable
    BY <1>6 DEF Fail
  <2>2. ASSUME ~grew PROVE currentTable \in OtherTable
    <3>1. CASE Current.kind = "rows" /\ Current.table # currentTable
      <4>1. /\ At > 0 /\ files[1][At].kind = "map" /\ Current.table = files[1][At].table
        BY <3>1, <2>1, <1>0, AfterMap
      <4> QED
        BY <4>1, <3>1, <2>2 DEF Parts, TableInv
    <3> QED
      BY <2>1, <3>1
  <2> QED
    BY <2>1, <2>2, <1>4, LeaveParts
<1>7. CASE EndOfLog
  <2>1. /\ pc = "reading" /\ AtEnd(Cursor) /\ Leave /\ totalSize' = totalSize
        /\ UNCHANGED <<files, lastReadPoint, delivered, currentTable, grew, failed>>
    BY <1>7 DEF EndOfLog, statics
  <2>2. At = L
    <3>1. Len(streams) = 1 /\ streams \in Seq([file : DOMAIN files, pos : Nat]) /\ DOMAIN files = {1}
      BY <2>1, <1>0 DEF FileInv, TypeInv, TypeOK, OneFile
    <3>2. Cursor = streams[1] /\ 1 \in DOMAIN streams
      BY <3>1, Element DEF Cursor
    <3>3. streams[1] \in [file : DOMAIN files, pos : Nat]
      BY <3>1, <3>2, Element
    <3>4. streams[1].file = 1
      BY <3>1, <3>3
    <3> QED
      BY <2>1, <3>2, <3>4 DEF AtEnd, At, L
  <2>3. ASSUME ~failed PROVE totalSize' + Magic >= End(lastReadPoint)
    <3>1. totalSize + Magic >= End(L)
      BY <2>2, <2>3 DEF Parts, OrderInv
    <3>2. L \in 0 .. L /\ lastReadPoint <= L
      BY <1>1
    <3>3. End(lastReadPoint) <= End(L) /\ End(L) \in Nat
      BY <3>2, <1>1
    <3> QED
      BY <3>1, <3>3, <2>1, <1>1, <1>2
  <2>4. ASSUME ~grew PROVE At = lastReadPoint /\ totalSize' + Magic <= End(lastReadPoint)
    <3>1. totalSize + Magic <= End(At) /\ At = lastReadPoint
      BY <2>1, <2>2, <2>4, <1>3 DEF Parts, TableInv
    <3> QED
      BY <3>1, <2>1
  <2> QED
    BY <2>1, <2>3, <2>4, LeaveParts
<1> QED
  BY <1>5, <1>6, <1>7

(* The beginning of a call: its length is that of the file, and the        *)
(* reader starts at the read point.                                        *)
LEMMA StartParts ==
    ASSUME TypeInv, OneFile, Parts, Measure \/ Open
    PROVE  Parts'
<1> DEFINE L == Len(files[1])
<1>0. FileInv
  BY DEF Parts
<1>1. /\ files[1] \in Seq(Event) /\ L \in Nat /\ L >= 1 /\ DOMAIN files[1] = 1 .. L
      /\ lastReadFileIndex = 1 /\ lastReadPoint \in 0 .. L /\ At \in 0 .. L
  BY <1>0, One
<1>2. UNCHANGED <<files, totalSize, currentTable, delivered, grew, failed>>
  BY DEF Measure, Open
<1>3. /\ At' = At /\ pc' # "idle" /\ fileSize' = End(measured)' /\ measured' \in 0 .. L
      /\ lastReadPoint' <= measured' /\ lastReadPoint <= lastReadPoint'
      /\ pc' = "reading" => Len(streams') = 1 /\ lastReadPoint' = measured'
      /\ ~grew => measured' = L
  <2>1. CASE Measure
    <3>1. pc = "idle" /\ pc' = "measured" /\ measured' = L /\ lastReadPoint' = lastReadPoint
      BY <2>1, <1>1 DEF Measure, statics
    <3>2. fileSize' = files[1][L].end
      BY <2>1, <1>1 DEF Measure, Bytes
    <3>3. fileSize' = End(measured)'
      BY <3>1, <3>2, <1>1, <1>2 DEF End
    <3>4. At' = At
      BY <3>1 DEF At
    <3> QED
      BY <3>1, <3>3, <3>4, <1>1
  <2>2. CASE Open
    <3>1. /\ pc = "measured" /\ pc' = "reading" /\ streams' = <<Rest>>
          /\ lastReadPoint' = measured /\ UNCHANGED <<fileSize, measured>>
      BY <2>2, <1>1 DEF Open, OneFile
    <3>2. Len(streams') = 1 /\ streams'[1] = Rest /\ Rest.pos = lastReadPoint
      BY <3>1 DEF Rest
    <3>3. At' = At
      BY <3>1, <3>2 DEF At
    <3>4. fileSize = End(measured) /\ measured <= L /\ lastReadPoint <= measured /\ measured \in Nat
      BY <3>1, <1>0 DEF FileInv, TypeInv, TypeOK
    <3>5. fileSize' = End(measured)'
      BY <3>1, <3>4, <1>2 DEF End
    <3>6. ~grew => measured = L
      BY <3>1 DEF Parts, TableInv
    <3> QED
      BY <3>1, <3>2, <3>3, <3>4, <3>5, <3>6, <1>1
  <2> QED
    BY <2>1, <2>2
<1>4. End(At)' = End(At)
  BY <1>2, <1>3 DEF End
<1>5. \A i \in DOMAIN delivered : delivered[i].file = 1 /\ delivered[i].pos \in 1 .. L
  BY <1>0, <1>1 DEF FileInv
<1>6. FileInv'
  <2>1. Laid' /\ Spaced' /\ Mapped'
    BY <1>0, <1>2 DEF FileInv, Laid, Spaced, Mapped, End
  <2> QED
    BY <2>1, <1>1, <1>2, <1>3, <1>5 DEF FileInv
<1>7. ASSUME ~failed' PROVE OrderInv'
  <2>1. OrderInv
    BY <1>2, <1>7 DEF Parts
  <2>2. lastReadPoint' \in Nat
    BY <1>3 DEF TypeInv, TypeOK, Measure, Open, statics
  <2>3. \A i \in DOMAIN delivered : delivered[i].pos <= At /\ delivered[i].pos <= lastReadPoint'
    <3>1. TAKE i \in DOMAIN delivered
    <3>2. delivered[i].pos <= At /\ delivered[i].pos <= lastReadPoint /\ delivered[i].pos \in Nat
      BY <2>1, <1>1, <1>5 DEF OrderInv
    <3> QED
      BY <3>2, <2>2, <1>1, <1>3
  <2> QED
    BY <2>1, <2>3, <1>2, <1>3, <1>4 DEF OrderInv
<1>8. ASSUME ~grew' PROVE TableInv'
  <2>1. TableInv /\ measured' = Len(files'[1])
    BY <1>2, <1>3, <1>8 DEF Parts
  <2> QED
    BY <2>1, <1>2, <1>3, <1>4 DEF TableInv
<1>9. ASSUME ~grew', ~failed' PROVE LossInv'
  <2>1. LossInv
    BY <1>2, <1>9 DEF Parts
  <2> QED
    BY <2>1, <1>2, <1>3 DEF LossInv, Delivered
<1> QED
  BY <1>6, <1>7, <1>8, <1>9 DEF Parts

-----------------------------------------------------------------------------
(* The theorems.                                                           *)

(* The invariant holds at the start.                                       *)
LEMMA InvInit == Init => IInv
<1> SUFFICES ASSUME Init PROVE IInv
  OBVIOUS
<1>1. TypeInv
  BY TypeInit
<1>2. NewFile \in Seq(Event) /\ Len(NewFile) = 1
      /\ NewFile[1] = [kind |-> "format", table |-> NoTable, rows |-> 0, end |-> Magic + Size["format"]]
  BY NewFileEvent
<1>3. files[1] = NewFile /\ At = 0 /\ pc = "idle" /\ totalSize = 0 /\ delivered = <<>> /\ DOMAIN delivered = {}
  BY DEF Init, At
<1>4. DOMAIN files[1] = {1} /\ Len(files[1]) = 1 /\ files[1][1].kind = "format"
      /\ files[1][1].end = Magic + Size["format"]
  BY <1>2, <1>3
<1>5. Magic \in Nat /\ Size["format"] \in Nat /\ Size["format"] > Magic
  BY LogAssumption DEF Kind
<1>6. End(0) = Magic /\ End(1) = Magic + Size["format"] /\ End(At) = Magic
  BY <1>3, <1>4 DEF End
<1>7. Laid
  BY <1>4, <1>6 DEF Laid
<1>8. Spaced
  BY <1>4, <1>5, <1>6 DEF Spaced
<1>9. Mapped
  BY <1>4 DEF Mapped
<1>10. FileInv
  BY <1>3, <1>4, <1>7, <1>8, <1>9 DEF FileInv
<1>11. OrderInv /\ TableInv
  BY <1>3, <1>5, <1>6 DEF OrderInv, TableInv
<1>12. LossInv
  BY <1>3 DEF LossInv
<1> QED
  BY <1>1, <1>10, <1>11, <1>12 DEF IInv, Parts

(* Every step keeps the invariant.                                         *)
LEMMA InvStep ==
    ASSUME IInv, [Next]_vars
    PROVE  IInv'
<1>1. TypeInv /\ TypeInv'
  BY TypeStep DEF IInv
<1>2. files \in Seq(Seq(Event)) /\ Len(files) \in Nat /\ Len(files) >= 1
  BY <1>1 DEF TypeInv, TypeOK
<1> SUFFICES ASSUME OneFile' PROVE Parts'
  BY <1>1 DEF IInv
<1>3. CASE Rotate
  <2>1. Len(files') = Len(files) + 1
    BY <1>1, <1>3, RotateFiles
  <2> QED
    BY <2>1, <1>2 DEF OneFile
<1>4. ASSUME ~Rotate PROVE OneFile /\ Parts
  <2>1. CASE LogBegin \/ LogMap \/ LogRows \/ LogXid
    <3>1. PICK k \in Kind, t \in AnyTable \cup {NoTable}, n \in 0 .. MaxRows : Log(k, t, n)
      BY <2>1, <1>1, LogStep
    <3>2. Len(files') = Len(files)
      BY <3>1, <1>1, LogFiles DEF Log
    <3> QED
      BY <3>2 DEF OneFile, IInv
  <2>2. CASE ~(LogBegin \/ LogMap \/ LogRows \/ LogXid)
    <3>1. files' = files
      BY <1>4, <2>2 DEF Next, Database, Parser, Idle, vars, Measure, Open, NextStream, EndOfLog,
                        Break, ReadMap, Skip, ReadRows, Fail, ReadEvent
    <3> QED
      BY <3>1 DEF OneFile, IInv
  <2> QED
    BY <2>1, <2>2
<1>5. CASE LogBegin \/ LogMap \/ LogRows \/ LogXid
  <2>1. CASE Rotate
    BY <2>1, <1>3
  <2>2. CASE ~Rotate
    BY <2>2, <1>1, <1>4, <1>5, LogParts
  <2> QED
    BY <2>1, <2>2
<1>6. CASE ~Rotate /\ (Measure \/ Open)
  BY <1>1, <1>4, <1>6, StartParts
<1>7. CASE ~Rotate /\ (Break \/ Fail \/ EndOfLog)
  BY <1>1, <1>4, <1>7, EndParts
<1>8. CASE ~Rotate /\ NextStream
  <2>1. pc = "reading" /\ Len(streams) > 1
    BY <1>8 DEF NextStream
  <2>2. FileInv
    BY <1>4, <1>8 DEF Parts
  <2>3. Len(streams) = 1
    BY <2>1, <2>2 DEF FileInv
  <2> QED
    BY <2>1, <2>3
<1>9. CASE ~Rotate /\ ReadMap
  BY <1>1, <1>4, <1>9, PassOver DEF ReadMap
<1>10. CASE ~Rotate /\ Skip
  <2>1. ReadEvent /\ ~BeyondLimit /\ Continue /\ UNCHANGED <<delivered, failed>> /\ Current.kind # "map"
        /\ (Current.kind = "rows" => currentTable = NoTable)
    BY <1>10 DEF Skip
  <2>2. ASSUME ~grew, ~failed, Current.kind = "rows" PROVE FALSE
    <3>1. At > 0 /\ files[1][At].kind = "map" /\ files[1][At].table \in AnyTable
      BY <2>1, <2>2, <1>1, <1>4, <1>10, AfterMap DEF Parts
    <3>2. currentTable = files[1][At].table
      BY <2>2, <3>1, <1>4, <1>10 DEF Parts, LossInv
    <3> QED
      BY <2>1, <2>2, <3>1, <3>2, LogAssumption
  <2> QED
    BY <2>1, <2>2, <1>1, <1>4, <1>10, PassOver
<1>11. CASE ~Rotate /\ ReadRows
  BY <1>1, <1>4, <1>11, RowsParts
<1>12. CASE ~Rotate /\ UNCHANGED vars
  <2>1. OneFile /\ Parts /\ UNCHANGED <<files, lastReadPoint, lastReadFileIndex, totalSize, currentTable, pc, fileSize,
                                         measured, streams, delivered, grew, failed>>
    BY <1>4, <1>12 DEF vars, statics, locals
  <2> QED
    BY <2>1, ZenonT(80) DEF Parts, FileInv, OrderInv, TableInv, LossInv, Laid, Spaced, Mapped, End, At, Delivered
<1> QED
  BY <1>3, <1>5, <1>6, <1>7, <1>8, <1>9, <1>10, <1>11, <1>12 DEF Next, Database, Parser, Idle

(* The invariant and what follows from it.                                 *)
LEMMA Invariant == Spec => []IInv
<1>1. Init => IInv
  BY InvInit
<1>2. IInv /\ [Next]_vars => IInv'
  BY InvStep
<1> QED
  BY <1>1, <1>2, PTL DEF Spec

(* As long as the binlog has one file and no call has failed, the parser   *)
(* hands on each change at most once and in the order of the log, however  *)
(* the database appends to the file while it is read: the limit by bytes   *)
(* in Parser.parse lets no event through that the next call reads again.   *)
THEOREM InOrder == Spec => []OnceInOrder
<1>1. ASSUME IInv PROVE OnceInOrder
  <2>1. SUFFICES ASSUME OneFile, ~failed, NEW i \in DOMAIN delivered, NEW j \in DOMAIN delivered, i < j
                 PROVE  Before(delivered[i], delivered[j])
    BY DEF OnceInOrder
  <2>2. FileInv /\ OrderInv
    BY <1>1, <2>1 DEF IInv, Parts
  <2> QED
    BY <2>1, <2>2 DEF Before, FileInv, OrderInv
<1> QED
  BY <1>1, Invariant, PTL

(* As long as the binlog has one file that does not grow during a call,    *)
(* every change is delivered as one of its own table, although the table   *)
(* is kept from one call to the next, failed ones included.                *)
THEOREM OwnTable == Spec => []RightTable
<1>1. ASSUME IInv PROVE RightTable
  <2>1. SUFFICES ASSUME OneFile, ~grew, NEW i \in DOMAIN delivered
                 PROVE  files[delivered[i].file][delivered[i].pos].table = delivered[i].as
    BY DEF RightTable
  <2>2. FileInv /\ TableInv
    BY <1>1, <2>1 DEF IInv, Parts
  <2> QED
    BY <2>1, <2>2 DEF FileInv, TableInv
<1> QED
  BY <1>1, Invariant, PTL

(* If moreover no call has failed, nothing up to the read point is lost,   *)
(* apart from all but the last row of an event of several rows.            *)
THEOREM Complete == Spec => []NothingLost
<1>1. ASSUME IInv PROVE NothingLost
  <2>1. SUFFICES ASSUME OneFile, ~grew, ~failed, pc = "idle",
                        NEW p \in 1 .. lastReadPoint, files[1][p].kind = "rows"
                 PROVE  Delivered(1, p, files[1][p].rows)
    BY DEF NothingLost
  <2>2. LossInv /\ At = lastReadPoint
    BY <1>1, <2>1 DEF IInv, Parts, At
  <2> QED
    BY <2>1, <2>2 DEF LossInv
<1> QED
  BY <1>1, Invariant, PTL
=============================================================================
