----------------------------- MODULE LogParser -----------------------------
(***************************************************************************)
(* The log parser: what every pump of the delta cache reads of the         *)
(* database's binlog.  The database appends events and starts new files    *)
(* while the parser reads; the parser keeps, between two calls, how far it *)
(* has read (lastReadPoint, lastReadFileIndex), how many bytes of events   *)
(* it has seen (totalSize) and the table of the last TABLE_MAP event.      *)
(*                                                                         *)
(* A position in a file is the number of events before it: the database    *)
(* appends whole events.  A change is one row of a write, update or delete *)
(* event; it is known by its file, its event and its number in the event.  *)
(***************************************************************************)
EXTENDS Integers, Sequences

CONSTANTS
    Table,        \* the tables the parser has a schema of
    OtherTable,   \* the other tables of the database
    NoTable,      \* currentTable before the first TABLE_MAP event
    Size,         \* Size[k]: the bytes of an event of kind k
    Magic,        \* the bytes of MAGIC_HEADER, at the start of a file
    MaxRows,      \* bound on the rows of an event
    MaxEvents,    \* bound on the events of the first file; the nth has an nth of it
    MaxFiles,     \* bound on the files of the binlog
    MaxCalls      \* bound on the calls of the parser

Kind == {"format", "begin", "map", "rows", "xid", "rotate"}
AnyTable == Table \cup OtherTable

ASSUME LogAssumption ==
    /\ Size \in [Kind -> Nat] /\ Magic \in Nat
    /\ \A k \in Kind : Size[k] > Magic
    /\ Table \cap OtherTable = {} /\ NoTable \notin AnyTable
    /\ MaxRows \in Nat /\ MaxEvents \in Nat /\ MaxFiles \in Nat \ {0} /\ MaxCalls \in Nat

VARIABLES
    files,              \* the binlog's files, a sequence of events each
    lastReadPoint,      \* how much of the file was read
    lastReadFileIndex,  \* the file read last
    totalSize,          \* the bytes of all the events read
    currentTable,       \* the table of the last TABLE_MAP event
    firstCall,          \* no call has been made yet
    pc,                 \* "idle", "measured" or "reading"
    fileSize,           \* the bytes of the file when the call began
    measured,           \* the events of the file when the call began
    streams,            \* what the reader has left: files and positions
    delivered,          \* history: the changes handed to the delta cache
    calls,              \* the calls so far
    grew,               \* history: an event came while a call was reading
    failed              \* history: a call ended with an exception

statics == <<lastReadPoint, lastReadFileIndex, firstCall>>
locals == <<pc, fileSize, measured, streams>>
vars == <<files, statics, totalSize, currentTable, locals, delivered, calls, grew, failed>>

Event == [kind : Kind, table : AnyTable \cup {NoTable}, rows : 0 .. MaxRows, end : Nat]
Change == [file : Nat, pos : Nat, row : Nat, as : Table]

(* The one type invariant: the parser's statics and what is left of its    *)
(* streams point into the binlog.                                          *)
TypeOK ==
    /\ files \in Seq(Seq(Event)) /\ Len(files) \in 1 .. MaxFiles
    /\ lastReadFileIndex \in 1 .. Len(files)
    /\ lastReadPoint \in 0 .. Len(files[lastReadFileIndex])
    /\ totalSize \in Nat
    /\ currentTable \in AnyTable \cup {NoTable}
    /\ firstCall \in BOOLEAN /\ grew \in BOOLEAN /\ failed \in BOOLEAN
    /\ pc \in {"idle", "measured", "reading"}
    /\ fileSize \in Nat /\ measured \in Nat
    /\ streams \in Seq([file : DOMAIN files, pos : Nat])
    /\ \A i \in DOMAIN streams : streams[i].pos <= Len(files[streams[i].file])
    /\ delivered \in Seq(Change)
    /\ calls \in 0 .. MaxCalls

Bytes(file) == IF file = <<>> THEN Magic ELSE file[Len(file)].end

(* The file with one more event.                                           *)
With(file, kind, table, rows) ==
    Append(file, [kind |-> kind, table |-> table, rows |-> rows,
                  end |-> Bytes(file) + Size[kind]])

NewFile == With(<<>>, "format", NoTable, 0)

Init ==
    /\ files = <<NewFile>>
    /\ lastReadPoint = 0 /\ lastReadFileIndex = 1 /\ firstCall = TRUE
    /\ totalSize = 0 /\ currentTable = NoTable
    /\ pc = "idle" /\ fileSize = 0 /\ measured = 0 /\ streams = <<>>
    /\ delivered = <<>> /\ calls = 0 /\ grew = FALSE /\ failed = FALSE

-----------------------------------------------------------------------------
(* The database (external).  A transaction is a begin event, a TABLE_MAP   *)
(* event and a rows event for each of its statements, and an XID event; a  *)
(* file ends between two transactions.                                     *)

Last == files[Len(files)]
LastEvent == Last[Len(Last)]

Log(kind, table, rows) ==
    /\ Len(Last) < MaxEvents \div Len(files)
    /\ files' = [files EXCEPT ![Len(files)] = With(@, kind, table, rows)]
    /\ grew' = (grew \/ pc # "idle")
    /\ UNCHANGED <<statics, totalSize, currentTable, locals, delivered, calls, failed>>

LogBegin == LastEvent.kind \in {"format", "xid"} /\ Log("begin", NoTable, 0)
LogMap == LastEvent.kind \in {"begin", "rows"} /\ \E t \in AnyTable : Log("map", t, 0)
LogRows == LastEvent.kind = "map" /\ \E n \in 1 .. MaxRows : Log("rows", LastEvent.table, n)
LogXid == LastEvent.kind = "rows" /\ Log("xid", NoTable, 0)

Rotate ==
    /\ LastEvent.kind \in {"format", "xid"}
    /\ Len(files) < MaxFiles
    /\ files' = Append([files EXCEPT ![Len(files)] = With(@, "rotate", NoTable, 0)], NewFile)
    /\ grew' = (grew \/ pc # "idle")
    /\ UNCHANGED <<statics, totalSize, currentTable, locals, delivered, calls, failed>>

-----------------------------------------------------------------------------
(* The parser.  LogParserServerHandler serves one call at a time.          *)

(* The call begins: the length of the file is taken.                       *)
Measure ==
    /\ pc = "idle" /\ calls < MaxCalls
    /\ pc' = "measured"
    /\ calls' = calls + 1
    /\ fileSize' = Bytes(files[lastReadFileIndex])
    /\ measured' = Len(files[lastReadFileIndex])
    /\ UNCHANGED <<files, statics, totalSize, currentTable, streams, delivered, grew, failed>>

Rest == [file |-> lastReadFileIndex, pos |-> lastReadPoint]

(* Mutant: with the next file the length of the old one is kept.           *)
OpenOldLength ==
    /\ pc = "measured"
    /\ pc' = "reading"
    /\ firstCall' = FALSE
    /\ lastReadPoint' = measured
    /\ IF ~firstCall /\ lastReadFileIndex < Len(files)
       THEN /\ streams' = <<[file |-> lastReadFileIndex + 1, pos |-> 0], Rest>>
            /\ lastReadFileIndex' = lastReadFileIndex + 1
       ELSE /\ streams' = <<Rest>>
            /\ UNCHANGED lastReadFileIndex
    /\ UNCHANGED <<files, totalSize, currentTable, fileSize, measured, delivered, calls, grew, failed>>

(* The reader is made: on the rest of the file or, when there is a next    *)
(* file, on that file and then the rest of this one.  From here on the     *)
(* next call starts where the file ended when it was measured.             *)
Open ==
    /\ pc = "measured"
    /\ pc' = "reading"
    /\ firstCall' = FALSE
    /\ IF ~firstCall /\ lastReadFileIndex < Len(files)
       THEN /\ streams' = <<[file |-> lastReadFileIndex + 1, pos |-> 0], Rest>>
            /\ lastReadPoint' = Len(files[lastReadFileIndex + 1])
            /\ lastReadFileIndex' = lastReadFileIndex + 1
       ELSE /\ streams' = <<Rest>>
            /\ lastReadPoint' = measured
            /\ UNCHANGED lastReadFileIndex
    /\ UNCHANGED <<files, totalSize, currentTable, fileSize, measured, delivered, calls, grew, failed>>

AtEnd(s) == s.pos = Len(files[s.file])

(* A SequenceInputStream leaves a stream once it is at its end.            *)
NextStream ==
    /\ pc = "reading"
    /\ Len(streams) > 1 /\ AtEnd(Head(streams))
    /\ streams' = Tail(streams)
    /\ UNCHANGED <<files, statics, totalSize, currentTable, pc, fileSize, measured, delivered, calls, grew, failed>>

Cursor == Head(streams)
Current == files[Cursor.file][Cursor.pos + 1]

(* readEvent has an event; its bytes count before anything else is done    *)
(* with it.                                                                *)
ReadEvent ==
    /\ pc = "reading" /\ ~AtEnd(Cursor)
    /\ totalSize' = totalSize + Size[Current.kind]
    /\ UNCHANGED <<files, statics, fileSize, measured, calls, grew>>

(* Mutant: no limit on what is read.                                       *)
NoLimit == FALSE

(* Mutant: the last event of the file is left out.                         *)
LimitTooLow == totalSize' + Magic >= fileSize

(* The event is beyond the length of the file that was measured.           *)
BeyondLimit == totalSize' > fileSize

Continue ==
    /\ streams' = [streams EXCEPT ![1].pos = @ + 1]
    /\ UNCHANGED pc

(* The loop ends, by a break or an exception; what was written is handed   *)
(* on all the same.                                                        *)
Leave ==
    /\ pc' = "idle"
    /\ streams' = <<>>

Break ==
    /\ ReadEvent /\ BeyondLimit /\ Leave
    /\ UNCHANGED <<currentTable, delivered, failed>>

(* Mutant: the first table stays.                                          *)
ReadFirstMap ==
    /\ ReadEvent /\ ~BeyondLimit /\ Continue
    /\ Current.kind = "map"
    /\ currentTable' = IF currentTable = NoTable THEN Current.table ELSE currentTable
    /\ UNCHANGED <<delivered, failed>>

ReadMap ==
    /\ ReadEvent /\ ~BeyondLimit /\ Continue
    /\ Current.kind = "map"
    /\ currentTable' = Current.table
    /\ UNCHANGED <<delivered, failed>>

(* An event of no interest, or before the first TABLE_MAP event.           *)
Skip ==
    /\ ReadEvent /\ ~BeyondLimit /\ Continue
    /\ Current.kind # "map"
    /\ \/ currentTable = NoTable
       \/ currentTable \in Table /\ Current.kind # "rows"
    /\ UNCHANGED <<currentTable, delivered, failed>>

(* The record is filled with the values of each row in turn and written    *)
(* once: it holds the last row.                                            *)
ReadRows ==
    /\ ReadEvent /\ ~BeyondLimit /\ Continue
    /\ Current.kind = "rows" /\ currentTable \in Table
    /\ delivered' = Append(delivered, [file |-> Cursor.file, pos |-> Cursor.pos + 1,
                                       row |-> Current.rows, as |-> currentTable])
    /\ UNCHANGED <<currentTable, failed>>

(* An exception: no schema for the table, or the columns of the row are    *)
(* not those of the table it is taken for.                                 *)
Fail ==
    /\ ReadEvent /\ ~BeyondLimit /\ Leave
    /\ Current.kind # "map"
    /\ \/ currentTable \in OtherTable
       \/ Current.kind = "rows" /\ currentTable \in Table /\ Current.table # currentTable
    /\ failed' = TRUE
    /\ UNCHANGED <<currentTable, delivered>>

(* readEvent returns null at the end of the last stream.                   *)
EndOfLog ==
    /\ pc = "reading" /\ Len(streams) = 1 /\ AtEnd(Cursor)
    /\ Leave
    /\ UNCHANGED <<files, statics, totalSize, currentTable, fileSize, measured, delivered, calls, grew, failed>>

(* No call to serve, and nothing the database has to log.                  *)
Idle == pc = "idle" /\ UNCHANGED vars

Database == LogBegin \/ LogMap \/ LogRows \/ LogXid \/ Rotate
Parser == \/ Measure \/ Open \/ NextStream \/ EndOfLog
          \/ Break \/ ReadMap \/ Skip \/ ReadRows \/ Fail

Next == Database \/ Parser \/ Idle

Spec == Init /\ [][Next]_vars

-----------------------------------------------------------------------------
(* What the delta cache relies on.                                         *)

Before(c, d) == c.file < d.file \/ (c.file = d.file /\ c.pos < d.pos)

OneFile == Len(files) = 1

(* As long as the binlog has one file and no call has failed, the changes  *)
(* of all the calls come in the order of their commits and none comes      *)
(* twice, however the file grows while it is read.                         *)
OnceInOrder ==
    OneFile /\ ~failed =>
        \A i, j \in DOMAIN delivered : i < j => Before(delivered[i], delivered[j])

(* The changes of a file that does not grow while it is read go to their   *)
(* own tables, wherever calls and failures cut their transactions.         *)
RightTable ==
    OneFile /\ ~grew =>
        \A i \in DOMAIN delivered :
            files[delivered[i].file][delivered[i].pos].table = delivered[i].as

Delivered(f, p, r) ==
    \E i \in DOMAIN delivered : /\ delivered[i].file = f /\ delivered[i].pos = p
                               /\ delivered[i].row = r

(* If moreover no call has failed, the calls together deliver the last row *)
(* of every event up to the read point.                                    *)
NothingLost ==
    OneFile /\ ~grew /\ ~failed /\ pc = "idle" =>
        \A p \in 1 .. lastReadPoint :
            files[1][p].kind = "rows" => Delivered(1, p, files[1][p].rows)

(* The parser's own promise: all the changes up to the read point have     *)
(* been written out.                                                       *)
AllEventInfo ==
    pc = "idle" =>
        \A f \in 1 .. lastReadFileIndex : \A p \in DOMAIN files[f] :
            f < lastReadFileIndex \/ p <= lastReadPoint =>
                \A r \in 1 .. files[f][p].rows : Delivered(f, p, r)
=============================================================================
