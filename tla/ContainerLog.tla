---------------------------- MODULE ContainerLog ----------------------------
(***************************************************************************)
(* The logger of a container (agents/logger.go): one goroutine per stream  *)
(* reads what the container writes and appends it, a record for each line, *)
(* to the log file the two share.                                          *)
(*                                                                         *)
(* A byte is a newline or it is not.  A record has the stream and the      *)
(* bytes; its time stamp is left out.  The pipe, the file and bufio.Reader *)
(* are external.  A bufio.Reader keeps the error of a read behind the      *)
(* bytes it has, and drops it when ReadLine returns those as a line: the   *)
(* loop then reads on.  Only an error with no bytes before it is returned. *)
(***************************************************************************)
EXTENDS Naturals, Sequences, FiniteSets, Functions

CONSTANTS
  Streams,      \* stdout and stderr
  BufSize,      \* size of the read buffer
  MaxBytes,     \* bound: the bytes the container writes
  MaxFaults     \* bound: the reads and writes that fail

ASSUME LogAssumption == BufSize \in Nat \ {0} /\ MaxBytes \in Nat /\ MaxFaults \in Nat

VARIABLES
  pipe,         \* bytes the container has written and the logger has not read
  hungup,       \* the streams the container has closed
  buf,          \* bytes in the buffer of the logger, and after them an error if a read failed
  ended,        \* the loggers that have returned
  log,          \* the records in the file
  input,        \* history: what the container has written, with the reads that failed
  gaps,         \* history: the streams with a record that could not be written
  faults        \* failures so far

logVars == <<pipe, hungup, buf, ended, log, input, gaps, faults>>

Bytes == {"x", "nl"}
Items == Bytes \cup {"err"}

(* A line ends at a newline, or at a read that failed. *)
Stops(item) == item \in {"nl", "err"}

LogInit ==
  /\ pipe = [s \in Streams |-> <<>>] /\ buf = [s \in Streams |-> <<>>]
  /\ input = [s \in Streams |-> <<>>]
  /\ hungup = {} /\ ended = {} /\ gaps = {}
  /\ log = <<>> /\ faults = 0

HasStop(items) == \E i \in 1 .. Len(items) : Stops(items[i])

Least(a, b) == IF a < b THEN a ELSE b

-----------------------------------------------------------------------------
(* The container.  The bound is on what it writes to all streams, with one    *)
(* byte more for each failure.                                                *)
WithinBound == FoldFunction(LAMBDA items, n : Len(items) + n, 0, input) < MaxBytes + faults

ContainerWrites(s) ==
  /\ s \notin hungup /\ WithinBound
  /\ \E b \in Bytes :
       /\ pipe' = [pipe EXCEPT ![s] = Append(@, b)]
       /\ input' = [input EXCEPT ![s] = Append(@, b)]
  /\ UNCHANGED <<hungup, buf, ended, log, gaps, faults>>

ContainerCloses(s) ==
  /\ s \notin hungup
  /\ hungup' = hungup \cup {s}
  /\ UNCHANGED <<pipe, buf, ended, log, input, gaps, faults>>

Failed(s) == buf[s] = <<"err">>

(* Mutant: io.EOF is not told from an empty line. *)
AtEndOnError(s) == Failed(s)

(* The reads are over for this stream: an error with nothing before it, or    *)
(* EOF, which every later read returns again.                                 *)
AtEnd(s) == Failed(s) \/ (s \in hungup /\ pipe[s] = <<>>)

(* Mutant: the end of the output is dropped if it has no newline. *)
LineReadyWhole(s) == ~Failed(s) /\ (HasStop(buf[s]) \/ Len(buf[s]) = BufSize)

(* ReadLine returns what is in the buffer up to a newline or an error; all of *)
(* it if the buffer is full, as isPrefix is not looked at, or at EOF.         *)
LineReady(s) ==
  ~Failed(s) /\ (HasStop(buf[s]) \/ Len(buf[s]) = BufSize \/ (buf[s] # <<>> /\ AtEnd(s)))

(* Otherwise it reads, as much as there is room for. *)
FillBuffer(s) ==
  /\ s \notin ended /\ ~LineReady(s) /\ ~Failed(s) /\ pipe[s] # <<>>
  /\ \/ LET n == Least(Len(pipe[s]), BufSize - Len(buf[s])) IN
        /\ buf' = [buf EXCEPT ![s] = @ \o SubSeq(pipe[s], 1, n)]
        /\ pipe' = [pipe EXCEPT ![s] = SubSeq(@, n + 1, Len(@))]
        /\ UNCHANGED <<input, faults>>
     \/ /\ faults < MaxFaults
        /\ faults' = faults + 1
        /\ buf' = [buf EXCEPT ![s] = Append(@, "err")]
        /\ input' = [input EXCEPT ![s] = Append(SubSeq(@, 1, Len(@) - Len(pipe[s])), "err") \o pipe[s]]
        /\ UNCHANGED pipe
  /\ UNCHANGED <<hungup, ended, log, gaps>>

(* How much of the buffer ReadLine takes, and the line without its end. *)
Taken(items) ==
  IF HasStop(items) THEN CHOOSE i \in 1 .. Len(items) : Stops(items[i]) /\ ~HasStop(SubSeq(items, 1, i - 1))
  ELSE Len(items)
Line(items) == SubSeq(items, 1, IF HasStop(items) THEN Taken(items) - 1 ELSE Taken(items))

(* One write of a whole record to a file opened with O_APPEND.  On an error   *)
(* the logger goes on, to drain the input.                                    *)
WriteRecord(s) ==
  /\ s \notin ended /\ LineReady(s)
  /\ buf' = [buf EXCEPT ![s] = SubSeq(@, Taken(@) + 1, Len(@))]
  /\ \/ /\ log' = Append(log, [stream |-> s, line |-> Line(buf[s])])
        /\ UNCHANGED <<gaps, faults>>
     \/ /\ faults < MaxFaults
        /\ faults' = faults + 1
        /\ gaps' = gaps \cup {s}
        /\ UNCHANGED log
  /\ UNCHANGED <<pipe, hungup, ended, input>>

(* Nothing is left, and the reads are over. *)
LoggerReturns(s) ==
  /\ s \notin ended /\ ~LineReady(s) /\ AtEnd(s)
  /\ ended' = ended \cup {s}
  /\ UNCHANGED <<pipe, hungup, buf, log, input, gaps, faults>>

LoggerStep(s) == FillBuffer(s) \/ WriteRecord(s) \/ LoggerReturns(s)

LogNext == \E s \in Streams : ContainerWrites(s) \/ ContainerCloses(s) \/ LoggerStep(s)

LogSpec == LogInit /\ [][LogNext]_logVars

(* The goroutine runs, and a read of bytes that are there returns. *)
LogFairness == \A s \in Streams : WF_logVars(LoggerStep(s))

-----------------------------------------------------------------------------
(* The records that an input makes: one ends at each newline, at a read that  *)
(* failed, and after BufSize bytes without either.                            *)
RecordEnds(items)  == {i \in 1 .. Len(items) : Stops(items[i]) \/ i = BufSize \/ i = Len(items)}
FirstEnd(items)    == CHOOSE i \in RecordEnds(items) : \A j \in RecordEnds(items) : i <= j
FirstRecord(items) == SubSeq(items, 1, IF Stops(items[FirstEnd(items)]) THEN FirstEnd(items) - 1 ELSE FirstEnd(items))
OtherItems(items)  == SubSeq(items, FirstEnd(items) + 1, Len(items))

RecordsOf[items \in Seq(Items)] ==
  IF items = <<>> THEN <<>> ELSE <<FirstRecord(items)>> \o RecordsOf[OtherItems(items)]

(* The records of a stream among the first n of a log, and the lines they are *)
(* if they are these ones in this order.                                      *)
Of(s, records, n)       == {i \in 1 .. n : records[i].stream = s}
Has(records, s, lines) ==
  /\ Len(lines) = Cardinality(Of(s, records, Len(records)))
  /\ \A i \in Of(s, records, Len(records)) : records[i].line = lines[Cardinality(Of(s, records, i))]

(* How much of the input of a stream is in records, and what. *)
Passed(s) == Len(input[s]) - Len(pipe[s]) - Len(buf[s])
Logged(s) == SubSeq(input[s], 1, Passed(s))

(* What the logger of a stream has taken from its buffer is in the log, in    *)
(* order and in records that depend on what was written and on where a read   *)
(* failed, but not on how the bytes came in, nor on the logger of the other   *)
(* stream; and a logger that has returned has left nothing behind, unless a   *)
(* read failed between two lines (redirectLogs, logger.go:97-115).            *)
LogComplete ==
  \A s \in Streams :
    /\ s \notin gaps => Has(log, s, RecordsOf[Logged(s)])
    /\ s \in ended => Logged(s) = input[s] \/ Failed(s)

(* Once the container is gone both loggers return, having drained their       *)
(* streams even if they cannot write to the log (logger.go:114).              *)
LogDrains == hungup = Streams ~> ended = Streams
=============================================================================
