-------------------------------- MODULE LogTail --------------------------------
(***************************************************************************)
(* FileSource: the agent reads a log another program writes and rotates.   *)
(*                                                                         *)
(* A line is written at once or in two writes; a file is a sequence of     *)
(* parts <<line, "head">>, <<line, "tail">>, the tail ends with the newline.*)
(* The reader keeps the file it opened and its position in it, nothing     *)
(* else, and nothing of it survives the process.                           *)
(***************************************************************************)
EXTENDS Naturals, Sequences

CONSTANTS
  MaxLines,     \* lines the logger writes (a bound)
  MaxRotations, \* rotations, of either kind (a bound)
  MaxRestarts   \* restarts of the agent (a bound)

ASSUME BoundsAssumption == {MaxLines, MaxRotations, MaxRestarts} \subseteq Nat

VARIABLES
  files,      \* contents of the files that have had the path, oldest first
  logger,     \* the file the logger has open, and the line it is writing
  written,    \* lines written so far
  rotations, restarts,
  once,       \* replay mode (--ssh-source-once)
  reader,     \* Run: where it is, its file, its position
  emitted,    \* lines sent to the channel by this run
  split,      \* history: lines written in two writes
  truncated   \* history: a file was truncated in place

tailVars == <<files, logger, written, rotations, restarts, once, reader, emitted,
          split, truncated>>
logSide == <<files, logger, written, rotations, split, truncated>>

Parts == (1..MaxLines) \X {"head", "tail"}

TailTypeOK ==
  /\ files \in Seq(Seq(Parts))
  /\ logger \in [file : Nat, line : 0..MaxLines]
  /\ written \in 0..MaxLines
  /\ rotations \in 0..MaxRotations
  /\ restarts \in 0..MaxRestarts
  /\ once \in BOOLEAN
  /\ reader \in [pc : {"closed", "reading", "polling", "ended"},
                 file : Nat, at : Nat]
  /\ emitted \in Seq([line : 1..MaxLines, whole : BOOLEAN])
  /\ split \in SUBSET (1..MaxLines)
  /\ truncated \in BOOLEAN

TailInit ==
  /\ files = << <<>> >>
  /\ logger = [file |-> 1, line |-> 0]
  /\ written = 0
  /\ rotations = 0
  /\ restarts = 0
  /\ once \in BOOLEAN
  /\ reader = [pc |-> "closed", file |-> 0, at |-> 0]
  /\ emitted = <<>>
  /\ split = {}
  /\ truncated = FALSE

-----------------------------------------------------------------------------
(* The logger (rsyslog, auditd) and logrotate.                             *)

Path == Len(files)

Write(parts) ==
  files' = [files EXCEPT ![logger.file] = @ \o parts]

WriteLine ==
  /\ logger.line = 0
  /\ written < MaxLines
  /\ written' = written + 1
  /\ Write(<< <<written + 1, "head">>, <<written + 1, "tail">> >>)
  /\ UNCHANGED <<logger, rotations, restarts, once, reader, emitted, split, truncated>>

WriteHead ==
  /\ logger.line = 0
  /\ written < MaxLines
  /\ written' = written + 1
  /\ logger' = [logger EXCEPT !.line = written + 1]
  /\ split' = split \cup {written + 1}
  /\ Write(<< <<written + 1, "head">> >>)
  /\ UNCHANGED <<rotations, restarts, once, reader, emitted, truncated>>

WriteTail ==
  /\ logger.line # 0
  /\ logger' = [logger EXCEPT !.line = 0]
  /\ Write(<< <<logger.line, "tail">> >>)
  /\ UNCHANGED <<written, rotations, restarts, once, reader, emitted, split, truncated>>

(* logrotate renames the file and creates a new one; ...                   *)
Rename ==
  /\ rotations < MaxRotations
  /\ rotations' = rotations + 1
  /\ files' = Append(files, <<>>)
  /\ UNCHANGED <<logger, written, restarts, once, reader, emitted, split, truncated>>

(* ... told so, the logger goes over to it.                                *)
LoggerReopens ==
  /\ logger.line = 0
  /\ logger.file # Path
  /\ logger' = [logger EXCEPT !.file = Path]
  /\ UNCHANGED <<files, written, rotations, restarts, once, reader, emitted, split, truncated>>

(* copytruncate: the file is emptied in place.                             *)
Truncate ==
  /\ rotations < MaxRotations
  /\ rotations' = rotations + 1
  /\ files' = [files EXCEPT ![Path] = <<>>]
  /\ truncated' = TRUE
  /\ UNCHANGED <<logger, written, restarts, once, reader, emitted, split>>

-----------------------------------------------------------------------------
(* FileSource.Run.                                                         *)
Open ==
  /\ reader.pc = "closed"
  /\ reader' = [pc |-> "reading", file |-> Path, at |-> 0]
  /\ UNCHANGED <<logSide, restarts, once, emitted>>

Content == files[reader.file]
Ends == {i \in DOMAIN Content : i > reader.at /\ Content[i][2] = "tail"}
LineComplete == Ends # {}
NextEnd == CHOOSE i \in Ends : \A j \in Ends : i <= j

(* What ReadString returns up to position i: the line it belongs to, and   *)
(* whether its beginning is there.                                         *)
LineTo(i) == [line |-> Content[i][1],
              whole |-> i > reader.at + 1]

(* Mutation: a line is read in pieces, each taken for a line.              *)
ReadPiece ==
  /\ reader.pc = "reading"
  /\ LineComplete
  /\ emitted' = Append(emitted, [line |-> Content[reader.at + 1][1],
                                 whole |-> FALSE])
  /\ reader' = [reader EXCEPT !.at = reader.at + 1]
  /\ UNCHANGED <<logSide, restarts, once>>

(* Up to a newline there is a line: it is sent to the channel.             *)
ReadLine ==
  /\ reader.pc = "reading"
  /\ LineComplete
  /\ emitted' = Append(emitted, LineTo(NextEnd))
  /\ reader' = [reader EXCEPT !.at = NextEnd]
  /\ UNCHANGED <<logSide, restarts, once>>

(* Position after what is there up to the end of the file has been read.   *)
AtEnd == IF reader.at < Len(Content) THEN Len(Content) ELSE reader.at

(* End of file in replay mode: what is left is a line too.                 *)
ReadLast ==
  /\ reader.pc = "reading"
  /\ ~LineComplete
  /\ once
  /\ emitted' = IF reader.at < Len(Content)
                THEN Append(emitted, [line |-> Content[Len(Content)][1], whole |-> FALSE])
                ELSE emitted
  /\ reader' = [reader EXCEPT !.pc = "ended", !.at = AtEnd]
  /\ UNCHANGED <<logSide, restarts, once>>

(* End of file in follow mode: what was read without newline is dropped.   *)
ReadEnd ==
  /\ reader.pc = "reading"
  /\ ~LineComplete
  /\ ~once
  /\ reader' = [reader EXCEPT !.pc = "polling", !.at = AtEnd]
  /\ UNCHANGED <<logSide, restarts, once, emitted>>

(* Mutations: polling begins at the end of the file, or at its beginning.  *)
PolledFromEnd == AtEnd
PolledFromStart == 0

PolledFrom == reader.at

(* PollInterval later: the same file, from the same position.              *)
Poll ==
  /\ reader.pc = "polling"
  /\ reader' = [reader EXCEPT !.pc = "reading", !.at = PolledFrom]
  /\ UNCHANGED <<logSide, restarts, once, emitted>>

(* The agent stops, and starts anew.                                       *)
AgentRestarts ==
  /\ restarts < MaxRestarts
  /\ restarts' = restarts + 1
  /\ reader' = [pc |-> "closed", file |-> 0, at |-> 0]
  /\ emitted' = <<>>
  /\ UNCHANGED <<logSide, once>>

Reader == Open \/ ReadLine \/ ReadLast \/ ReadEnd \/ Poll

Log == WriteLine \/ WriteHead \/ WriteTail \/ LoggerReopens

TailNext == Log \/ Rename \/ Truncate \/ Reader \/ AgentRestarts

(* The reader goes on, polling; the logger finishes the line it began.     *)
TailSpec == TailInit /\ [][TailNext]_tailVars
FairTail == TailSpec /\ WF_tailVars(Reader) /\ WF_tailVars(WriteTail) /\ WF_tailVars(LoggerReopens)

-----------------------------------------------------------------------------
(* One run emits the lines in the order they were written, none twice,     *)
(* whatever is rotated under it.                                           *)
InOrderOnce ==
  \A i, j \in DOMAIN emitted : i < j => emitted[i].line < emitted[j].line

(* A line comes out torn only when the reader met it half written, or when *)
(* its file was truncated in place.                                        *)
TornOnlyIfSplit ==
  \A i \in DOMAIN emitted :
    emitted[i].whole \/ emitted[i].line \in split \/ truncated

(* A line written at once to the file the reader follows comes out, unless *)
(* the file is truncated or the agent restarted meanwhile.                 *)
Emitted(n) == \E i \in DOMAIN emitted : emitted[i].line = n
Followed == reader.pc \in {"reading", "polling"} /\ ~once
Arrives(n) ==
  Followed /\ logger.file = reader.file /\ written >= n /\ n \notin split
    /\ <<n, "tail">> \in {files[reader.file][i] : i \in DOMAIN files[reader.file]}
  ~> Emitted(n) \/ truncated \/ reader.pc = "closed"
WholeLinesArrive == \A n \in 1..MaxLines : Arrives(n)

-----------------------------------------------------------------------------
(* Why the first two hold.  In a file lines go up, a tail ends its line,   *)
(* the line that is being written has none, and lines written at once have *)
(* head and tail side by side.                                             *)
FileOK(c, last, writing, torn) ==
  \A i \in 1 .. Len(c) :
    /\ c[i][1] <= last
    /\ writing /\ c[i][1] = last => c[i][2] = "head"
    /\ c[i][1] \notin torn =>
         /\ c[i][2] = "head" => i < Len(c) /\ c[i + 1] = <<c[i][1], "tail">>
         /\ c[i][2] = "tail" => i > 1 /\ c[i - 1] = <<c[i][1], "head">>
    /\ \A j \in 1 .. Len(c) :
         i < j => c[i][1] <= c[j][1] /\ (c[i][2] = "tail" => c[i][1] < c[j][1])

FileInv(f) == FileOK(files[f], written, logger.line # 0, split)

LoggerInv ==
  /\ logger.file \in DOMAIN files
  /\ logger.line # 0 => logger.line = written /\ written \in split

Opened == reader.pc \in {"reading", "polling"}

(* The reader stands after a line, or after the head of a split one.       *)
ReaderInv ==
  /\ Opened => reader.file \in DOMAIN files
  /\ Opened /\ ~truncated /\ reader.at # 0 =>
       /\ reader.at <= Len(Content)
       /\ Content[reader.at][2] = "tail" \/ Content[reader.at][1] \in split
  /\ reader.pc = "closed" => emitted = <<>>

(* What is still to be read is of later lines than what was emitted.       *)
AheadInv(k) ==
  /\ emitted[k].line <= written
  /\ Opened => /\ logger.line # 0 => emitted[k].line < written
               /\ \A i \in 1 .. Len(Content) : i > reader.at => emitted[k].line < Content[i][1]

TailInv ==
  /\ TailTypeOK /\ LoggerInv /\ ReaderInv
  /\ \A f \in DOMAIN files : FileInv(f)
  /\ \A k \in 1 .. Len(emitted) : AheadInv(k)
  /\ InOrderOnce /\ TornOnlyIfSplit

=============================================================================
