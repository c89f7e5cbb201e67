------------------------------ MODULE TailReader ------------------------------
(***************************************************************************)
(* TailReader (tail_reader.cpp): following one log file by its path while  *)
(* the engine appends to it, rotates it, removes it or truncates it.  Each *)
(* access of the reader to the file system is a step, because the engine   *)
(* acts between any two of them.                                           *)
(*                                                                         *)
(* A line reaches the file in two pieces, <<n, 1>> and <<n, 2>>; the       *)
(* second ends with the newline.  The size of a file is its number of      *)
(* pieces.  A file has an inode that no other file gets: the reader keeps  *)
(* its file open, so the number is not free for another one.               *)
(***************************************************************************)
EXTENDS Integers, Sequences

CONSTANTS
  MaxFiles,        \* bound: files that ever have the path
  MaxLines,        \* bound: lines the engine writes
  MaxRestarts      \* bound: restarts of the collector

ASSUME TailAssumption ==
  /\ MaxFiles \in Nat \ {0} /\ MaxLines \in Nat /\ MaxRestarts \in Nat

Inodes == 1 .. MaxFiles
Pieces == (1 .. MaxLines) \X {1, 2}

\* The k-th piece the engine writes.
Piece(k) == <<(k + 1) \div 2, IF k % 2 = 1 THEN 1 ELSE 2>>

VARIABLES
  from_beginning,   \* cfg.from_beginning
  path,       \* the inode the path leads to, 0 if there is no such file
  content,    \* the content of every file
  born,       \* how many files were created so far
  written,    \* pieces written so far
  fd,         \* the file the stream has open, 0 if none
  offset,     \* the stream's position
  carry,      \* carry_
  inode, last_size,   \* inode_ and last_size_
  pc,         \* where the reader is
  seek,       \* argument of the open_stream in progress
  cur_id,     \* local of detect_rotation
  restarts,   \* bound: restarts so far
  skipped,    \* history: where the stream started in its file
  cut,        \* history: the lines in whose middle a stream started
  delivered,  \* history: the lines handed to the callback, as their pieces
  truncated   \* history: the engine truncated a log in place

fileVars   == <<path, content, born, written>>
streamVars == <<fd, offset, carry, inode, last_size>>
startVars  == <<from_beginning, restarts, skipped, cut>>
vars == <<fileVars, streamVars, pc, seek, cur_id, startVars, delivered, truncated>>

\* The constructor opens the file; a poll may open it, detects a rotation,
\* which may open it again, and reads.  The labels after "open" say who called.
Pc == {"new_open", "new_id", "new_size", "idle",
       "poll_open", "poll_id", "poll_size", "exists", "get_id", "get_size",
       "rot_open", "rot_id", "rot_size", "read"}

TypeOK ==
  /\ path \in 0 .. MaxFiles
  /\ content \in [Inodes -> Seq(Pieces)]
  /\ born \in 0 .. MaxFiles
  /\ written \in 0 .. 2 * MaxLines
  /\ fd \in 0 .. MaxFiles
  /\ offset \in 0 .. 2 * MaxLines
  /\ carry \in Seq(Pieces)
  /\ inode \in 0 .. MaxFiles
  /\ last_size \in 0 .. 2 * MaxLines
  /\ pc \in Pc
  /\ seek \in BOOLEAN
  /\ cur_id \in 0 .. MaxFiles
  /\ from_beginning \in BOOLEAN /\ restarts \in 0 .. MaxRestarts
  /\ skipped \in 0 .. 2 * MaxLines /\ cut \subseteq 1 .. MaxLines
  /\ delivered \in Seq(Seq(Pieces))
  /\ truncated \in BOOLEAN

\* The collector starts at any time: the file exists or not, with what the
\* engine has written so far.
Init ==
  /\ written \in 0 .. 2 * MaxLines
  /\ \/ path = 1 /\ born = 1
     \/ path = 0 /\ born = 0 /\ written = 0
  /\ content = [i \in Inodes |->
       IF i = path THEN [k \in 1 .. written |-> Piece(k)] ELSE << >>]
  /\ fd = 0 /\ offset = 0 /\ carry = << >>
  /\ inode = 0 /\ last_size = 0
  /\ pc = "new_open"
  /\ from_beginning \in BOOLEAN
  /\ seek = ~from_beginning
  /\ restarts = 0 /\ skipped = 0 /\ cut = {}
  /\ cur_id = 0
  /\ delivered = << >>
  /\ truncated = FALSE

-----------------------------------------------------------------------------
(* The engine.  It rotates, removes and truncates between lines only. *)

EngineActs == UNCHANGED <<streamVars, pc, seek, cur_id, startVars, delivered>>
BetweenLines == written % 2 = 0

AppendPiece ==
  /\ path # 0
  /\ written < 2 * MaxLines
  /\ written' = written + 1
  /\ content' = [content EXCEPT ![path] =
       Append(@, Piece(written + 1))]
  /\ EngineActs /\ UNCHANGED <<path, born, truncated>>

\* A new file takes the path: at rotation, or after the old one was removed.
Create ==
  /\ BetweenLines
  /\ born < MaxFiles
  /\ born' = born + 1
  /\ path' = born'
  /\ EngineActs /\ UNCHANGED <<content, written, truncated>>

\* The file is removed or renamed, and the path is free for a while.
Remove ==
  /\ BetweenLines
  /\ path # 0
  /\ path' = 0
  /\ EngineActs /\ UNCHANGED <<content, born, written, truncated>>

Truncate ==
  /\ BetweenLines
  /\ path # 0
  /\ content' = [content EXCEPT ![path] = << >>]
  /\ truncated' = TRUE
  /\ EngineActs /\ UNCHANGED <<path, born, written>>

EngineStep == AppendPiece \/ Create \/ Remove \/ Truncate

-----------------------------------------------------------------------------
(* The reader. *)

SizeOf(i) == IF i = 0 THEN 0 ELSE Len(content[i])

\* Where open_stream returns to, when it opened the file and when it did not.
AfterOpen(label) == CASE label = "new_size"  -> "idle"
                      [] label = "poll_size" -> "exists"
                      [] label = "rot_size"  -> "read"
AfterNoOpen(label) == IF label = "rot_open" THEN "read" ELSE "idle"

\* open_stream: close the stream and open the path.
OpenStream ==
  /\ pc \in {"new_open", "poll_open", "rot_open"}
  /\ fd' = path
  /\ IF path = 0
     THEN pc' = AfterNoOpen(pc) /\ UNCHANGED offset
     ELSE /\ pc' = CASE pc = "new_open" -> "new_id"
                     [] pc = "poll_open" -> "poll_id"
                     [] pc = "rot_open" -> "rot_id"
          /\ offset' = 0
  /\ UNCHANGED <<fileVars, carry, inode, last_size, seek, cur_id, delivered, startVars, truncated>>

\* file_id(path) - of the path, not of the stream - and the seek.
OpenId ==
  /\ pc \in {"new_id", "poll_id", "rot_id"}
  /\ inode' = path
  /\ offset' = IF seek THEN Len(content[fd]) ELSE offset
  /\ skipped' = offset'
  /\ cut' = IF seek /\ offset' % 2 = 1 THEN cut \cup {content[fd][offset'][1]} ELSE cut
  /\ pc' = CASE pc = "new_id" -> "new_size"
             [] pc = "poll_id" -> "poll_size"
             [] pc = "rot_id" -> "rot_size"
  /\ UNCHANGED <<fileVars, fd, carry, last_size, seek, cur_id, delivered, from_beginning, restarts, truncated>>

\* Mutant of OpenSize: the rest of the old file stays in carry_.
OpenSize_KeepsCarry ==
  /\ pc \in {"new_size", "poll_size", "rot_size"}
  /\ last_size' = SizeOf(path)
  /\ pc' = AfterOpen(pc)
  /\ UNCHANGED <<fileVars, fd, offset, carry, inode, seek, cur_id, delivered, startVars, truncated>>

OpenSize ==
  /\ pc \in {"new_size", "poll_size", "rot_size"}
  /\ last_size' = SizeOf(path)
  /\ carry' = << >>
  /\ pc' = AfterOpen(pc)
  /\ UNCHANGED <<fileVars, fd, offset, inode, seek, cur_id, delivered, startVars, truncated>>

PollBegin ==
  /\ pc = "idle"
  /\ IF fd = 0
     THEN pc' = "poll_open" /\ seek' = ~from_beginning
     ELSE pc' = "exists" /\ UNCHANGED seek
  /\ UNCHANGED <<fileVars, streamVars, cur_id, delivered, startVars, truncated>>

\* detect_rotation: no file, no rotation; the open stream is still read.
Exists ==
  /\ pc = "exists"
  /\ pc' = IF path = 0 THEN "read" ELSE "get_id"
  /\ UNCHANGED <<fileVars, streamVars, seek, cur_id, delivered, startVars, truncated>>

GetId ==
  /\ pc = "get_id"
  /\ cur_id' = path
  /\ pc' = "get_size"
  /\ UNCHANGED <<fileVars, streamVars, seek, delivered, startVars, truncated>>

\* The other file or the smaller size means rotated or truncated: start over.
GetSize ==
  /\ pc = "get_size"
  /\ IF (inode # 0 /\ cur_id # 0 /\ cur_id # inode) \/ SizeOf(path) < last_size
     THEN pc' = "rot_open" /\ seek' = FALSE /\ UNCHANGED last_size
     ELSE pc' = "read" /\ last_size' = SizeOf(path) /\ UNCHANGED seek
  /\ UNCHANGED <<fileVars, fd, offset, carry, inode, cur_id, delivered, startVars, truncated>>

\* What the stream has beyond its position.
Unread == IF fd = 0 THEN << >> ELSE SubSeq(content[fd], offset + 1, Len(content[fd]))

\* The positions of the newlines in s, in order, after a 0.
Ends(s) ==
  LET upto[k \in 0 .. Len(s)] ==
        IF k = 0 THEN <<0>>
        ELSE IF s[k][2] = 2 THEN Append(upto[k - 1], k) ELSE upto[k - 1]
  IN  upto[Len(s)]

\* Mutant of Read: the end-of-file state of the stream is not cleared.
Read_EofSticks ==
  /\ pc = "read"
  /\ LET got  == IF offset = 0 THEN carry \o Unread ELSE carry
         ends == Ends(got) IN
     /\ offset' = IF offset = 0 THEN Len(Unread) ELSE offset
     /\ delivered' = delivered
          \o [k \in 1 .. Len(ends) - 1 |-> SubSeq(got, ends[k] + 1, ends[k + 1])]
     /\ carry' = SubSeq(got, ends[Len(ends)] + 1, Len(got))
  /\ pc' = "idle"
  /\ UNCHANGED <<fileVars, fd, inode, last_size, seek, cur_id, startVars, truncated>>

\* Read to the end of the file, hand out the lines, keep the rest.
Read ==
  /\ pc = "read"
  /\ LET got  == carry \o Unread
         ends == Ends(got) IN
     /\ offset' = offset + Len(Unread)
     /\ delivered' = delivered
          \o [k \in 1 .. Len(ends) - 1 |-> SubSeq(got, ends[k] + 1, ends[k + 1])]
     /\ carry' = SubSeq(got, ends[Len(ends)] + 1, Len(got))
  /\ pc' = "idle"
  /\ UNCHANGED <<fileVars, fd, inode, last_size, seek, cur_id, startVars, truncated>>

\* The collector ends and starts again.  No position outlives it; a reader that
\* starts over from the beginning delivers all again, which is no news here.
Restart ==
  /\ restarts < MaxRestarts
  /\ restarts' = restarts + 1
  /\ fd' = 0 /\ offset' = 0 /\ carry' = << >> /\ inode' = 0 /\ last_size' = 0
  /\ pc' = "new_open" /\ seek' = ~from_beginning
  /\ cur_id' = 0 /\ skipped' = 0
  /\ delivered' = IF from_beginning THEN << >> ELSE delivered
  /\ UNCHANGED <<fileVars, from_beginning, cut, truncated>>

ReaderStep ==
  \/ OpenStream \/ OpenId \/ OpenSize
  \/ PollBegin \/ Exists \/ GetId \/ GetSize \/ Read

Next == EngineStep \/ ReaderStep \/ Restart

Spec == Init /\ [][Next]_vars

\* The adapter polls again and again.
FairSpec == Spec /\ WF_vars(ReaderStep)

-----------------------------------------------------------------------------
(* Properties *)

\* The number of the line a delivered one ends with.
Number(l) == l[Len(l)][1]

\* A line handed downstream is one the engine wrote, from its first piece, or
\* the rest of one in whose middle the reader started at the end of a file.
Whole(l) == Len(l) = 2 /\ l[1][2] = 1 /\ l[2] = <<l[1][1], 2>>
Rest(l)  == Len(l) = 1 /\ l[1][2] = 2 /\ l[1][1] \in cut

(***************************************************************************)
(* No line is handed downstream in part ("a line that is still being       *)
(* written is never handed downstream half-parsed"), none twice and none   *)
(* out of order, whatever is appended, rotated or removed between two      *)
(* steps of a poll and although nothing is kept over a restart: the        *)
(* registry counts every delivered message.  Only the line in whose middle *)
(* a reader starts, which then starts at the end, arrives without its      *)
(* beginning.                                                              *)
(* A log truncated in place is left out: one that shrank and grew again    *)
(* between two polls is read on at the old position, and one that shrank   *)
(* while it was being opened is read and then read again from the start.   *)
(***************************************************************************)
LinesInOrder ==
  ~truncated =>
    /\ \A k \in 1 .. Len(delivered) : Whole(delivered[k]) \/ Rest(delivered[k])
    /\ \A j, k \in 1 .. Len(delivered) :
         j < k => Number(delivered[j]) < Number(delivered[k])

\* Line n is complete in the file the stream has open, beyond where it started.
HasLine(n) ==
  /\ fd # 0 /\ pc \notin {"new_id", "poll_id", "rot_id"}
  /\ \E k \in skipped + 1 .. Len(content[fd]) : content[fd][k] = <<n, 2>>
GotLine(n) == \E k \in 1 .. Len(delivered) : Number(delivered[k]) = n

(***************************************************************************)
(* A complete line of the file the reader has open, beyond where it        *)
(* started to read, is delivered in the end, unless it goes on to another  *)
(* file before or a log is truncated: partial lines are completed, also in *)
(* a file that is removed or rotated meanwhile, and reaching the end of    *)
(* the file does not end the reading.                                      *)
(***************************************************************************)
LinesArrive ==
  \A i \in Inodes, n \in 1 .. MaxLines :
    fd = i /\ HasLine(n) ~> GotLine(n) \/ fd # i \/ truncated

=============================================================================
