----------------------------- MODULE TailReaderInv -----------------------------
(***************************************************************************)
(* The inductive invariant of TailReader: what is in the files, what the   *)
(* reader knows of the one it has open, and that what it has delivered is  *)
(* behind what it will read.  TailReaderProofs proves it for any bounds.   *)
(***************************************************************************)
EXTENDS TailReader

\* The stream has been opened, and open_stream is not done yet.
IdPc   == {"new_id", "poll_id", "rot_id"}
SizePc == {"new_size", "poll_size", "rot_size"}

\* The path leads to the newest file or to none, and sizes are of what was written.
PathInv ==
  /\ path \in {0, born} /\ fd <= born
  /\ \A i \in Inodes : Len(content[i]) <= written /\ (i > born => content[i] = << >>)
  /\ offset <= written /\ last_size <= written
  /\ pc \in IdPc \cup SizePc \cup {"exists", "get_id", "get_size", "rot_open"} => fd # 0
  /\ pc \in {"new_open", "poll_open"} => fd = 0 /\ seek = ~from_beginning
  /\ pc = "rot_open" => ~seek
  /\ pc \in IdPc => offset = 0

-----------------------------------------------------------------------------
(* As long as no log was truncated. *)

\* The number of a piece among all pieces.
Pos(p) == 2 * p[1] + p[2] - 2

\* A file has whole lines from its first piece on, in the order they were written.
Clean(f) ==
  \A k \in 1 .. Len(f) :
    /\ f[k][2] = 1 <=> k % 2 = 1
    /\ k % 2 = 0 => f[k][1] = f[k - 1][1]
    /\ \A j \in 1 .. k - 1 : Pos(f[j]) < Pos(f[k])

\* All files together have them in that order, too.
FilesInv ==
  /\ \A i \in Inodes : Clean(content[i])
  /\ \A i, j \in Inodes : i < j =>
       \A k \in 1 .. Len(content[i]), l \in 1 .. Len(content[j]) :
         Pos(content[i][k]) < Pos(content[j][l])
  /\ \A i \in Inodes : \A k \in 1 .. Len(content[i]) : Pos(content[i][k]) <= written
  /\ path = 0 => written % 2 = 0
  /\ path # 0 =>
       /\ Len(content[path]) % 2 = written % 2
       /\ written % 2 = 1 => Pos(content[path][Len(content[path])]) = written

\* While the path leads to the file that is open, the reader knows it by its
\* inode and has never seen it larger, so that it does not open it again.
RotationInv ==
  fd # 0 /\ path = fd =>
    /\ pc \notin IdPc => inode = fd
    /\ pc = "get_size" => cur_id = fd
    /\ pc \notin IdPc \cup SizePc => last_size <= Len(content[fd])
    /\ pc # "rot_open"

\* At most the first piece of a line is kept.  What is read next belongs to it, or
\* is the rest of a line in whose middle the stream started.
CarryInv ==
  /\ Len(carry) <= 1 /\ \A k \in 1 .. Len(carry) : carry[k][2] = 1
  /\ fd # 0 =>
       /\ offset <= Len(content[fd])
       /\ pc \in SizePc /\ offset % 2 = 1 => content[fd][offset][1] \in cut
       /\ pc \notin IdPc \cup SizePc =>
            \/ carry = << >> /\ (offset % 2 = 1 => content[fd][offset][1] \in cut)
            \/ offset % 2 = 1 /\ carry = <<content[fd][offset]>>

\* Where the stream will read next.
NextOffset ==
  IF pc \in IdPc THEN IF seek THEN Len(content[fd]) ELSE 0 ELSE offset

\* The lines delivered are complete, and come before those still to be read.
AheadInv ==
  /\ \A d \in 1 .. Len(delivered) :
       /\ Whole(delivered[d]) \/ Rest(delivered[d])
       /\ 2 * Number(delivered[d]) <= written
       /\ \A e \in 1 .. d - 1 : Number(delivered[e]) < Number(delivered[d])
       /\ fd # 0 =>
            /\ \A k \in NextOffset + 1 .. Len(content[fd]) :
                 content[fd][k][2] = 2 => Number(delivered[d]) < content[fd][k][1]
            /\ \A i \in fd + 1 .. MaxFiles : \A k \in 1 .. Len(content[i]) :
                 Number(delivered[d]) < content[i][k][1]
       /\ fd = 0 /\ path # 0 /\ from_beginning =>
            \A k \in 1 .. Len(content[path]) : Number(delivered[d]) < content[path][k][1]

(***************************************************************************)
(* The parts together.  That no file is opened twice keeps what was        *)
(* delivered behind the file that is opened next.                          *)
(***************************************************************************)
IInv ==
  /\ TypeOK
  /\ PathInv
  /\ ~truncated => FilesInv /\ RotationInv /\ CarryInv /\ AheadInv

=============================================================================
