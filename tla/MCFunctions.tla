----------------------------- MODULE MCFunctions -----------------------------
(***************************************************************************)
(* The sequential algorithms of the collector, for TLC: each gets every    *)
(* input of its kind up to a length, one element more with each step.      *)
(***************************************************************************)
EXTENDS CollectorConfig, Redaction

CONSTANTS
  MaxTokens,   \* bound: tokens of a text
  MaxFields,   \* bound: groups of fields of a body
  MaxLines,    \* bound: lines of an engine's file
  MaxBlocks,   \* bound: blocks of all configuration files together
  MaxFilesInDir,  \* bound: files of a directory
  SizeBits     \* bound: the width of a size_t

ASSUME FunctionsAssumption ==
  /\ MaxTokens \in Nat /\ MaxFields \in Nat /\ MaxLines \in Nat
  /\ MaxBlocks \in Nat /\ MaxFilesInDir \in Nat
  /\ SizeBits \in Nat /\ SizeBits >= 2

VARIABLES
  task,    \* which algorithm
  input,   \* its input
  number   \* the number asked for

vars == <<task, input, number>>

-----------------------------------------------------------------------------
(* Fields of a body: alone, or a length and what follows it. *)

Field(tag, num, val) == <<[tag |-> tag, num |-> num, val |-> val]>>
RawPart(val) == Field(0, 0, val)

FieldGroups == {
  <<Field(554, 0, <<"word">>)>>,
  <<Field(553, 0, << >>)>>,
  <<Field(11, 2, <<"word">>)>>,
  <<Field(34, 2, <<"word">>)>>,
  <<Field(58, 0, <<"noun", "word">>)>>,
  <<RawPart(<<"word">>)>>,
  \* A data field whose value holds a separator, also one at its start or one
  \* before what looks like a field.
  <<Field(95, 2, <<"word">>), Field(96, 0, <<"word">>) \o RawPart(<<"word">>)>>,
  <<Field(90, 2, <<"word">>), Field(91, 0, << >>) \o Field(11, 0, <<"word">>)>>,
  <<Field(354, 3, <<"word">>),
    Field(355, 0, <<"noun">>) \o Field(95, 2, <<"word">>) \o Field(96, 0, <<"word">>)>>,
  \* A length that is no number, one whose data field does not follow, and data
  \* without a length.
  <<Field(95, 0, <<"word">>), Field(96, 0, <<"word">>)>>,
  <<Field(354, 2, <<"word">>), Field(34, 2, <<"word">>)>>,
  <<Field(96, 0, <<"word">>)>> }

-----------------------------------------------------------------------------
(* Lines and blocks of configuration files. *)

EngineLines ==
  {Section("DEFAULT"), Section("SESSION"), Section("OTHER"), Junk,
   Setting("HeartBtInt", "20"), Setting("HeartBtInt", "bad"),
   Setting("ConnectionType", "initiator"),
   Setting("Password", "word"), Setting("Username", "word")}

Of(target) == <<Setting("SenderCompID", "US"), Setting("TargetCompID", target)>>
OwnOf(target) == <<Setting("sender_comp_id", "US"), Setting("target_comp_id", target)>>

OwnLog == [stem |-> <<Part("own", "")>>, kind |-> "messages", suffix |-> ".log"]

IniBlocks ==
  {<<Section("session")>> \o OwnOf("B1"),
   <<Section("session")>> \o OwnOf("B1")
      \o <<Setting("heartbeat_interval", "10"), Setting("message_log_path", OwnLog)>>,
   <<Section("session")>> \o OwnOf("B1")
      \o <<Setting("session_qualifier", "Q"), Setting("reset_on_logon", "N")>>,
   <<Section("session")>> \o OwnOf("B1") \o <<Setting("heartbeat_interval", "bad")>>,
   <<Section("session"), Setting("target_comp_id", "B1")>>,
   <<Junk>>}

EngineBlocks ==
  {<<Section("DEFAULT"), Setting("HeartBtInt", "20"), Setting("Password", "word"),
     Setting("FileLogPath", "log")>>,
   <<Section("SESSION")>> \o Of("B1"),
   <<Section("SESSION")>> \o Of("B1")
      \o <<Setting("ConnectionType", "initiator"), Setting("ResetOnLogon", "Y")>>,
   <<Section("SESSION")>> \o Of("B1")
      \o <<Setting("SessionQualifier", "Q"), Setting("HeartBtInt", "15"), Setting("ResetOnLogon", "Y")>>,
   <<Section("SESSION")>> \o Of("B2") \o <<Setting("FileLogPath", "")>>,
   <<Section("SESSION"), Setting("SenderCompID", "US")>>}

\* Each block with its file: the collector's own, or the first or second of the
\* engine's.
Blocks == ({0} \X IniBlocks) \cup ({1, 2} \X EngineBlocks)

\* The text of a file: its blocks, in the order they were added.
Text(f) == FlattenSeq([i \in 1 .. Len(input) |-> IF input[i][1] = f THEN input[i][2] ELSE << >>])

-----------------------------------------------------------------------------
(* Files of a directory, and sessions that log there. *)

LogFile(stem, kind, suffix) == [stem |-> stem, kind |-> kind, suffix |-> suffix]

B == Part("FIX.4.4", "")
US == Part("US", "")

Stems == {<<B, US, Part("B1", "")>>, <<US, Part("B1", "")>>, <<B, US, Part("B2", "")>>,
          <<B, US, Part("B1", ""), Part("Q", "")>>, <<B, US, Part("B1", "X")>>}

LogFiles == {LogFile(s, "messages", x) : s \in Stems, x \in Range(LogSuffixes)}
              \cup {LogFile(s, "event", ".current.log") : s \in Stems}

SessionOf(target, qualifier, sub) ==
  [NewSession EXCEPT !.begin_string = "FIX.4.4", !.sender_comp_id = "US",
                     !.target_comp_id = target, !.session_qualifier = qualifier,
                     !.target_sub_id = sub]

LoggingSessions == {SessionOf("B1", "", ""), SessionOf("B2", "", ""), SessionOf("B1", "Q", ""),
                    SessionOf("B1", "", "X")}

LoadDir == <<LogFile(<<B, US, Part("B1", "")>>, "messages", ".log")>>

-----------------------------------------------------------------------------

Init ==
  /\ task \in {"capacity", "scrub", "mask", "parse", "load", "logs"}
  /\ input = << >> /\ number = 0

More(set, max) ==
  /\ Len(input) < max
  /\ \E x \in set : input' = Append(input, x)
  /\ UNCHANGED <<task, number>>

AskMore ==
  /\ task = "capacity" /\ number < Pow2[SizeBits] - 1
  /\ number' = number + 1 /\ UNCHANGED <<task, input>>

AddToken == task = "scrub" /\ More(Tokens, MaxTokens)
AddField == task = "mask" /\ More(FieldGroups, MaxFields)
AddLine  == task = "parse" /\ More(EngineLines, MaxLines)

\* One file after the other.
AddBlock ==
  /\ task = "load"
  /\ More({b \in Blocks : \A i \in 1 .. Len(input) : input[i][1] <= b[1]}, MaxBlocks)

AddFile == task = "logs" /\ More(LogFiles \ Range(input), MaxFilesInDir)

Next == AskMore \/ AddToken \/ AddField \/ AddLine \/ AddBlock \/ AddFile

Spec == Init /\ [][Next]_vars

-----------------------------------------------------------------------------
(* Properties *)

\* The queue's capacity, for every number that may be asked for.
CapacityIsPowerOfTwo == task = "capacity" => RoundsUp(number, SizeBits)

\* Prose is scrubbed of what follows a credential noun, and of nothing else.
ScrubsWindow == task = "scrub" => Scrubs(input)

\* A body is masked field by field, with data fields that hold separators.
MasksByField ==
  task = "mask" => \A b \in BOOLEAN : Masks(FlattenSeq(input), b)

\* The blocks of an engine's file inherit from the defaults before them.
BlocksInherit == task = "parse" => Inherits(input)

\* The operator's file wins where it spoke, and sessions are imported once.  An
\* error in the operator's file, or no session at all, is an error.
OperatorWins ==
  task = "load" =>
    \A own \in {ReadIni(Text(0))}, eng \in {EngineSessions(<<Text(1), Text(2)>>, LoadDir)} :
      LET got == load_config(own, eng) IN
      IF own.failed \/ own.sessions \o eng = << >> THEN got.failed
      ELSE ~got.failed /\ Merges(own.sessions, eng, got.sessions)

\* Sessions that log to one directory read their own logs, and the nearest that
\* are there where they have none.
OwnLogsFound ==
  task = "logs" =>
    \A sc \in LoggingSessions :
      LET s == attach_logs(sc, input) IN
      /\ ReadsOwnLog(input, sc, "messages", s.message_log_path)
      /\ ReadsOwnLog(input, sc, "event", s.event_log_path)

\* What scan_for_log says of itself: a file that none of the names led to is
\* claimed for a session only if both comp ids are in its name.  It is violated:
\* any two parts of the identity are enough, so a session without a log takes
\* that of another session of the same sender and version of FIX.
ScanNeedsCompIds ==
  task = "logs" =>
    \A sc \in LoggingSessions, kind \in {"messages", "event"} :
      LET f == Found(input, sc, kind) IN
      f # NoLog /\ ~Contains(quickfix_log_prefixes(sc), f.stem) =>
        /\ Contains(f.stem, Part(sc.sender_comp_id, ""))
        /\ Contains(f.stem, Part(sc.target_comp_id, ""))
=============================================================================
