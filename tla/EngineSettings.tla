--------------------------- MODULE EngineSettings ---------------------------
(***************************************************************************)
(* Reading the FIX engine's own configuration (quickfix_config.cpp): the   *)
(* sections and settings of the file, the sessions they describe, and the  *)
(* log files that belong to them.                                          *)
(*                                                                         *)
(* A line is a section header, a setting or anything else; comments are    *)
(* left out.  Names are compared without regard to case and are written in *)
(* one case here.  A text a caller may leave blank is a string; "bad" is a *)
(* number that does not parse or is not positive.  The wildcard sessions   *)
(* of acceptors and the search for the directory are left out.             *)
(***************************************************************************)
EXTENDS Integers, Sequences, SequencesExt

Section(name) == [kind |-> "section", key |-> name, val |-> ""]
Setting(key, val) == [kind |-> "setting", key |-> key, val |-> val]
Junk == [kind |-> "junk", key |-> "", val |-> ""]

SensitiveKeys == {"Username", "Password", "SSLCertificateKey"}

-----------------------------------------------------------------------------
(* parse_quickfix_settings *)

NoSettings == [k \in {} |-> ""]

\* values[key] = val, and the settings of one block over those of another.
Set(values, key, val) ==
  [k \in DOMAIN values \cup {key} |-> IF k = key THEN val ELSE values[k]]

Over(own, base) ==
  [k \in DOMAIN own \cup DOMAIN base |-> IF k \in DOMAIN own THEN own[k] ELSE base[k]]

\* The section the parser is in, what it has seen of [DEFAULT] and of the block
\* at hand, and the blocks it has finished.
NoBlocks ==
  [sec |-> "NONE", defaults |-> NoSettings, default_redacted |-> {},
   current |-> NoSettings, current_redacted |-> {}, sessions |-> << >>]

\* Mutant of Commit: the settings of a block are not cleared after it.
Commit_KeepsCurrent(p) ==
  IF p.sec # "SESSION" THEN p
  ELSE [p EXCEPT !.sessions = Append(@,
                   [values |-> Over(p.current, p.defaults),
                    redacted_keys |-> p.default_redacted \cup p.current_redacted])]

\* commit: a block is the settings of [DEFAULT] so far with its own over them.
Commit(p) ==
  IF p.sec # "SESSION" THEN p
  ELSE [p EXCEPT !.sessions = Append(@,
                   [values |-> Over(p.current, p.defaults),
                    redacted_keys |-> p.default_redacted \cup p.current_redacted]),
                 !.current = NoSettings, !.current_redacted = {}]

\* Of a credential only the key is kept, whatever the section.
ParseLine(p, l) ==
  CASE l.kind = "section" -> [Commit(p) EXCEPT !.sec = l.key]
    [] l.kind = "setting" /\ l.key \in SensitiveKeys ->
         IF p.sec = "DEFAULT" THEN [p EXCEPT !.default_redacted = @ \cup {l.key}]
                              ELSE [p EXCEPT !.current_redacted = @ \cup {l.key}]
    [] l.kind = "setting" /\ l.key \notin SensitiveKeys /\ p.sec = "DEFAULT" ->
         [p EXCEPT !.defaults = Set(@, l.key, l.val)]
    [] l.kind = "setting" /\ l.key \notin SensitiveKeys /\ p.sec = "SESSION" ->
         [p EXCEPT !.current = Set(@, l.key, l.val)]
    [] OTHER -> p

parse_quickfix_settings(lines) == Commit(FoldLeft(ParseLine, NoBlocks, lines)).sessions

\* QuickFixSessionBlock::get: an empty value is none.
Get(block, key, fallback) ==
  IF key \in DOMAIN block.values /\ block.values[key] # ""
  THEN block.values[key] ELSE fallback

TriState(v) == IF v \in {"Y", "y", "1", "true", "yes"} THEN "yes"
               ELSE IF v \in {"N", "n", "0", "false", "no"} THEN "no" ELSE "unknown"

-----------------------------------------------------------------------------
(* The logs of a session in a directory: the sequence of its files in the  *)
(* order the directory lists them.  The name of a file is its parts        *)
(* between dashes, what it logs, and how it ends.                          *)

NoLog == [stem |-> << >>, kind |-> "", suffix |-> ""]
LogSuffixes == <<".current.log", ".log">>

\* quickfix/j writes a comp id with its sub id: the last two of a part.
Part(id, sub) == <<id, sub>>

quickfix_log_prefixes(sc) ==
  LET b == Part(sc.begin_string, "")
      s == Part(sc.sender_comp_id, "")
      t == Part(sc.target_comp_id, "")
      base == << <<b, Part(sc.sender_comp_id, sc.sender_sub_id),
                      Part(sc.target_comp_id, sc.target_sub_id)>>, <<b, s, t>>, <<s, t>> >>
      q == Part(sc.session_qualifier, "")
  IN  IF sc.session_qualifier = "" THEN base
      ELSE [i \in 1 .. 3 |-> Append(base[i], q)] \o base

\* The first of a sequence that satisfies a test, and what to do without one.
FirstOf(seq, Test(_), none) ==
  LET hits == {i \in 1 .. Len(seq) : Test(seq[i])}
  IN  IF hits = {} THEN none ELSE seq[Min(hits)]

\* Mutant of Candidates: all that end in ".log" first.
Candidates_SuffixFirst(sc, kind) ==
  LET p == quickfix_log_prefixes(sc) IN
  [i \in 1 .. 2 * Len(p) |->
     [stem |-> p[((i - 1) % Len(p)) + 1], kind |-> kind,
      suffix |-> LogSuffixes[2 - ((i - 1) \div Len(p))]]]

\* The names resolve_quickfix_log tries, in its order.
Candidates(sc, kind) ==
  LET p == quickfix_log_prefixes(sc) IN
  [i \in 1 .. 2 * Len(p) |->
     [stem |-> p[(i + 1) \div 2], kind |-> kind, suffix |-> LogSuffixes[2 - (i % 2)]]]

resolve_quickfix_log(dir, sc, kind) ==
  LET Exists(f) == Contains(dir, f) IN FirstOf(Candidates(sc, kind), Exists, NoLog)

\* The parts of its identity a file name has: two comp ids, or one and another.
identity_score(stem, sc) ==
  Cardinality({f \in {"sender_comp_id", "target_comp_id", "begin_string", "session_qualifier"} :
                 sc[f] # "" /\ Contains(stem, Part(sc[f], ""))})

\* The first file with the highest score, from a score of 2 on.
scan_for_log(dir, sc, kind) ==
  LET Score(f) == IF f.kind = kind THEN identity_score(f.stem, sc) ELSE 0
      Best(f) == Score(f) >= 2 /\ \A g \in Range(dir) : Score(g) <= Score(f)
  IN  FirstOf(dir, Best, NoLog)

Found(dir, sc, kind) ==
  LET f == resolve_quickfix_log(dir, sc, kind)
  IN  IF f # NoLog THEN f ELSE scan_for_log(dir, sc, kind)

\* attach_logs: one of the pair names the other; with neither, the names the
\* engine will use are watched.
Log(dir, sc, kind, other) ==
  LET f == Found(dir, sc, kind)
      g == Found(dir, sc, other)
  IN  IF f # NoLog THEN f
      ELSE IF g # NoLog THEN [g EXCEPT !.kind = kind]
      ELSE Candidates(sc, kind)[1]

attach_logs(sc, dir) ==
  [sc EXCEPT !.message_log_path = Log(dir, sc, "messages", "event"),
             !.event_log_path = Log(dir, sc, "event", "messages")]

-----------------------------------------------------------------------------
(* sessions_from_quickfix *)

HeartBeat(block) ==
  LET hb == Get(block, "HeartBtInt", "30") IN IF hb = "bad" THEN "30" ELSE hb

Described(block) ==
  [begin_string |-> Get(block, "BeginString", "FIX.4.4"),
   sender_comp_id |-> Get(block, "SenderCompID", ""),
   target_comp_id |-> Get(block, "TargetCompID", ""),
   session_qualifier |-> Get(block, "SessionQualifier", ""),
   sender_sub_id |-> Get(block, "SenderSubID", ""),
   target_sub_id |-> Get(block, "TargetSubID", ""),
   heartbeat_interval |-> HeartBeat(block), heartbeat_explicit |-> FALSE,
   connection_type |-> Get(block, "ConnectionType", ""),
   file_log_path |-> Get(block, "FileLogPath", ""),
   reset_on_logon |-> TriState(Get(block, "ResetOnLogon", "")),
   persist_messages |-> TriState(Get(block, "PersistMessages", "")),
   message_log_path |-> NoLog, event_log_path |-> NoLog,
   from_quickfix |-> TRUE, redacted_settings |-> block.redacted_keys]

\* A block without its comp ids is skipped; one without a log path is kept and
\* has no logs.
sessions_from_quickfix(blocks, dir) ==
  LET Named(sc) == sc.sender_comp_id # "" /\ sc.target_comp_id # ""
      sessions == FlattenSeq([i \in 1 .. Len(blocks) |->
                    IF Named(Described(blocks[i])) THEN <<Described(blocks[i])>> ELSE << >>])
  IN  [i \in 1 .. Len(sessions) |->
         IF sessions[i].file_log_path = "" THEN sessions[i]
         ELSE attach_logs(sessions[i], dir)]

-----------------------------------------------------------------------------
(* What the parser and the search must do, said by line numbers and ranks. *)

Headers(lines, name) == {i \in 1 .. Len(lines) : lines[i] = Section(name)}

\* The lines of the section whose header is line h.
Body(lines, h) ==
  {i \in h + 1 .. Len(lines) : \A j \in h + 1 .. i : lines[j].kind # "section"}

LastValue(lines, is, key) ==
  LET hits == {i \in is : lines[i].kind = "setting" /\ lines[i].key = key}
  IN  lines[CHOOSE i \in hits : \A j \in hits : j <= i].val

Keys(lines, is) == {lines[i].key : i \in {j \in is : lines[j].kind = "setting"}}

(***************************************************************************)
(* The k-th block holds the settings between its header and the next, over *)
(* those of every [DEFAULT] before its header, and nothing of any other    *)
(* block; of a credential in one of these it keeps the key and no value.   *)
(***************************************************************************)
IsBlock(lines, head, block) ==
  LET own  == Body(lines, head)
      base == UNION {Body(lines, h) : h \in {x \in Headers(lines, "DEFAULT") : x < head}}
      keys == Keys(lines, own) \cup Keys(lines, base)
  IN  /\ DOMAIN block.values = keys \ SensitiveKeys
      /\ \A key \in keys \ SensitiveKeys :
           block.values[key] =
             LastValue(lines, IF key \in Keys(lines, own) THEN own ELSE base, key)
      /\ keys \cap SensitiveKeys \subseteq block.redacted_keys

Inherits(lines) ==
  LET blocks == parse_quickfix_settings(lines)
      heads == Headers(lines, "SESSION")
  IN  /\ Len(blocks) = Cardinality(heads)
      /\ \A head \in heads :
           IsBlock(lines, head, blocks[Cardinality({x \in heads : x <= head})])

(***************************************************************************)
(* A session that has a log under one of the names it may have reads such  *)
(* a log, the most specific, a current one before an old one, whatever     *)
(* other sessions log in the directory and in what order it is listed.     *)
(* The names without a qualifier are a qualified session's own as well,    *)
(* after those with it.  Without such a log a session reads a file that    *)
(* shares the most parts of its name, from two on, be it the log of        *)
(* another session; without such a file it waits for one not there yet.    *)
(***************************************************************************)
ReadsOwnLog(dir, sc, kind, path) ==
  LET stems == quickfix_log_prefixes(sc)
      Before(s, t) == \E i, j \in 1 .. Len(stems) :
                        /\ i < j /\ stems[i] = s /\ stems[j] = t
                        /\ \A k \in 1 .. i : stems[k] # t
      own == {f \in Range(dir) : f.kind = kind /\ Contains(stems, f.stem)}
      Score(f) == identity_score(f.stem, sc)
      near == {f \in Range(dir) : f.kind = kind /\ Score(f) >= 2}
  IN  /\ own # {} =>
           /\ path \in own
           /\ \A f \in own \ {path} :
                IF f.stem = path.stem THEN path.suffix = ".current.log"
                ELSE Before(path.stem, f.stem)
      /\ own = {} /\ near # {} => path \in near /\ \A f \in near : Score(f) <= Score(path)
      /\ own = {} /\ near = {} => path \notin Range(dir)
=============================================================================
