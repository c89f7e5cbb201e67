------------------------------ MODULE Redaction ------------------------------
(***************************************************************************)
(* What redact.cpp takes out of a FIX body and out of prose before a line  *)
(* is stored.                                                              *)
(*                                                                         *)
(* A body is a sequence of chunks, the text between two separators, each   *)
(* with its tag (0 where there is no number before a '='), the number its  *)
(* value reads as (0 for none) and its value.  The value of a data field   *)
(* may hold separators; its length is given in chunks, so that a declared  *)
(* length that ends inside a chunk is left out.  Prose is a sequence of    *)
(* tokens, each of which is one of Tokens; the spaces between them stay.   *)
(***************************************************************************)
EXTENDS Integers, Sequences, SequencesExt

-----------------------------------------------------------------------------
(* redact_free_text *)

\* A credential noun, a stop word, any other word, punctuation by itself, and a
\* noun and its value in one token (noun=value, noun:value).
Tokens == {"noun", "stop", "word", "punct", "pair"}

kWindow == 4

\* What the loop carries: the text so far, and the tokens left in which a value
\* may still appear.
NoText == [out |-> << >>, pending |-> 0]

Says(st, tok, pending) == [out |-> Append(st.out, tok), pending |-> pending]

\* Mutant of ScrubToken: the first stop word closes the window.
ScrubToken_ClosesOnStop(st, tok) ==
  CASE tok = "pair"  -> Says(st, "noun=<redacted>", 0)
    [] tok = "punct" -> Says(st, tok, st.pending)
    [] tok = "noun"  -> Says(st, tok, kWindow)
    [] tok = "stop"  -> Says(st, tok, 0)
    [] OTHER -> Says(st, IF st.pending > 0 THEN "<redacted>" ELSE tok, 0)

ScrubToken(st, tok) ==
  CASE tok \in {"pair", "noun=<redacted>"} -> Says(st, "noun=<redacted>", 0)
    [] tok = "punct" -> Says(st, tok, st.pending)
    [] tok = "noun"  -> Says(st, tok, kWindow)
    [] tok = "stop"  -> Says(st, tok, IF st.pending > 0 THEN st.pending - 1 ELSE 0)
    [] OTHER -> Says(st, IF st.pending > 0 THEN "<redacted>" ELSE tok, 0)

redact_free_text(text) == FoldLeft(ScrubToken, NoText, text).out

-----------------------------------------------------------------------------
(* mask_fix_body *)

CredentialTags == {553, 554, 925, 1400, 1401, 1402, 1403, 1404, 90, 91, 95, 96}
FreeTextTags   == {58, 147, 148}
OpaqueTextTags == {355, 349, 351}
BusinessTags ==
  {1, 109, 76, 448, 11, 17, 37, 41, 198, 526, 48, 55, 65,
   54, 38, 44, 99, 110, 152, 210, 6, 14, 31, 32, 151}

\* data_tag_for_length_tag; -1 for a tag that announces no length.
DataTag(tag) ==
  CASE tag = 90 -> 91 [] tag = 95 -> 96 [] tag = 354 -> 355 [] OTHER -> -1

Redacted == <<"<redacted>">>
Masked   == <<"<masked>">>

\* The value that is stored for a value under a tag.
MaskedValue(tag, val, mask_business) ==
  IF tag \in CredentialTags THEN Redacted
  ELSE IF tag \in OpaqueTextTags THEN Masked
  ELSE IF tag \in FreeTextTags THEN redact_free_text(val)
  ELSE IF mask_business /\ tag \in BusinessTags THEN Masked
  ELSE val

\* A field of k chunks, the first of which is c: its value is replaced as a
\* whole.  A field without a tag or without a value is copied.
MaskField(c, k, mask_business) ==
  IF c.tag > 0 /\ (c.val # << >> \/ k > 1)
  THEN [c EXCEPT !.val = MaskedValue(c.tag, c.val, mask_business)] ELSE c

\* What the walk carries: the text so far, the chunk the next field begins
\* with, and the data field it expects there, with its length.
NoFields == [out |-> << >>, next |-> 1, tag |-> -1, len |-> 0]

\* Mutant of WalkOn: the announced length is not used.
WalkOn_ScansOnly(body, mask_business, w, i) ==
  [w EXCEPT !.out = Append(@, MaskField(body[i], 1, mask_business))]

\* A length that runs past the end of the body is not believed, and what a
\* length announces must come next.
WalkOn(body, mask_business, w, i) ==
  LET c == body[i]
      fits == c.tag > 0 /\ c.tag = w.tag /\ i + w.len <= Len(body) + 1
      k == IF fits THEN w.len ELSE 1
      announces == c.num > 0 /\ DataTag(c.tag) > 0
  IN  IF i < w.next THEN w
      ELSE [out  |-> Append(w.out, MaskField(c, k, mask_business)),
            next |-> i + k,
            tag  |-> IF announces THEN DataTag(c.tag) ELSE -1,
            len  |-> c.num]

mask_fix_body(body, mask_business) ==
  LET Step(w, i) == WalkOn(body, mask_business, w, i)
  IN  FoldLeft(Step, NoFields, [i \in 1 .. Len(body) |-> i]).out

-----------------------------------------------------------------------------
(* What the two must do, said without a walk. *)

(***************************************************************************)
(* A word of prose is hidden exactly if the last token before it that is   *)
(* neither punctuation nor one of less than four stop words is a noun;     *)
(* every other token stays, but for the values in pairs.  Scrubbing again, *)
(* as the event adapter does with a reason, changes nothing more.          *)
(***************************************************************************)
FollowsNoun(text, i) ==
  \E j \in 1 .. i - 1 :
    /\ text[j] = "noun"
    /\ \A k \in j + 1 .. i - 1 : text[k] \in {"stop", "punct"}
    /\ Cardinality({k \in j .. i - 1 : text[k] = "stop"}) < kWindow

Scrubs(text) ==
  LET out == redact_free_text(text) IN
  /\ out = [i \in 1 .. Len(text) |->
       IF text[i] = "pair" THEN "noun=<redacted>"
       ELSE IF text[i] = "word" /\ FollowsNoun(text, i) THEN "<redacted>"
       ELSE text[i]]
  /\ redact_free_text(out) = out

(***************************************************************************)
(* A body written field by field is masked field by field: the value of a  *)
(* field is judged by its own tag alone, whatever separators, tags and     *)
(* nouns stand in it or in the fields around it.                           *)
(***************************************************************************)
Masks(fields, mask_business) ==
  mask_fix_body(FlattenSeq(fields), mask_business)
    = [i \in 1 .. Len(fields) |-> MaskField(fields[i][1], Len(fields[i]), mask_business)]
=============================================================================
