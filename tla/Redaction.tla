----------------------------- MODULE Redaction -----------------------------
(***************************************************************************)
(* What becomes of the two texts a receipt carries in plain, the error of  *)
(* an outcome and the preview of a prompt (daemon/internal/pipeline/       *)
(* redact.go, build.go).                                                   *)
(*                                                                         *)
(* A text is a sequence of leaves: of a JSON text its scalar values, each  *)
(* with whether one of the keys it stands under is sensitive; any other    *)
(* text is a single leaf.  A leaf is a sequence of runes.  Two or more     *)
(* runes Secret in a row are what one of the patterns matches; a single    *)
(* one matches none.                                                       *)
(***************************************************************************)
EXTENDS Integers, Sequences, SequencesExt

Secret == "s"
Placeholder == <<"[", "R", "]">>   \* [REDACTED]
errorTruncatedSuffix == <<"~">>

NoText == [json |-> FALSE, leaves |-> <<>>]
Leaf(runes) == [sensitive |-> FALSE, runes |-> runes]
PlainText(runes) == [json |-> FALSE, leaves |-> <<Leaf(runes)>>]

Rendered(text) ==
    LET Part(i) == IF i = 1 THEN text.leaves[i].runes ELSE <<",">> \o text.leaves[i].runes
    IN FlattenSeq([i \in DOMAIN text.leaves |-> Part(i)])

(* redactJSONBytes: the value of a sensitive key at any depth; nothing in a  *)
(* text that is no valid JSON.                                               *)
RedactKeys(text) ==
    LET Value(leaf) == IF text.json /\ leaf.sensitive THEN Leaf(Placeholder) ELSE leaf
    IN [text EXCEPT !.leaves = [i \in DOMAIN text.leaves |-> Value(text.leaves[i])]]

Matched(runes, i) ==
    /\ runes[i] = Secret
    /\ \E j \in {i - 1, i + 1} \cap DOMAIN runes : runes[j] = Secret

RedactPatterns(runes) ==
    LET Put(i) == CASE ~Matched(runes, i) -> <<runes[i]>>
                    [] i > 1 /\ Matched(runes, i) /\ runes[i - 1] = Secret -> <<>>
                    [] OTHER -> Placeholder
    IN FlattenSeq([i \in DOMAIN runes |-> Put(i)])

Redact(text) == RedactPatterns(Rendered(RedactKeys(text)))

(* A cap that is not positive cuts nothing. *)
Cut(runes, cap) == cap > 0 /\ Len(runes) > cap

Shortened(runes, cap) == IF Cut(runes, cap) THEN SubSeq(runes, 1, cap) ELSE runes

WrongStoredError(text, cap) ==
    Shortened(Rendered(text), cap) \o (IF Cut(Rendered(text), cap) THEN errorTruncatedSuffix ELSE <<>>)

(* Redacted first and cut afterwards, with a mark in the text itself. *)
StoredError(text, cap) ==
    Shortened(Redact(text), cap) \o (IF Cut(Redact(text), cap) THEN errorTruncatedSuffix ELSE <<>>)

(* intentFromFrame: the mark of a preview is a flag beside it. *)
StoredPreview(text, cap) ==
    [runes |-> Shortened(Redact(text), cap), truncated |-> Cut(Redact(text), cap)]
=============================================================================
