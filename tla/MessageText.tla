----------------------------- MODULE MessageText -----------------------------
(***************************************************************************)
(* The text of a message as its readers take it (src/message-content.ts):  *)
(* the envelopes an old client left around it, the reply anchor the        *)
(* outermost one names, and the people its @-marks stand for.              *)
(* Names ending in _Slip are deliberate errors nothing uses: see README.   *)
(***************************************************************************)
EXTENDS Selection

CONSTANTS
    MaxWraps,   \* bound: envelopes around a text as it is first written
    Named,      \* people a text may mention
    MaxTokens   \* bound: marks in a text

ASSUME TextAssumption == {MaxWraps, MaxTokens} \subseteq Nat

\* A mark that names nobody is not somebody's.
ASSUME NamedAssumption == {"here", "link"} \cap Named = {}

Replies == {"none", "null", "id"}   \* "null": an absent anchor written as text

Plain(n) == [wraps |-> n, reply |-> "none"]

\* decodeLegacyMessageEnvelope takes one envelope off, normalize up to three.
Unwrapped(t) == IF t.wraps > 3 THEN Plain(t.wraps - 3) ELSE Plain(0)

\* replyAnchorId: digits, and not the sentinel.
Anchored(reply) == reply = "id"

\* A mark is @ and a name, picked from the roster or typed, @here, or an @
\* within a link or a phone number.
Marks == Named \cup {"here", "link"}
Texts == UNION {[1..n -> Marks] : n \in 0..MaxTokens}

\* uniqueStrings.
Unique(ids) == FoldLeft(LAMBDA all, id : IF id \in ToSet(all) THEN all ELSE Append(all, id), <<>>, ids)

\* Every @ is a mention.
Spans_Slip(marks) == marks

\* The marks that count as mentions: links and numbers were found before.
Spans(marks) == Selected(marks, Marks \ {"link"})

\* Whoever is left over is left out.
Pairing_Slip(marks, ids) ==
    [i \in 1..Len(Spans(marks)) |-> IF i <= Len(ids) THEN ids[i] ELSE "nobody"]

\* scanMessageTextEntities: the nth mention is the nth id, when there are as
\* many of one as of the other.
Pairing(marks, ids) ==
    [i \in 1..Len(Spans(marks)) |-> IF Len(Spans(marks)) = Len(ids) THEN ids[i] ELSE "nobody"]
=============================================================================
