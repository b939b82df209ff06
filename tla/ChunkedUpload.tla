---------------------------- MODULE ChunkedUpload ----------------------------
(***************************************************************************)
(* One call of uploadSealedAttachment (src/chunked-upload.ts): ask for a   *)
(* token, claim content the server already has or seal for the session of  *)
(* the token and send it, in chunks through the server or in parts to S3;  *)
(* a session that is gone is replaced once.                                *)
(*                                                                         *)
(* The sealed blob is a row of base units; a chunk is a run of them, a     *)
(* part PartSize of them.  Session 1 is the first the server opens for the *)
(* call, session 2 the one that replaces it.  What the server holds of a   *)
(* session is, per unit, the session its blob was sealed for, 0 for        *)
(* nothing: another session may freeze another key and chunk size.         *)
(* A write whose answer is lost may still land, or land much later (late). *)
(* Names ending in _Slip are deliberate errors nothing uses: see README.   *)
(***************************************************************************)
EXTENDS Naturals, FiniteSetsExt

CONSTANTS
    Size,           \* base units of the blob
    MaxPiece,       \* units of the largest request
    PartSize,       \* units of an S3 part
    Retries,        \* CHUNK_RETRIES
    MaxLate         \* bound: writes under way after their answer was given up

ASSUME UploadAssumption ==
    {Size, MaxPiece, PartSize, Retries} \subseteq Nat \ {0} /\ MaxLate \in Nat

Units    == 1..Size
Sessions == 1..2
Parts    == 1..((Size + PartSize - 1) \div PartSize)

VARIABLES
    pc,         \* where the call is
    session,    \* the session in use, 0 before the first
    sealed,     \* the session the blob in hand was sealed for
    gaps,       \* units the client believes the server lacks
    size,       \* ChunkSizer.next
    failures,   \* failuresSinceProgress, or the attempts of the part in hand
    todo,       \* S3: the parts of this round still to send
    round,      \* S3: rounds begun
    result,     \* the token returned: a session, 0 for a claim
    held,       \* server: what it holds of each session
    life,       \* server: what has become of each session
    late        \* writes that have not reached the server yet

callVars == <<pc, session, sealed, gaps, size, failures, todo, round, result>>
serverVars == <<held, life, late>>
uploadVars       == <<callVars, serverVars>>

Write == [session : Sessions, units : SUBSET Units, of : Sessions]

UploadTypeOK ==
    /\ pc \in {"prepare", "claim", "force", "status", "send", "resync", "partUrls", "parts",
               "partStatus", "complete", "again", "claimAgain", "done", "failed"}
    /\ session \in 0..2 /\ sealed \in 0..2 /\ result \in 0..2
    /\ gaps \subseteq Units /\ todo \subseteq Parts
    /\ size \in 1..MaxPiece /\ failures \in 0..(Retries + 1) /\ round \in 0..(Retries + 1)
    /\ held \in [Sessions -> [Units -> 0..2]]
    /\ life \in [Sessions -> {"none", "proxy", "s3", "done", "gone"}]
    /\ late \subseteq Write

UploadInit ==
    /\ pc = "prepare" /\ session = 0 /\ sealed = 0 /\ gaps = {}
    /\ size = 1 /\ failures = 0 /\ todo = {} /\ round = 0 /\ result = 0
    /\ held = [s \in Sessions |-> [u \in Units |-> 0]]
    /\ life = [s \in Sessions |-> "none"] /\ late = {}

-----------------------------------------------------------------------------
Missing(s) == {u \in Units : held[s][u] = 0}

\* What is next: the head of the first gap, at most size units of it.
Piece == {u \in Min(gaps)..(Min(gaps) + size - 1) : Min(gaps)..u \subseteq gaps}

UnitsOf(p) == {u \in Units : (u - 1) \div PartSize = p - 1}

\* missingS3Parts: a part is sent when it is missing as a whole.
MissingParts(units) == {p \in Parts : UnitsOf(p) \subseteq units}

\* What the server holds once the units of a write have landed.
Stored(w) == [held EXCEPT ![w.session] = [u \in Units |-> IF u \in w.units THEN w.of ELSE @[u]]]

\* chunkVerdict, of the code and of whether the HTTP status is 5xx.
Verdict(code, serverError) ==
    CASE code \in {"ok", "completed"}   -> "ok"
      [] code \in {"checksum", "busy"}  -> "retry"
      [] code \in {"overlap", "missing"} -> "resync"
      [] code \in {"gone", "restart"}   -> "gone"
      [] OTHER                          -> IF serverError THEN "retry" ELSE "fatal"

Goto(l) ==
    /\ pc' = l
    /\ UNCHANGED <<session, sealed, gaps, size, failures, todo, round, result>>

\* An error nothing catches, an abort among them.
Throw == Goto("failed")

\* UploadSessionGoneError: the first session is replaced, the second is not.
Gone == Goto(IF session = 1 THEN "again" ELSE "failed")

-----------------------------------------------------------------------------
(* The token.                                                              *)

\* The blob in hand is kept for the session that replaces the first.
Opened_Slip(s) ==
    /\ session' = s
    /\ sealed' = IF sealed = 0 THEN s ELSE sealed
    /\ pc' = "status" /\ size' = 1 /\ failures' = 0 /\ round' = 0 /\ gaps' = {} /\ todo' = {}
    /\ life' \in {[life EXCEPT ![s] = t] : t \in {"proxy", "s3"}}
    /\ UNCHANGED <<result, held, late>>

\* sessionOf and sealForSession.
Opened(s) ==
    /\ session' = s
    /\ sealed' = s
    /\ pc' = "status" /\ size' = 1 /\ failures' = 0 /\ round' = 0 /\ gaps' = {} /\ todo' = {}
    /\ life' \in {[life EXCEPT ![s] = t] : t \in {"proxy", "s3"}}
    /\ UNCHANGED <<result, held, late>>

\* A token that does not fit what is asked for, or geometry that differs.
Refused == Throw /\ UNCHANGED serverVars

\* request(false), and what follows a claim that missed: request(true).
Prepare ==
    /\ pc = "prepare"
    /\ \/ Opened(1)
       \/ Goto("claim") /\ UNCHANGED serverVars
       \/ Refused

Claim ==
    /\ pc = "claim"
    /\ UNCHANGED serverVars
    /\ (Goto("done") \/ Goto("force") \/ Throw)

ClaimMissed == pc = "force" /\ (Opened(1) \/ Refused)

\* The session is gone: request(false) again, and no second chance after it.
Again ==
    /\ pc = "again"
    /\ \/ Opened(2)
       \/ Goto("claimAgain") /\ UNCHANGED serverVars
       \/ Refused

ClaimAgain ==
    /\ pc = "claimAgain"
    /\ UNCHANGED serverVars
    /\ (Goto("done") \/ Throw)

-----------------------------------------------------------------------------
(* Through the server.                                                     *)

\* fetchStatus at the start: complete what is complete, else send the missing.
Status ==
    /\ pc = "status"
    /\ UNCHANGED serverVars
    /\ \/ Throw
       \/ life[session] = "gone" /\ Gone
       \/ life[session] = "done" /\ Goto("complete")
       \/ /\ life[session] \in {"proxy", "s3"}
          /\ gaps' = Missing(session)
          /\ pc' = IF life[session] = "s3" THEN "partUrls" ELSE "send"
          /\ todo' = IF life[session] = "s3" THEN MissingParts(gaps') ELSE {}
          /\ UNCHANGED <<session, sealed, size, failures, round, result>>

\* ok: the piece leaves its gap; the next size follows the throughput, at most
\* four times the piece (ChunkSizer.onSuccess).
Advance ==
    /\ gaps' = gaps \ Piece
    /\ size' \in 1..Min({MaxPiece, 4 * Cardinality(Piece)})
    /\ failures' = 0
    /\ UNCHANGED <<pc, session, sealed, todo, round, result>>

\* A resync is not counted as a failure.
TryAgain_Slip(verdict) ==
    /\ failures' = IF verdict = "retry" THEN failures + 1 ELSE failures
    /\ size' = IF verdict = "retry" THEN Max({1, size \div 2}) ELSE size
    /\ pc' = IF failures' > Retries THEN "failed" ELSE IF verdict = "retry" THEN pc ELSE "resync"
    /\ UNCHANGED <<session, sealed, gaps, todo, round, result>>

\* retry or resync: both count against the budget, a retry halves the size.
TryAgain(verdict) ==
    /\ failures' = failures + 1
    /\ size' = IF verdict = "retry" THEN Max({1, size \div 2}) ELSE size
    /\ pc' = IF failures' > Retries THEN "failed" ELSE IF verdict = "retry" THEN pc ELSE "resync"
    /\ UNCHANGED <<session, sealed, gaps, todo, round, result>>

React(verdict) ==
    \/ verdict = "ok" /\ Advance
    \/ verdict = "gone" /\ Gone
    \/ verdict = "fatal" /\ Throw
    \/ verdict \in {"retry", "resync"} /\ TryAgain(verdict)

\* The server's answers to a chunk it does not store.
Answers(units) ==
    CASE life[session] = "gone" -> {"gone"}
      [] life[session] = "done" -> {"completed"}
      [] OTHER -> {"checksum", "busy", "missing", "other"}
                    \cup (IF units \cap Missing(session) # units THEN {"overlap"} ELSE {})
                    \cup (IF units \cap Missing(session) = {} THEN {"ok"} ELSE {})

\* putChunk.  A network error is a retry, whatever became of the chunk.
PutChunk ==
    /\ pc = "send" /\ gaps # {}
    /\ LET w == [session |-> session, units |-> Piece, of |-> sealed]
           fits == life[session] = "proxy" /\ Piece \subseteq Missing(session)
       IN  \/ /\ \E code \in Answers(Piece), e \in BOOLEAN : React(Verdict(code, e))
              /\ UNCHANGED serverVars
           \/ /\ fits /\ held' = Stored(w)
              /\ (React("ok") \/ TryAgain("retry"))
              /\ UNCHANGED <<life, late>>
           \/ /\ Cardinality(late) < MaxLate /\ late' = late \cup {w}
              /\ TryAgain("retry")
              /\ UNCHANGED <<held, life>>
           \/ Throw /\ UNCHANGED serverVars

AllSent == pc = "send" /\ gaps = {} /\ Goto("complete") /\ UNCHANGED serverVars

\* The gaps become what the server says it lacks.
Resync ==
    /\ pc = "resync"
    /\ UNCHANGED serverVars
    /\ \/ Throw
       \/ life[session] = "gone" /\ Gone
       \/ life[session] = "done" /\ Goto("complete")
       \/ /\ life[session] = "proxy"
          /\ gaps' = Missing(session) /\ pc' = "send"
          /\ UNCHANGED <<session, sealed, size, failures, todo, round, result>>

-----------------------------------------------------------------------------
(* To S3.                                                                  *)

\* requestPartUrls.
PartUrls ==
    /\ pc = "partUrls" /\ gaps # {}
    /\ UNCHANGED serverVars
    /\ \/ life[session] = "gone" /\ Gone
       \/ Throw
       \/ /\ life[session] = "s3"
          /\ pc' = "parts" /\ failures' = 0
          /\ UNCHANGED <<session, sealed, gaps, size, todo, round, result>>

\* uploadS3Parts: each part has its attempts, in order.
PutPart ==
    /\ pc = "parts" /\ todo # {}
    /\ LET p == Min(todo)
           w == [session |-> session, units |-> UnitsOf(p), of |-> sealed]
           lost == IF failures = Retries THEN Throw
                   ELSE /\ failures' = failures + 1
                        /\ UNCHANGED <<pc, session, sealed, gaps, size, todo, round, result>>
       IN  \/ /\ life[session] = "s3" /\ held' = Stored(w)
              /\ \/ lost
                 \/ /\ todo' = todo \ {p} /\ failures' = 0
                    /\ UNCHANGED <<pc, session, sealed, gaps, size, round, result>>
              /\ UNCHANGED <<life, late>>
           \/ /\ Cardinality(late) < MaxLate /\ late' = late \cup {w}
              /\ lost
              /\ UNCHANGED <<held, life>>
           \/ (lost \/ Throw) /\ UNCHANGED serverVars

\* The end of a round; the rounds are bounded, and what is still missing
\* after the last is an error.
PartStatus ==
    /\ pc = "parts" /\ todo = {}
    /\ UNCHANGED serverVars
    /\ \/ Throw
       \/ life[session] = "gone" /\ Gone
       \/ /\ life[session] = "s3"
          /\ gaps' = Missing(session) /\ round' = round + 1
          /\ todo' = MissingParts(gaps')
          /\ pc' = CASE gaps' = {} -> "complete"
                     [] gaps' # {} /\ round' <= Retries -> "partUrls"
                     [] OTHER -> "failed"
          /\ UNCHANGED <<session, sealed, size, failures, result>>

NothingMissing ==
    pc = "partUrls" /\ gaps = {} /\ Goto("complete") /\ UNCHANGED serverVars

-----------------------------------------------------------------------------
\* complete: the server refuses while ranges are missing; S3 may find the
\* object damaged and want the session begun again; the answer may be lost.
Complete ==
    /\ pc = "complete"
    /\ \/ Throw /\ UNCHANGED serverVars
       \/ life[session] = "gone" /\ Gone /\ UNCHANGED serverVars
       \/ /\ life[session] = "s3" /\ Missing(session) = {}
          /\ life' = [life EXCEPT ![session] = "gone"]
          /\ Gone
          /\ UNCHANGED <<held, late>>
       \/ /\ life[session] # "gone" /\ Missing(session) = {}
          /\ life' = [life EXCEPT ![session] = "done"]
          /\ \/ pc' = "done" /\ result' = session
             \/ pc' = "failed" /\ UNCHANGED result
          /\ UNCHANGED <<session, sealed, gaps, size, failures, todo, round, held, late>>

\* A session expires.
Expire(s) ==
    /\ life[s] \in {"proxy", "s3"}
    /\ life' = [life EXCEPT ![s] = "gone"]
    /\ UNCHANGED <<callVars, held, late>>

\* A whole session is closed by the server.
Close(s) ==
    /\ life[s] = "proxy" /\ Missing(s) = {}
    /\ life' = [life EXCEPT ![s] = "done"]
    /\ UNCHANGED <<callVars, held, late>>

\* A write lands long after its answer was given up, or never.
Land(w) ==
    /\ late' = late \ {w}
    /\ \/ /\ \/ life[w.session] = "s3"
             \/ life[w.session] = "proxy" /\ w.units \subseteq Missing(w.session)
          /\ held' = Stored(w)
       \/ UNCHANGED held
    /\ UNCHANGED <<callVars, life>>

UploadStep ==
    \/ Prepare \/ Claim \/ ClaimMissed \/ Again \/ ClaimAgain
    \/ Status \/ PutChunk \/ AllSent \/ Resync
    \/ PartUrls \/ PutPart \/ PartStatus \/ NothingMissing
    \/ Complete

UploadNext ==
    \/ UploadStep
    \/ \E s \in Sessions : Expire(s) \/ Close(s)
    \/ \E w \in late : Land(w)

UploadSpec == UploadInit /\ [][UploadNext]_uploadVars

\* Every fetch ends, with an answer or a network error, and every timer fires.
FairUpload == WF_uploadVars(UploadStep)

-----------------------------------------------------------------------------
(***************************************************************************)
(* The token uploadSealedAttachment returns is of a session the server has *)
(* every byte of, each sealed for that very session: no run of lost        *)
(* answers, resized retries, resyncs, late writes or a change of session   *)
(* leaves a hole, or bytes of the earlier sealing, in what was uploaded.   *)
(***************************************************************************)
ReturnedIsWhole ==
    result # 0 => life[result] = "done" /\ \A u \in Units : held[result][u] = result

(***************************************************************************)
(* While chunks or parts are being sent the client knows of every unit the *)
(* server lacks: a unit that leaves its gaps by an answer that meant       *)
(* something else would never be sent, and complete refused for good.      *)
(***************************************************************************)
GapsCoverMissing ==
    /\ pc \in {"send", "resync"} => Missing(session) \subseteq gaps
    /\ pc = "complete" => Missing(session) = {}

(***************************************************************************)
(* The call returns or throws, whatever the server answers and however     *)
(* often: retries, resyncs, rounds and sessions are bounded together, and  *)
(* progress, which resets the retries, cannot go on for ever.              *)
(***************************************************************************)
UploadEnds == <>(pc \in {"done", "failed"})
=============================================================================
