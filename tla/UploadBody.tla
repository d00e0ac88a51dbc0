----------------------------- MODULE UploadBody -----------------------------
(***************************************************************************)
(* The body of one upload request, frame by frame: a payload allocated     *)
(* beforehand, with its length declared, or random data without end.       *)
(***************************************************************************)
EXTENDS Integers

CONSTANTS
    Payloads,       \* how long a pre-allocated payload may be
    Chunk,          \* UPLOAD_CHUNK
    MaxSent         \* bound: bytes taken of an endless body

ASSUME UploadBodyAssumption ==
    Payloads \subseteq Nat /\ Chunk \in Nat \ {0} /\ MaxSent \in Nat

Endless == -1

VARIABLES
    payload,        \* its length, or Endless
    declared,       \* Content-Length, or Endless for chunked transfer coding
    pos,            \* UploadBody::pos
    counted,        \* what the body has added to the upload total
    taken,          \* history: the bytes of the frames hyper took
    ended           \* poll_frame has returned None

bodyVars == <<payload, declared, pos, counted, taken, ended>>

SizeHint == IF payload = Endless THEN Endless ELSE payload - pos

BodyInit ==
    /\ payload \in Payloads \cup {Endless}
    /\ pos = 0 /\ counted = 0 /\ taken = 0
    /\ ended = FALSE
    /\ declared = SizeHint

Lesser(a, b) == IF a < b THEN a ELSE b

\* Bug: every frame counts for a chunk.
TakeSlicePadded ==
    /\ payload # Endless /\ pos < payload
    /\ LET end == Lesser(pos + Chunk, payload) IN
          /\ pos' = end
          /\ counted' = counted + Chunk
          /\ taken' = taken + (end - pos)
    /\ UNCHANGED <<payload, declared, ended>>

\* poll_frame; a length that is no multiple of the chunk ends in a short frame.
TakeSlice ==
    /\ payload # Endless /\ pos < payload
    /\ LET end == Lesser(pos + Chunk, payload) IN
          /\ pos' = end
          /\ counted' = counted + (end - pos)
          /\ taken' = taken + (end - pos)
    /\ UNCHANGED <<payload, declared, ended>>

EndBody ==
    /\ payload # Endless /\ pos >= payload
    /\ ~ended
    /\ ended' = TRUE
    /\ UNCHANGED <<payload, declared, pos, counted, taken>>

\* The same block again, until the request is cancelled.
TakeFiller ==
    /\ payload = Endless
    /\ taken < MaxSent
    /\ counted' = counted + Chunk
    /\ taken' = taken + Chunk
    /\ UNCHANGED <<payload, declared, pos, ended>>

BodyNext == TakeSlice \/ EndBody \/ TakeFiller

-----------------------------------------------------------------------------
\* The frames of a payload add up to the length that was declared for it, for
\* lengths that are and are not multiples of the chunk and for none at all;
\* what is still to come is always what the hint says; and the total counts
\* what was taken, no more.  A body without end declares no length.
BodyMatchesLength ==
    /\ counted = taken
    /\ payload # Endless => taken + SizeHint = declared
    /\ ended => taken = declared
    /\ declared # Endless => taken <= declared
    /\ payload = Endless => declared = Endless
=============================================================================
