------------------------------ MODULE TraceLog ------------------------------
(***************************************************************************)
(* What a file back end of the tracer promises: the records of a session   *)
(* reach the session's file in the order of their output, none is lost or  *)
(* repeated, and the file is complete when it is closed.                   *)
(***************************************************************************)
EXTENDS Naturals, Sequences

CONSTANT Record

VARIABLES
    open,      \* a session is under way
    pending,   \* its records that are not in the file yet, oldest first
    stored     \* its records that are in the file

logVars == <<open, pending, stored>>

InitLog == open = FALSE /\ pending = <<>> /\ stored = <<>>

OpenLog ==
    /\ ~open
    /\ open' = TRUE
    /\ stored' = <<>>
    /\ UNCHANGED pending

(* The first k pending records, and the ones after them.                    *)
Oldest(k) == SubSeq(pending, 1, k)
Newest(k) == SubSeq(pending, k + 1, Len(pending))

(* A record is accepted; to make room, older ones may be written.           *)
Log(r) ==
    /\ open
    /\ \E k \in 0..Len(pending) :
          stored' = stored \o Oldest(k) /\ pending' = Append(Newest(k), r)
    /\ UNCHANGED open

(* The oldest records are written, in order.                                *)
Store ==
    /\ open
    /\ \E k \in 1..Len(pending) :
          stored' = stored \o Oldest(k) /\ pending' = Newest(k)
    /\ UNCHANGED open

(* The session ends with all its records in the file.                       *)
CloseLog ==
    /\ open
    /\ stored' = stored \o pending
    /\ pending' = <<>>
    /\ open' = FALSE

NextLog == OpenLog \/ CloseLog \/ Store \/ \E r \in Record : Log(r)

LogSpec == InitLog /\ [][NextLog]_logVars
=============================================================================
