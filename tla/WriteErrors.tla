----------------------------- MODULE WriteErrors -----------------------------
(***************************************************************************)
(* How an error of a write is classified (internal/errors/types.go) and    *)
(* which classes the dead-letter writer quarantines                        *)
(* (internal/writer/deadletter.go).                                        *)
(*                                                                         *)
(* An error is either raw, as a database call returned it: an SQLSTATE, a  *)
(* context error or something else (a refused connection, a mapping        *)
(* error); or a ProcessingError, represented by its Kind.                  *)
(***************************************************************************)

TransientStates == {"40P01", "40001", "55P03", "57014", "53300", "57P01"}
AlreadyStates   == {"23505"}
PermanentStates == {"23503", "23502", "23514"}

Kinds == {"transient", "permanent", "already"}

\* The server's other answers, a context error, and errors that are not the server's.
RawErrors == TransientStates \union AlreadyStates \union PermanentStates
               \union {"42P01", "context", "unreachable"}

NoError == "nil"

Classify(e) ==
  CASE e \in TransientStates -> "transient"
    [] e \in AlreadyStates   -> "already"
    [] e \in PermanentStates -> "permanent"
    [] OTHER                 -> e     \* nil, ProcessingError, context, unclassified

\* Mutant: whatever is not permanent is put aside.
BugShouldQuarantine(e) == e # NoError /\ e \notin {"permanent", "already"}

ShouldQuarantine(e) == e = "transient"
=============================================================================
