---------------------------- MODULE ReportStore ----------------------------
(***************************************************************************)
(* What the pipelines and the readers of the database may rely on of the   *)
(* Postgres writers together: an instance appears as a whole, through a    *)
(* write of one of its reports, and never disappears; a write that returns *)
(* nil has stored its instance; one that returns an error may have.  The   *)
(* job may be run again from the start at any time, on what is stored.     *)
(***************************************************************************)
CONSTANTS Workers, Reports, InstanceOf, NoReport

VARIABLES report,    \* report[w]: the report that worker w writes, or NoReport
          answer,    \* answer[r]: "none", "nil" or "error"
          stored     \* the instances that the database has

vars == <<report, answer, stored>>

Idle == [w \in Workers |-> NoReport]
Unanswered == [r \in Reports |-> "none"]

Init == report = Idle /\ answer = Unanswered /\ stored = {}

With(w) == stored \union {InstanceOf[report[w]]}

Take(w, r) ==
  /\ report[w] = NoReport /\ answer[r] = "none" /\ \A v \in Workers : report[v] # r
  /\ report' = [report EXCEPT ![w] = r]
  /\ UNCHANGED <<answer, stored>>

\* The commit's answer is lost: the instance is there, the write goes on.
Store(w) ==
  /\ report[w] # NoReport
  /\ stored' = With(w)
  /\ UNCHANGED <<report, answer>>

Return(w, a) ==
  /\ report[w] # NoReport
  /\ report' = [report EXCEPT ![w] = NoReport]
  /\ answer' = [answer EXCEPT ![report[w]] = a]
  /\ a = "nil" => stored' = With(w)
  /\ stored' \in {stored, With(w)}

\* What is stored stays.
Restart == report' = Idle /\ answer' = Unanswered /\ UNCHANGED stored

Next ==
  \/ \E w \in Workers : \/ \E r \in Reports : Take(w, r)
                        \/ Store(w)
                        \/ \E a \in {"nil", "error"} : Return(w, a)
  \/ Restart

Spec == Init /\ [][Next]_vars
=============================================================================
