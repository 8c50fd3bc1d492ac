------------------------------ MODULE LakePutIf ------------------------------
(***************************************************************************)
(* What put_json_if promises for one key of the lake, and what the catalog *)
(* control plane takes for granted: the object is replaced in the instant  *)
(* in which the caller's condition holds of it.                            *)
(***************************************************************************)

CONSTANTS
  Writers,             \* the callers of put_json_if, one put each
  None,                \* the absent object
  Replaces(_, _, _)    \* the condition: of writer, of the object it had
                       \* read before the call, of the object in the lake

VARIABLES
  value,    \* the object, named by the writer that put it
  seen,     \* the object each writer had read before it called
  answer    \* the answer to each writer

putVars == <<value, seen, answer>>

Answers == {"idle", "pending", "replaced", "refused", "failed"}

PutInit ==
  /\ value = None
  /\ seen = [w \in Writers |-> None]
  /\ answer = [w \in Writers |-> "idle"]

Answered(w, a) == answer' = [answer EXCEPT ![w] = a]

Call(w) ==
  /\ answer[w] = "idle"
  /\ seen' = [seen EXCEPT ![w] = value]
  /\ Answered(w, "pending")
  /\ UNCHANGED value

Replace(w) ==
  /\ answer[w] = "pending"
  /\ Replaces(w, seen[w], value)
  /\ value' = w
  /\ Answered(w, "replaced")
  /\ UNCHANGED seen

Refuse(w) ==
  /\ answer[w] = "pending"
  /\ ~Replaces(w, seen[w], value)
  /\ Answered(w, "refused")
  /\ UNCHANGED <<value, seen>>

\* An error, which may reach the caller although the object was replaced.
Err(w) ==
  /\ answer[w] = "pending"
  /\ \/ UNCHANGED value
     \/ Replaces(w, seen[w], value) /\ value' = w
  /\ Answered(w, "failed")
  /\ UNCHANGED seen

PutNext == \E w \in Writers : Call(w) \/ Replace(w) \/ Refuse(w) \/ Err(w)

PutSpec == PutInit /\ [][PutNext]_putVars
=============================================================================
