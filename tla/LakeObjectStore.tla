---------------------------- MODULE LakeObjectStore ----------------------------
(***************************************************************************)
(* put_json_if on an object store (src/backend/src/lake/store.rs): read    *)
(* the object with its version, compare, and put on condition that the     *)
(* version is still that one; after a conflict, again, eight times at      *)
(* most.                                                                   *)
(***************************************************************************)
EXTENDS Naturals

CONSTANTS
  Writers, None, Replaces(_, _, _),   \* as in LakePutIf
  MaxRounds                           \* rounds of put_json_if

ASSUME ObjectAssumption == None \notin Writers /\ MaxRounds \in Nat

VARIABLES
  value,     \* the object, named by the writer that put it
  version,   \* its version or e_tag: one more for every put
  pc,        \* the next step of each writer
  rounds,    \* conflicts it has met
  got,       \* the version it has read
  seen,      \* the object it had read before the call
  answer     \* the answer it was given

vars == <<value, version, pc, rounds, got, seen, answer>>

GoTo(w, step) == pc' = [pc EXCEPT ![w] = step]
Answers(w, a) == answer' = [answer EXCEPT ![w] = a] /\ GoTo(w, "done")

Init ==
  /\ value = None /\ version = 0
  /\ pc = [w \in Writers |-> "idle"]
  /\ rounds = [w \in Writers |-> 0]
  /\ got = [w \in Writers |-> 0]
  /\ seen = [w \in Writers |-> None]
  /\ answer = [w \in Writers |-> "idle"]

\* The caller has read the object and calls put_json_if.
Call(w) ==
  /\ pc[w] = "idle"
  /\ seen' = [seen EXCEPT ![w] = value]
  /\ answer' = [answer EXCEPT ![w] = "pending"]
  /\ GoTo(w, "get")
  /\ UNCHANGED <<value, version, rounds, got>>

\* Mutated form of Get: the loop has one round too many.
GetOnceMore(w) ==
  /\ pc[w] = "get" /\ rounds[w] <= MaxRounds
  /\ IF Replaces(w, seen[w], value)
       THEN got' = [got EXCEPT ![w] = version] /\ GoTo(w, "put")
            /\ UNCHANGED answer
       ELSE Answers(w, "refused") /\ UNCHANGED got
  /\ UNCHANGED <<value, version, rounds, seen>>

\* An absent object has version 0 and is put with PutMode::Create.
Get(w) ==
  /\ pc[w] = "get" /\ rounds[w] < MaxRounds
  /\ IF Replaces(w, seen[w], value)
       THEN /\ got' = [got EXCEPT ![w] = version]
            /\ GoTo(w, "put")
            /\ UNCHANGED answer
       ELSE /\ Answers(w, "refused")
            /\ UNCHANGED got
  /\ UNCHANGED <<value, version, rounds, seen>>

\* Mutated form of Put: the condition on the version is left out.
PutAnyway(w) ==
  /\ pc[w] = "put"
  /\ value' = w /\ version' = version + 1
  /\ Answers(w, "replaced")
  /\ UNCHANGED <<rounds, got, seen>>

Put(w) ==
  /\ pc[w] = "put"
  /\ got[w] = version
  /\ value' = w /\ version' = version + 1
  /\ Answers(w, "replaced")
  /\ UNCHANGED <<rounds, got, seen>>

\* Mutated form of Conflict: it is counted twice.
ConflictTwice(w) ==
  /\ pc[w] = "put"
  /\ got[w] # version
  /\ rounds' = [rounds EXCEPT ![w] = @ + 2]
  /\ GoTo(w, "get")
  /\ UNCHANGED <<value, version, got, seen, answer>>

\* AlreadyExists or Precondition: another put came first.
Conflict(w) ==
  /\ pc[w] = "put"
  /\ got[w] # version
  /\ rounds' = [rounds EXCEPT ![w] = @ + 1]
  /\ GoTo(w, "get")
  /\ UNCHANGED <<value, version, got, seen, answer>>

\* "conditional update contention"
GiveUp(w) ==
  /\ pc[w] = "get" /\ rounds[w] = MaxRounds
  /\ Answers(w, "contended")
  /\ UNCHANGED <<value, version, rounds, got, seen>>

\* An error of the store; the answer to a put that took effect may be lost.
Fail(w) ==
  /\ \/ pc[w] \in {"get", "put"} /\ UNCHANGED <<value, version>>
     \/ pc[w] = "put" /\ got[w] = version /\ value' = w /\ version' = version + 1
  /\ Answers(w, "failed")
  /\ UNCHANGED <<rounds, got, seen>>

Step(w) == Get(w) \/ Put(w) \/ Conflict(w) \/ GiveUp(w)

Next == \E w \in Writers : Call(w) \/ Step(w) \/ Fail(w)

Spec == Init /\ [][Next]_vars

-----------------------------------------------------------------------------
(* Properties. *)

OTypeOK ==
  /\ value \in Writers \cup {None}
  /\ version \in Nat
  /\ pc \in [Writers -> {"idle", "get", "put", "done"}]
  /\ rounds \in [Writers -> 0 .. MaxRounds]
  /\ got \in [Writers -> Nat]
  /\ seen \in [Writers -> Writers \cup {None}]
  /\ answer \in [Writers -> {"idle", "pending", "replaced", "refused",
                             "failed", "contended"}]

\* A put gives up only after that many puts of others have gone through.
LosesToOthersOnly == \A w \in Writers : rounds[w] <= version

\* The abstract call does not tell contention from other errors.
PutAnswers ==
  [w \in Writers |-> IF answer[w] = "contended" THEN "failed" ELSE answer[w]]

PutIf == INSTANCE LakePutIf WITH answer <- PutAnswers

-----------------------------------------------------------------------------
(* The inductive strengthening behind LosesToOthersOnly and ImplementsPutIf. *)

\* What a writer has read is the condition's object until a newer version is
\* there, and it has met no more conflicts than there were puts before that.
ReadFacts(w) ==
  /\ pc[w] = "idle" => answer[w] = "idle"
  /\ pc[w] \in {"get", "put"} => answer[w] = "pending"
  /\ rounds[w] <= version
  /\ pc[w] = "put" => rounds[w] <= got[w] /\ rounds[w] < MaxRounds
  /\ got[w] <= version
  /\ pc[w] = "put" /\ got[w] = version => Replaces(w, seen[w], value)

OInv == OTypeOK /\ \A w \in Writers : ReadFacts(w)

-----------------------------------------------------------------------------
\* The loop makes the comparison and the put one step, whatever fails.
ImplementsPutIf == PutIf!PutSpec
=============================================================================
