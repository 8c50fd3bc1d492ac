---------------------------- MODULE LakeLocalStore ----------------------------
(***************************************************************************)
(* put_json_if on a local directory (src/backend/src/lake/store.rs): the   *)
(* comparison and the put are guarded by a lock file of the key.           *)
(*                                                                         *)
(* The file says nothing of who created it.  Whoever finds it older than   *)
(* thirty seconds removes it, and the drop of a guard removes whichever    *)
(* file is there.                                                          *)
(***************************************************************************)
EXTENDS Naturals

CONSTANTS
  Writers, None, Replaces(_, _, _),   \* as in LakePutIf
  MaxTries                            \* rounds of LocalKeyLock::acquire

ASSUME LocalAssumption == None \notin Writers /\ MaxTries \in Nat

VARIABLES
  value,     \* the object, named by the writer that put it
  lock,      \* the lock file, named by the writer that created it
  old,       \* the lock file is more than thirty seconds old
  pc,        \* the next step of each writer
  tries,     \* rounds of acquire it has used
  seen,      \* the object it had read before the call
  answer,    \* the answer it has worked out
  stolen     \* ghost: a lock file was removed under its running owner

vars == <<value, lock, old, pc, tries, seen, answer, stolen>>

PcStates == {"idle", "acquire", "remove", "check", "write", "unlock",
             "done", "crashed"}

\* From the creation of the lock file to the drop of the guard.
Holding == {"check", "write", "unlock"}

GoTo(w, step) == pc' = [pc EXCEPT ![w] = step]
Answered(w, a) == answer' = [answer EXCEPT ![w] = a]

Init ==
  /\ value = None /\ lock = None /\ old = FALSE /\ stolen = FALSE
  /\ pc = [w \in Writers |-> "idle"]
  /\ tries = [w \in Writers |-> 0]
  /\ seen = [w \in Writers |-> None]
  /\ answer = [w \in Writers |-> "idle"]

\* The caller has read the object and calls put_json_if.
Call(w) ==
  /\ pc[w] = "idle"
  /\ seen' = [seen EXCEPT ![w] = value]
  /\ GoTo(w, "acquire")
  /\ Answered(w, "pending")
  /\ UNCHANGED <<value, lock, old, tries, stolen>>

\* Mutated form of Create: the file is opened without create_new.
CreateAnyway(w) ==
  /\ pc[w] = "acquire" /\ tries[w] < MaxTries
  /\ lock' = w /\ old' = FALSE
  /\ GoTo(w, "check")
  /\ UNCHANGED <<value, tries, seen, answer, stolen>>

Create(w) ==
  /\ pc[w] = "acquire" /\ tries[w] < MaxTries
  /\ lock = None
  /\ lock' = w /\ old' = FALSE
  /\ GoTo(w, "check")
  /\ UNCHANGED <<value, tries, seen, answer, stolen>>

\* Mutated forms of Wait: the loop has one round too many, or no end.
WaitOnceMore(w) ==
  /\ pc[w] = "acquire" /\ tries[w] <= MaxTries
  /\ lock # None
  /\ tries' = [tries EXCEPT ![w] = @ + 1]
  /\ GoTo(w, IF old THEN "remove" ELSE "acquire")
  /\ UNCHANGED <<value, lock, old, seen, answer, stolen>>

WaitForever(w) ==
  /\ pc[w] = "acquire"
  /\ lock # None
  /\ GoTo(w, IF old THEN "remove" ELSE "acquire")
  /\ UNCHANGED <<value, lock, old, tries, seen, answer, stolen>>

\* The file exists: stat it, and sleep or go on to remove it.  A file that is
\* gone when it is to be stat'ed is one that RemoveOld fails to remove.
Wait(w) ==
  /\ pc[w] = "acquire" /\ tries[w] < MaxTries
  /\ lock # None
  /\ tries' = [tries EXCEPT ![w] = @ + 1]
  /\ GoTo(w, IF old THEN "remove" ELSE "acquire")
  /\ UNCHANGED <<value, lock, old, seen, answer, stolen>>

Steals(w) == lock \in Writers \ {w} /\ pc[lock] \in Holding

\* remove_file takes whichever lock file is there, or fails and leaves it.
RemovesLock(w) ==
  \/ lock' = None /\ old' = FALSE /\ stolen' = (stolen \/ Steals(w))
  \/ UNCHANGED <<lock, old, stolen>>

\* The file has been found old, some time ago.
RemoveOld(w) ==
  /\ pc[w] = "remove"
  /\ RemovesLock(w)
  /\ GoTo(w, "acquire")
  /\ UNCHANGED <<value, tries, seen, answer>>

\* An error other than that the file exists.
OpenFails(w) ==
  /\ pc[w] = "acquire" /\ tries[w] < MaxTries
  /\ Answered(w, "failed")
  /\ GoTo(w, "done")
  /\ UNCHANGED <<value, lock, old, tries, seen, stolen>>

\* "timed out acquiring lake key lock"
GiveUp(w) ==
  /\ pc[w] = "acquire" /\ tries[w] = MaxTries
  /\ Answered(w, "failed")
  /\ GoTo(w, "done")
  /\ UNCHANGED <<value, lock, old, tries, seen, stolen>>

\* Mutated form of Check: the condition is asked of the caller's earlier copy.
CheckSeen(w) ==
  /\ pc[w] = "check"
  /\ \/ Replaces(w, seen[w], seen[w]) /\ GoTo(w, "write") /\ UNCHANGED answer
     \/ ~Replaces(w, seen[w], seen[w]) /\ GoTo(w, "unlock")
        /\ Answered(w, "refused")
  /\ UNCHANGED <<value, lock, old, tries, seen, stolen>>

\* The object is read again under the lock.
Check(w) ==
  /\ pc[w] = "check"
  /\ \/ /\ Replaces(w, seen[w], value)
        /\ GoTo(w, "write")
        /\ UNCHANGED answer
     \/ /\ ~Replaces(w, seen[w], value)
        /\ GoTo(w, "unlock")
        /\ Answered(w, "refused")
  /\ UNCHANGED <<value, lock, old, tries, seen, stolen>>

Write(w) ==
  /\ pc[w] = "write"
  /\ value' = w
  /\ Answered(w, "replaced")
  /\ GoTo(w, "unlock")
  /\ UNCHANGED <<lock, old, tries, seen, stolen>>

\* An error of the read or of the put; a put may fail after its rename.
Fail(w) ==
  /\ \/ pc[w] \in {"check", "write"} /\ UNCHANGED value
     \/ pc[w] = "write" /\ value' = w
  /\ Answered(w, "failed")
  /\ GoTo(w, "unlock")
  /\ UNCHANGED <<lock, old, tries, seen, stolen>>

\* The drop of the guard; an error of it is ignored.
Unlock(w) ==
  /\ pc[w] = "unlock"
  /\ RemovesLock(w)
  /\ GoTo(w, "done")
  /\ UNCHANGED <<value, tries, seen, answer>>

\* The process dies and the lock file stays.
Crash(w) ==
  /\ pc[w] \in Holding
  /\ GoTo(w, "crashed")
  /\ UNCHANGED <<value, lock, old, tries, seen, answer, stolen>>

\* Thirty seconds pass, also while the owner is at work.
LockAges ==
  /\ lock # None /\ ~old
  /\ old' = TRUE
  /\ UNCHANGED <<value, lock, pc, tries, seen, answer, stolen>>

Step(w) ==
  \/ Create(w) \/ Wait(w) \/ RemoveOld(w) \/ GiveUp(w)
  \/ Check(w) \/ Write(w) \/ Unlock(w)

Next ==
  \/ \E w \in Writers : Call(w) \/ Step(w) \/ OpenFails(w) \/ Fail(w) \/ Crash(w)
  \/ LockAges

Spec == Init /\ [][Next]_vars

\* A running process goes on.
FairSpec == Spec /\ \A w \in Writers : WF_vars(Step(w))

-----------------------------------------------------------------------------
(* Properties. *)

LTypeOK ==
  /\ value \in Writers \cup {None} /\ lock \in Writers \cup {None}
  /\ old \in BOOLEAN /\ stolen \in BOOLEAN
  /\ pc \in [Writers -> PcStates]
  /\ tries \in [Writers -> 0 .. MaxTries]
  /\ seen \in [Writers -> Writers \cup {None}]
  /\ answer \in [Writers ->
                   {"idle", "pending", "replaced", "refused", "failed"}]

\* Two processes are inside the lock only after a lock file was removed under
\* a running owner: the files of the dead are removed and created again by any
\* number of processes without that.
LockExcludes ==
  stolen \/ \A v, w \in Writers :
              pc[v] \in Holding /\ pc[w] \in Holding => v = w

\* serving_bundle_release.md says of the mutating commands, which publish with
\* put_json_if: "A corrupt snapshot, structural error, empty projected
\* property set, or CAS conflict leaves `dev` unchanged."
ConflictLeavesUnchanged ==
  [][value' # value =>
       \E w \in Writers : value' = w /\ Replaces(w, seen[w], value)]_vars

-----------------------------------------------------------------------------
(* The inductive strengthening behind the safety properties above. *)

\* Until a lock is stolen, the lock file is that of whoever is inside, and the
\* object still is the one it has compared.
OwnerFacts(w) ==
  /\ pc[w] \in Holding => lock = w
  /\ pc[w] = "write" => Replaces(w, seen[w], value)

\* The answer is open until the last step that can change it.
AnswerFacts(w) ==
  /\ pc[w] = "idle" => answer[w] = "idle"
  /\ pc[w] \in {"acquire", "remove", "check", "write"} => answer[w] = "pending"

LInv ==
  /\ LTypeOK
  /\ \A w \in Writers : AnswerFacts(w)
  /\ stolen \/ \A w \in Writers : OwnerFacts(w)

-----------------------------------------------------------------------------
PutIf == INSTANCE LakePutIf

\* Until a lock is stolen the lock file makes the comparison and the put one
\* step, also when owners are slow, fail or die on the way.
ImplementsPutIf ==
  /\ PutIf!PutInit
  /\ [][~stolen' => [PutIf!PutNext]_(PutIf!putVars)]_vars

\* No call waits forever, whoever has died with the lock.
CallIsAnswered ==
  \A w \in Writers :
    pc[w] = "acquire" ~> answer[w] # "pending" \/ pc[w] = "crashed"
=============================================================================
