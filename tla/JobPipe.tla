------------------------------- MODULE JobPipe -------------------------------
(***************************************************************************)
(* What asset_loader.h:18-58 promises of load jobs, without threads,       *)
(* mutex or condition variable: a job comes out once, in the order the     *)
(* jobs went in, unless its name is cancelled or the pipe is closed.  A    *)
(* cancellation may miss one job: the one being worked on.                 *)
(***************************************************************************)
EXTENDS Naturals, Sequences

CONSTANTS
  Id,
  What    \* what a job is for: its kind and its name

VARIABLES
  pending,   \* the jobs submitted and not delivered, oldest first
  done       \* the ids of the delivered jobs

vars == <<pending, done>>

Init == pending = <<>> /\ done = {}

Submit(id, what) ==
  /\ id \notin done
  /\ \A i \in DOMAIN pending : pending[i].id < id
  /\ pending' = Append(pending, [id |-> id, what |-> what])
  /\ UNCHANGED done

Deliver(n) ==
  /\ pending' = SubSeq(pending, n + 1, Len(pending))
  /\ done' = done \cup {pending[i].id : i \in 1..n}

(* n jobs are kept, in their order: those for anything else, and at most   *)
(* one that it misses.                                                     *)
Cancel(what) ==
  /\ \E n \in 0..Len(pending) : \E kept \in [1..n -> DOMAIN pending] :
       /\ \A i, j \in 1..n : i < j => kept[i] < kept[j]
       /\ \A k \in DOMAIN pending : pending[k].what # what => \E i \in 1..n : kept[i] = k
       /\ \A i, j \in 1..n :
            pending[kept[i]].what = what /\ pending[kept[j]].what = what => i = j
       /\ pending' = [i \in 1..n |-> pending[kept[i]]]
  /\ UNCHANGED done

Close ==
  /\ pending' = <<>>
  /\ UNCHANGED done

Next ==
  \/ \E id \in Id, what \in What : Submit(id, what)
  \/ \E n \in 1..Len(pending) : Deliver(n)
  \/ \E what \in What : Cancel(what)
  \/ Close

Spec == Init /\ [][Next]_vars
=============================================================================
