--------------------------- MODULE BufferLifetime ---------------------------
(***************************************************************************)
(* What audio_engine.h:21-27 promises about a decoded buffer, without      *)
(* threads, queues or slots: it is loaded, lent to users, retired by its   *)
(* owner, and its memory is reclaimed only when nobody borrows it.         *)
(***************************************************************************)
CONSTANT Buffer

VARIABLES
  phase,     \* Buffer -> "free", "loaded" or "retired"
  borrowed   \* the buffers some voice or pending command refers to

vars == <<phase, borrowed>>

Init ==
  /\ phase = [b \in Buffer |-> "free"]
  /\ borrowed = {}

Load(b) ==
  /\ phase[b] = "free"
  /\ phase' = [phase EXCEPT ![b] = "loaded"]
  /\ UNCHANGED borrowed

(* Only a loaded buffer can be lent: a retired one gets no new user.       *)
Lend(b) ==
  /\ phase[b] = "loaded"
  /\ borrowed' = borrowed \cup {b}
  /\ UNCHANGED phase

GiveBack ==
  /\ borrowed' \in SUBSET borrowed
  /\ UNCHANGED phase

(* The owner lets go; the users may still be reading.                      *)
Retire(b) ==
  /\ phase[b] = "loaded"
  /\ phase' = [phase EXCEPT ![b] = "retired"]
  /\ UNCHANGED borrowed

(* Memory goes only from retired buffers that nobody borrows.              *)
Reclaim(S) ==
  /\ \A b \in S : phase[b] = "retired"
  /\ S \cap borrowed = {}
  /\ phase' = [b \in Buffer |-> IF b \in S THEN "free" ELSE phase[b]]
  /\ UNCHANGED borrowed

(* The device is closed: users and memory go together.                     *)
Close ==
  /\ phase' = [b \in Buffer |-> "free"]
  /\ borrowed' = {}

Next ==
  \/ \E b \in Buffer : Load(b) \/ Lend(b) \/ Retire(b)
  \/ \E S \in SUBSET Buffer : Reclaim(S)
  \/ GiveBack
  \/ Close

Spec == Init /\ [][Next]_vars
=============================================================================
