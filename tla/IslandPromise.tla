---------------------------- MODULE IslandPromise ----------------------------
(***************************************************************************)
(* What the configuration controller promises about each island of the     *)
(* FPGA, apart from files, words and rows: a module is in service only     *)
(* when its frames are there as a whole and the system is coupled to them; *)
(* an island in service is not touched before it has been released; frames *)
(* are torn up and filled behind the decoupler, and the decoupler is not   *)
(* released in between.  A process that dies takes all islands out of      *)
(* service and leaves the hardware as it is.                               *)
(***************************************************************************)
CONSTANTS Islands, Modules,
          NoModule,   \* an island that serves nobody, frames never written
          Torn        \* frames that are neither the old ones nor new ones

VARIABLES serves,     \* the module users are given on an island
          shielded,   \* islands the system is decoupled from
          frames      \* what an island's frames hold

vars == <<serves, shielded, frames>>

Init ==
  /\ serves = [i \in Islands |-> NoModule]
  /\ shielded = [i \in Islands |-> FALSE]
  /\ frames = [i \in Islands |-> NoModule]

Shield(i) ==
  /\ serves[i] = NoModule
  /\ shielded' = [shielded EXCEPT ![i] = TRUE]
  /\ UNCHANGED <<serves, frames>>

Tear(i) ==
  /\ serves[i] = NoModule /\ shielded[i]
  /\ frames' = [frames EXCEPT ![i] = Torn]
  /\ UNCHANGED <<serves, shielded>>

Fill(i, m) ==
  /\ shielded[i] /\ frames[i] = Torn
  /\ frames' = [frames EXCEPT ![i] = m]
  /\ UNCHANGED <<serves, shielded>>

Unshield(i) ==
  /\ shielded[i] /\ frames[i] \in Modules
  /\ shielded' = [shielded EXCEPT ![i] = FALSE]
  /\ UNCHANGED <<serves, frames>>

(* A new module, or the one that a replacement failed to take the place of. *)
Occupy(i) ==
  /\ serves[i] = NoModule /\ ~shielded[i] /\ frames[i] \in Modules
  /\ serves' = [serves EXCEPT ![i] = frames[i]]
  /\ UNCHANGED <<shielded, frames>>

Release(i) ==
  /\ serves' = [serves EXCEPT ![i] = NoModule]
  /\ UNCHANGED <<shielded, frames>>

Forget ==
  /\ serves' = [i \in Islands |-> NoModule]
  /\ UNCHANGED <<shielded, frames>>

Next ==
  \/ \E i \in Islands :
       \/ Shield(i) \/ Tear(i) \/ Unshield(i) \/ Occupy(i) \/ Release(i)
       \/ \E m \in Modules : Fill(i, m)
  \/ Forget

Spec == Init /\ [][Next]_vars
=============================================================================
