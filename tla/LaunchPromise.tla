---------------------------- MODULE LaunchPromise ----------------------------
(***************************************************************************)
(* What the launch functions of the driver promise, apart from registers   *)
(* and polling: a call accepts a sequence of jobs, the accelerator         *)
(* completes them one at a time in that order, and a call that blocks      *)
(* returns only when none is left.  The next call waits for the last job.  *)
(***************************************************************************)
EXTENDS Sequences

CONSTANT Jobs

VARIABLES
  busy,      \* a launch has not returned
  async,     \* the last launch need not wait for its job
  todo,      \* jobs accepted and not completed
  done       \* jobs completed since the acceptance

Init == busy = FALSE /\ async = FALSE /\ todo = << >> /\ done = << >>

(* A launch, or a restart of the job last programmed, which does not block. *)
Accept ==
  /\ ~busy /\ todo = << >>
  /\ todo' \in Seq(Jobs) /\ todo' # << >>
  /\ busy' \in BOOLEAN /\ async' \in BOOLEAN
  /\ done' \in {<< >>, done}

Complete ==
  /\ todo # << >>
  /\ todo' = Tail(todo)
  /\ done' = Append(done, Head(todo))
  /\ UNCHANGED <<busy, async>>

Return ==
  /\ busy /\ (async \/ todo = << >>)
  /\ busy' = FALSE
  /\ UNCHANGED <<async, todo, done>>

Next == Accept \/ Complete \/ Return

Spec == Init /\ [][Next]_<<busy, async, todo, done>>
=============================================================================
