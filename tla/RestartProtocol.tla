-------------------------- MODULE RestartProtocol ---------------------------
(***************************************************************************)
(* What the shell promises about automatic restarts, without threads,      *)
(* locks or tokens.  One attempt to bring the sidecar up at a time; every  *)
(* failure is answered by exactly one verdict; a restart is granted only   *)
(* within the budget and costs one unit of it; a verdict of "exhausted" is *)
(* final; once the application is closing nothing comes back up.           *)
(*                                                                         *)
(* Two ways out are part of the promise because the code has them: a       *)
(* restart whose timer thread cannot be created is dropped (`Lose`), and   *)
(* the budget may be refilled at any time (`Refill`): the reset that       *)
(* follows a stable minute is not tied to the episode that earned it.      *)
(***************************************************************************)
EXTENDS Naturals

CONSTANT Budget  (* a natural number: RestartPolicy::max_attempts *)

VARIABLES phase, used

Phases == { "starting", "up", "failed", "waiting", "gaveUp", "dropped",
            "closing" }

Init == phase = "starting" /\ used = 0

Move(from, to) == phase = from /\ phase' = to /\ UNCHANGED used

Succeed == Move("starting", "up")
Fail    == Move("starting", "failed") \/ Move("up", "failed")
Grant   == /\ phase = "failed" /\ phase' = "waiting"
           /\ used < Budget /\ used' = used + 1
GiveUp  == used >= Budget /\ Move("failed", "gaveUp")
Retry   == Move("waiting", "starting")
Lose    == Move("waiting", "dropped")
Refill  == used' = 0 /\ UNCHANGED phase
Close   == phase' = "closing" /\ UNCHANGED used
(* A failure already being counted when the application closes still is. *)
Count   == phase = "closing" /\ used < Budget /\ used' = used + 1
             /\ UNCHANGED phase

Next == \/ Succeed \/ Fail \/ Grant \/ GiveUp \/ Retry \/ Lose
        \/ Refill \/ Close \/ Count

Spec == Init /\ [][Next]_<< phase, used >>
=============================================================================
