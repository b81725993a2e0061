------------------------------- MODULE FanIn -------------------------------
(***************************************************************************)
(* What the orchestrator is promised of the work it delegates in a turn:   *)
(* each delegation is run at most once, and the end of the turn's          *)
(* delegations is announced once, after the last of them has ended.        *)
(***************************************************************************)
EXTENDS Naturals

CONSTANTS Turns, JobsOf

VARIABLES
  begun,      \* how often each job was given to a runner
  ended,      \* how often it has ended
  announced   \* how often each turn was announced

vars == <<begun, ended, announced>>

AllJobs == UNION {JobsOf[t] : t \in Turns}

Init == /\ begun = [j \in AllJobs |-> 0]
        /\ ended = [j \in AllJobs |-> 0]
        /\ announced = [t \in Turns |-> 0]

Run(j) ==
  /\ begun[j] = 0
  /\ begun' = [begun EXCEPT ![j] = 1]
  /\ UNCHANGED <<ended, announced>>

End(j) ==
  /\ begun[j] = 1 /\ ended[j] = 0
  /\ ended' = [ended EXCEPT ![j] = 1]
  /\ UNCHANGED <<begun, announced>>

Announce(t) ==
  /\ announced[t] = 0
  /\ \A j \in JobsOf[t] : ended[j] = 1
  /\ announced' = [announced EXCEPT ![t] = 1]
  /\ UNCHANGED <<begun, ended>>

Next == \/ \E j \in AllJobs : Run(j) \/ End(j)
        \/ \E t \in Turns : Announce(t)

Spec == Init /\ [][Next]_vars
=============================================================================
