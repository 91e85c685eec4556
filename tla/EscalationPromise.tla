-------------------------- MODULE EscalationPromise --------------------------
(***************************************************************************)
(* What the ladder promises its user, without rows, jobs or timers: the    *)
(* stages are tried in order, a stage never being tried before every       *)
(* quieter one, and once the user has silenced the notification no caller  *)
(* starts trying another.                                                  *)
(***************************************************************************)
EXTENDS Integers

CONSTANTS Callers, MaxStage

VARIABLES
  tried,     \* the stages with a recorded attempt
  silenced,  \* the user acknowledged, resolved or paused, and it still holds
  calling    \* callers that may be using a channel, each for one stage

vars == << tried, silenced, calling >>

Init == tried = {} /\ silenced = FALSE /\ calling = {}

Begin(c) ==
  /\ ~silenced
  /\ c \notin calling
  /\ calling' = calling \cup {c}
  /\ UNCHANGED << tried, silenced >>

Try(c) ==
  /\ c \in calling
  /\ calling' = calling \ {c}
  /\ \E s \in 0..MaxStage : 0..(s - 1) \subseteq tried /\ tried' = tried \cup {s}
  /\ UNCHANGED silenced

GiveUp(c) ==
  /\ c \in calling
  /\ calling' = calling \ {c}
  /\ UNCHANGED << tried, silenced >>

ChangeSilence == silenced' = ~silenced /\ UNCHANGED << tried, calling >>

Next == ChangeSilence \/ \E c \in Callers : Begin(c) \/ Try(c) \/ GiveUp(c)

Spec == Init /\ [][Next]_vars
=============================================================================
