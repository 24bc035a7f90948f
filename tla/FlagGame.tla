------------------------------- MODULE FlagGame --------------------------------
(* What the players are told of a game of capture the flag: each flag is at its   *)
(* base, on the ground or with one player, whoever he is and wherever he plays;   *)
(* captures count once; a new game starts from nothing.                           *)
EXTENDS Integers

CONSTANT Player

VARIABLES holder,  \* flag -> "base", "ground" or a player
          score    \* team -> captures

Flag == DOMAIN holder

(* Players carry one flag at most.                                                *)
Free(p) == \A f \in Flag : holder[f] # p

FlagsAtBase == [f \in Flag |-> "base"]

Init == (\A f \in Flag : holder[f] = "base") /\ score = [t \in {0, 1} |-> 0]

Take(f, p) ==
  /\ holder[f] \in {"base", "ground"} /\ Free(p)
  /\ holder' = [holder EXCEPT ![f] = p]
  /\ UNCHANGED score

(* Those who die, leave, change teams or want to, drop their flags.               *)
Drop(F) ==
  /\ \A f \in F : holder[f] \in Player
  /\ holder' = [f \in Flag |-> IF f \in F THEN "ground" ELSE holder[f]]
  /\ UNCHANGED score

Return(f) ==
  /\ holder[f] = "ground"
  /\ holder' = [holder EXCEPT ![f] = "base"]
  /\ UNCHANGED score

(* A player brings flag f to flag g: both go home.                                *)
Capture(f, g, t) ==
  /\ f # g /\ holder[f] \in Player
  /\ holder' = [holder EXCEPT ![f] = "base", ![g] = "base"]
  /\ score' = [score EXCEPT ![t] = @ + 1]

(* A point for keeping a flag.                                                    *)
Point(f, t) ==
  /\ holder[f] \in Player
  /\ score' = [score EXCEPT ![t] = @ + 1]
  /\ UNCHANGED holder

NewGame == holder' = FlagsAtBase /\ score' = [t \in {0, 1} |-> 0]

Next ==
  \/ \E f \in Flag, p \in Player : Take(f, p)
  \/ \E F \in SUBSET Flag : Drop(F)
  \/ \E f \in Flag : Return(f)
  \/ \E f, g \in Flag, t \in {0, 1} : Capture(f, g, t)
  \/ \E f \in Flag, t \in {0, 1} : Point(f, t)
  \/ NewGame

Spec == Init /\ [][Next]_<<holder, score>>
================================================================================
