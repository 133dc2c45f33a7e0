---------------------------- MODULE WriteBehind ----------------------------
(***************************************************************************)
(* What a leaderboard with write-behind promises: a write takes effect on  *)
(* the board at once and is appended to the writes that the table has yet  *)
(* to receive; these are saved one at a time, oldest first.                *)
(***************************************************************************)
EXTENDS Integers, Sequences

CONSTANTS Players, None

VARIABLES
    board,    \* score of each player, None when it has none
    pending,  \* writes not yet saved, oldest first
    saved     \* the scores in the table

Scores == Int \cup {None}

Init ==
    /\ board = [p \in Players |-> None]
    /\ pending = <<>>
    /\ saved = [p \in Players |-> None]

Write ==
    /\ \E p \in Players :
          LET score == board'[p]
          IN  /\ score \in Scores
              /\ board' = [board EXCEPT ![p] = score]
              /\ pending' = Append(pending, [player |-> p, score |-> score])
    /\ UNCHANGED saved

Save ==
    /\ pending # <<>>
    /\ saved' = [saved EXCEPT ![Head(pending).player] = Head(pending).score]
    /\ pending' = Tail(pending)
    /\ UNCHANGED board

Next == Write \/ Save
Spec == Init /\ [][Next]_<<board, pending, saved>>
=============================================================================
