------------------------------- MODULE MC_Kcp -------------------------------
(* One end sends, the other reads: a message of two fragments and one of   *)
(* one, through windows of two segments; or one message that is too long.  *)
EXTENDS Kcp

CONSTANTS a, b

Ends == {a, b}
TwoMessages == (a :> <<1, 2>>) @@ (b :> <<>>)

\* One message of more fragments than the other end's window has segments.
TooLong == (a :> <<2>>) @@ (b :> <<>>)
=============================================================================
