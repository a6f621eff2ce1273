--------------------------- MODULE EnergyAccounting ---------------------------
(***************************************************************************)
(* What a counter of energy promises, whatever its source does: it takes    *)
(* the energy of a day and of a month in pieces that follow one another,    *)
(* never reaches back behind what it has accounted for, and never takes     *)
(* more than a piece holds.  It may leave energy out.  What is saved may be *)
(* taken up again later, and so may be nothing.                             *)
(***************************************************************************)
EXTENDS Naturals

VARIABLES
    used,      \* energy that has been used
    account,   \* the day's and the month's energy, and the point up to which it goes
    saved      \* the account as it was saved

vars == <<used, account, saved>>

Nothing == [day |-> 0, month |-> 0, upto |-> 0]

Init == used = 0 /\ account = Nothing /\ saved = Nothing

Use == used' > used /\ UNCHANGED <<account, saved>>

\* The periods a step begins: none, a day, or a day with a month.
Begin(a) == {a} \union {[day |-> 0, month |-> m, upto |-> a.upto] : m \in {a.month, 0}}

\* The account a after the next piece, up to the point p, of which n is taken.
Taken(a, p, n) == [day |-> a.day + n, month |-> a.month + n, upto |-> p]

Account ==
    /\ UNCHANGED <<used, saved>>
    /\ \E a \in Begin(account) : \E p \in a.upto .. used : \E n \in 0 .. p - a.upto :
          account' = Taken(a, p, n)

Save == saved' = account /\ UNCHANGED <<used, account>>

Resume == account' \in {saved, Nothing} /\ UNCHANGED <<used, saved>>

Next == Use \/ Save \/ Resume \/ Account

Spec == Init /\ [][Next]_vars
===============================================================================
