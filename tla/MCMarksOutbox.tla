---------------------------- MODULE MCMarksOutbox ----------------------------
(* An instance of MarksOutbox for TLC.                                     *)
EXTENDS MarksOutbox

CONSTANTS u1, u2, t1, t2, m1

\* Tabs are interchangeable, and so are people: the page that is opened first
\* is t1's, and u1 is the first to sign in.
First ==
    /\ tab[t1].life = "new" => tab[t2].life = "new"
    /\ used.signIns = 1 => cookie \in {u1, NoOne}

\* A second sign-in, a list loaded, a mishap: a behaviour has two of them.
TwoOfThree == used.signIns < 2 \/ used.loads = 0 \/ used.events = 0

MCSpec == Init /\ [][Next /\ First' /\ TwoOfThree']_vars /\ Fairness
=============================================================================
