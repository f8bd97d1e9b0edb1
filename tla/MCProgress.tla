----------------------------- MODULE MCProgress -----------------------------
(* Instances of Progress for TLC.                                          *)
EXTENDS Progress, TLC

CONSTANTS u1, u2, b1, p1, p2, p3

OneBrowser == [p \in Pages |-> b1]

\* How many checkpoints the reader makes in each page.
Checkpoints == [p \in Pages |-> CASE p = p1 -> 2 [] p = p2 -> 0 [] p = p3 -> 1]

ClocksRight == [b \in Browsers |-> 0]
ClocksSlow == [b \in Browsers |-> -1]

\* What is left to happen, everything else being spent.
Bounds == [resets |-> MaxResets, signIns |-> MaxSignIns, signOuts |-> MaxSignOuts,
           losses |-> MaxLosses, deaths |-> MaxDeaths, returns |-> MaxReturns]
Left(kinds) == [k \in DOMAIN Bounds |-> IF k \in kinds THEN 0 ELSE Bounds[k]]

\* Two tabs meet in full; or one tab loses messages while time passes; or two
\* are left and signed out.
Tabs == Unread(MaxClock, {p1, p2}, Left({"signIns", "resets", "returns"}))
Losses == Unread(0, {p1}, Left({"signIns", "losses"}))
Leaving == Unread(MaxClock, {p2, p3}, Left({"signIns", "signOuts", "deaths"}))

MCInit == Tabs \/ Losses \/ Leaving
MCSpec == MCInit /\ [][Next]_vars

\* The people who use a browser are interchangeable.
AccountsAlike == Permutations(Users)
=============================================================================
