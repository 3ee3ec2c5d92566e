---------------------------- MODULE MCEffectReplay ----------------------------
(* Programs for model checking EffectReplay. *)
EXTENDS EffectReplay

Few(S) == {{}} \cup {{c} : c \in S}

\* Every way to make calls after others, in one cell or in several.
Orders(calls) ==
    {after \in [calls -> SUBSET calls] : \A c \in calls : after[c] \subseteq 1..(c - 1)}
Cellings(calls) ==
    {cells \in [calls -> 1..MaxCell] :
       cells[1] = 1 /\ \A c, d \in calls : c < d => cells[c] <= cells[d]}
Layouts(calls) ==
    {x \in {<<after, cells>> : after \in Orders(calls), cells \in Cellings(calls)} :
       \A c \in calls : \A d \in x[1][c] : x[2][d] = x[2][c]}

\* One call may be synchronous, fail, or both; one call, or all of them, may be
\* left without an await.
ProgramsOf(calls) ==
    {[cell |-> x[2], after |-> x[1], sync |-> y[1], fails |-> y[2],
      awaited |-> calls \ u] :
        x \in Layouts(calls), u \in Few(calls) \cup {calls},
        y \in {z \in Few(calls) \X Few(calls) : Cardinality(z[1] \cup z[2]) <= 1}}

AllPrograms == ProgramsOf(1..4)

\* Two concurrent chains, of two and three calls.
TwoChainPrograms ==
    {[cell |-> [c \in 1..5 |-> 1], after |-> <<{}, {}, {2}, {3}, {1}>>,
      sync |-> {}, fails |-> {}, awaited |-> 1..5]}
===============================================================================
