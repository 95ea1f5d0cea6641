------------------------------ MODULE MCAdmission ------------------------------
(* Requests of two users for one program, of two sizes.                        *)
EXTENDS Admission, TLC

CONSTANTS c1, c2, u1, u2, p, s1, s2, fake

Own(pool, delta) == [own |-> TRUE, pool |-> pool, delta |-> delta]
Foreign(pool)    == [own |-> FALSE, pool |-> pool, delta |-> 0]

\* What a request of Edge names, to the lamport; and the quote, which is short
\* of that by just the tolerance, behind a transfer of somebody else.
MCForms == {<<Own("reward", Tolerance), Own("platform", 0)>>,
            <<Foreign("platform"), Own("platform", 0), Own("reward", 0)>>}

AsQuoted == [quoted |-> TRUE, delta |-> 0]

\* As quoted, but for a service fee that is larger by the tolerance; and
\* nothing for anything.
Edge    == [[a \in Amounts |-> AsQuoted] EXCEPT !["service"].delta = Tolerance]
Nothing == [a \in Amounts |-> [quoted |-> FALSE, delta |-> 0]]

MCBodies == {Edge, Nothing}

Symmetry == Permutations({c1, c2}) \cup Permutations({u1, u2})
=============================================================================
