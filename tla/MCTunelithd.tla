---------------------------- MODULE MCTunelithd ----------------------------
(***************************************************************************)
(* Small instances of Tunelithd for TLC.  Tuner a receives both sets of    *)
(* parameters, b only the first, as a board of mixed tuners does.          *)
(***************************************************************************)
EXTENDS Tunelithd, TLC

CONSTANTS a, b, c1, c2, p1, p2

MCTuners   == {a, b}
MCReceives == {<<a, p1>>, <<a, p2>>, <<b, p1>>}

AskFor(c, p, t) == [client |-> c, params |-> p, tuner |-> t, lnb |-> FALSE]

\* Any tuner for p1 from either client, tuner a by name for p1, and p2, which
\* only a receives.
MCAsks == {AskFor(c1, p1, None), AskFor(c2, p1, None), AskFor(c1, p1, a),
           AskFor(c2, p2, None)}

\* Two clients after one tuner, each on parameters of its own.
OneTuner    == {a}
OneReceives == {<<a, p1>>, <<a, p2>>}
OneAsks     == {AskFor(c1, p1, None), AskFor(c2, p2, None)}

\* Two clients after one stream, the second with the LNB, for LnbIsPowered.
LnbAsks == {AskFor(c1, p1, None), [AskFor(c2, p1, None) EXCEPT !.lnb = TRUE]}

Symmetry == Permutations(Requests)

=============================================================================
