-------------------------- MODULE MCRequestTracing --------------------------
EXTENDS RequestTracing, TLC

On  == [tracing |-> TRUE, locations |-> FALSE, rum |-> FALSE]
Loc == [tracing |-> TRUE, locations |-> TRUE, rum |-> FALSE]
Off == [tracing |-> FALSE, locations |-> FALSE, rum |-> FALSE]
Rum == [tracing |-> FALSE, locations |-> FALSE, rum |-> TRUE]

TracedLocs == {On, Loc}
MixedLocs == {On, Loc, Off}
RumLocs == {On, Rum}

SubSymmetry == Permutations(Subs)
=============================================================================
