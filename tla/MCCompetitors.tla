--------------------------- MODULE MCCompetitors ---------------------------
EXTENDS Competitors

CONSTANTS p1, p2, c1, c2

\* Many threads on one slot, one and two of each kind; and one of each on a ring.
\* Threads in tries call try_push or try_pop alone, the others the blocking calls too.
Shared(size, pushers, poppers, any, tries) ==
    [any |-> any, spsc |-> FALSE, size |-> size, pushers |-> pushers, poppers |-> poppers,
     onlyTries |-> tries]
Private(any, tries) ==
    [any |-> any, spsc |-> TRUE, size |-> 2, pushers |-> {p1}, poppers |-> {c1},
     onlyTries |-> tries]
AqConfigsUsed ==
    {Shared(1, {p1, p2}, {c1}, TRUE, {}), Shared(2, {p1}, {c1, c2}, TRUE, {}),
     Shared(1, {p1, p2}, {c1}, TRUE, {p1, p2}), Shared(2, {p1}, {c1, c2}, TRUE, {c1, c2}),
     Shared(1, {p1, p2}, {c1}, FALSE, {}), Shared(1, {p1, p2}, {c1}, FALSE, {p1, p2, c1}),
     Private(TRUE, {}), Private(FALSE, {}), Private(TRUE, {p1})}
=============================================================================
