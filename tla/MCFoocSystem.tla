---------------------------- MODULE MCFoocSystem ----------------------------
EXTENDS FoocSystem

Vars == 0 .. 2
NoMps == [k \in 0 .. 3 |-> NA]

\* What an equation can be: an objective, a VI function, a constraint, or not in the model
Obj(k) == [role |-> "objective", object |-> "Mapping", own |-> k, dual |-> NA, nl |-> TRUE, keep |-> TRUE]
Fun(v, k) == [role |-> "vifunction", object |-> "Mapping", own |-> k, dual |-> v, nl |-> FALSE, keep |-> TRUE]
Con(k, n) == [role |-> "constraint", object |-> "ConeInclusion", own |-> k, dual |-> NA, nl |-> n, keep |-> TRUE]
Off(k) == [role |-> "constraint", object |-> "ConeInclusion", own |-> k, dual |-> NA, nl |-> TRUE, keep |-> FALSE]

\* All orders of the equations E
Orders(E) == {f \in [1 .. Len(E) -> 1 .. Len(E)] : \A p, q \in 1 .. Len(E) : p # q => f[p] # f[q]}

Model(mps, type, own, zero, live, sub, objvar, E, vs) ==
    LET ne == Len(E)
        at(e) == E[e + 1]
        I == 0 .. ne - 1
    IN  [nv |-> 3, ne |-> ne, mps |-> mps, type |-> type, own |-> own, zero |-> zero, live |-> live,
         sub |-> sub, objvar |-> objvar,
         objequ |-> [k \in 0 .. 3 |-> IF \E e \in I : at(e).role = "objective" /\ at(e).own = k
                        THEN CHOOSE e \in I : at(e).role = "objective" /\ at(e).own = k ELSE NA],
         keep |-> {e \in I : at(e).keep}, object |-> [e \in I |-> at(e).object],
         role |-> [e \in I |-> at(e).role], eown |-> [e \in I |-> at(e).own],
         nl |-> {e \in I : at(e).nl}, dual |-> [e \in I |-> at(e).dual], vars |-> vs]

Types(a, b, c, d) == [k \in 0 .. 3 |-> CASE k = 0 -> a [] k = 1 -> b [] k = 2 -> c [] OTHER -> d]
Own(a, b, c) == [v \in Vars |-> CASE v = 0 -> a [] v = 1 -> b [] OTHER -> c]

\* Rows: one set of variables for all equations but one
Rows(n) == UNION {{[e \in 0 .. n - 1 |-> IF e = x THEN a ELSE b] : x \in 0 .. n - 1} :
                  a \in SUBSET Vars, b \in {{0, 2}, {0, 1, 2}}}

Family(mps, type, own, zero, live, sub, objvar, E) ==
    {Model(mps, type, own, zero, live, sub, objvar, [p \in 1 .. Len(E) |-> E[f[p]]],
           [e \in 0 .. Len(E) - 1 |-> vs[e] \cap live]) : f \in Orders(E), vs \in Rows(Len(E))}

\* Three optimisers; an optimiser and a VI; two VIs with zero functions; a variable that is
\* gone; an objective variable; the lower level of a bilevel problem, below variables of MP 0; a
\* multiplier that belongs to no MP
SmallFamilies ==
    << Family(<<1, 2, 3>>, Types("opt", "opt", "opt", "opt"), Own(3, 1, 2), {}, Vars, FALSE, NoMps,
             <<Obj(1), Obj(2), Obj(3), Con(1, FALSE)>>),
       Family(<<1, 2>>, Types("opt", "opt", "vi", "opt"), Own(1, 2, 1), {}, Vars, FALSE, NoMps,
             <<Obj(1), Fun(1, 2), Con(1, TRUE), Con(2, FALSE), Con(1, FALSE)>>),
       Family(<<1, 2>>, Types("opt", "vi", "vi", "opt"), Own(1, 2, 2), {1, 2}, Vars, FALSE, NoMps,
             <<Fun(0, 1), Con(2, TRUE), Off(1)>>),
       Family(<<1, 2>>, Types("opt", "vi", "opt", "opt"), Own(2, 2, 1), {2}, {0, 2}, FALSE,
             [NoMps EXCEPT ![2] = 0], <<Con(1, TRUE), Con(2, FALSE), Off(1)>>),
       Family(<<1, 2>>, Types("opt", "opt", "vi", "opt"), Own(0, 1, 2), {}, Vars, TRUE, NoMps,
             <<Obj(1), Fun(2, 2), Con(1, TRUE), Con(2, FALSE), Off(0)>>),
       Family(<<1>>, Types("opt", "opt", "opt", "opt"), Own(1, 0, 1), {}, Vars, TRUE, NoMps,
             <<[Obj(1) EXCEPT !.nl = FALSE], Con(1, FALSE), Con(1, TRUE), Off(0)>>),
       Family(<<1, 2>>, Types("opt", "opt", "vi", "opt"), Own(2, NA, 1), {}, Vars, FALSE, NoMps,
             <<Obj(1), Fun(0, 2), Con(1, TRUE), Con(2, FALSE)>>),
       Family(<<>>, Types("vi", "opt", "opt", "opt"), Own(0, 0, 0), {1}, Vars, FALSE, NoMps,
             <<[Fun(0, 0) EXCEPT !.nl = TRUE], Fun(2, 0), Con(0, TRUE), Con(0, FALSE)>>),
       Family(<<>>, Types("opt", "opt", "opt", "opt"), Own(0, 0, 0), {}, Vars, FALSE, NoMps,
             <<Obj(0), Con(0, TRUE), Con(0, FALSE)>>),
\* What is refused: no objective, two of them, a type that was not replaced, a zero function
\* for a variable that is gone, an equation of another object
       Family(<<1>>, Types("opt", "opt", "opt", "opt"), Own(1, 1, 1), {}, Vars, FALSE, NoMps, <<Con(1, TRUE)>>),
       Family(<<1>>, Types("opt", "opt", "opt", "opt"), Own(1, 1, 1), {}, Vars, FALSE, [NoMps EXCEPT ![1] = 0], <<Obj(1)>>),
       Family(<<1>>, Types("opt", "ccflib", "opt", "opt"), Own(1, 1, 1), {}, Vars, FALSE, NoMps, <<Obj(1)>>),
       Family(<<1>>, Types("opt", "vi", "opt", "opt"), Own(1, 1, 1), {0, 1, 2}, {0, 1}, FALSE, NoMps, <<Con(1, TRUE)>>),
       Family(<<1>>, Types("opt", "opt", "opt", "opt"), Own(1, 1, 1), {}, Vars, FALSE, NoMps,
             <<Obj(1), [Con(1, TRUE) EXCEPT !.object = "BooleanRelation"]>>),
       Family(<<>>, Types("opt", "opt", "opt", "opt"), Own(0, 0, 0), {}, Vars, FALSE, [NoMps EXCEPT ![0] = 1], <<Con(0, TRUE)>>) >>
=============================================================================
