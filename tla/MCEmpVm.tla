------------------------------- MODULE MCEmpVm -------------------------------
(***************************************************************************)
(* Statements for EmpVm: every chain of two or three elements of the main  *)
(* kinds under one loop, with parentheses, and loops, labels and arcs over *)
(* two sets with conditions on each level.                                 *)
(***************************************************************************)
EXTENDS EmpVm

MCSetElts == [i |-> <<1, 2>>, j |-> <<2, 3>>]

in(p, idx) == [k |-> "in", p |-> p, idx |-> idx, neg |-> FALSE]
not(it) == [it EXCEPT !.neg = TRUE]
first(s) == [k |-> "first", s |-> s, neg |-> FALSE]
last(s)  == [k |-> "last", s |-> s, neg |-> FALSE]
uel(s, u) == [k |-> "uel", s |-> s, u |-> u, neg |-> FALSE]
same(s, t) == [k |-> "same", s |-> s, t |-> t, neg |-> FALSE]
sum(sets, cond, in1, in2) ==
  [k |-> "sum", sets |-> sets, cond |-> cond, in1 |-> in1, in2 |-> in2, neg |-> FALSE]
group(x, op, y) == [k |-> "group", chain |-> [items |-> <<x, y>>, ops |-> <<op>>, not |-> FALSE]]

One(x) == <<[items |-> <<x>>, ops |-> <<>>, not |-> FALSE]>>
Two(x, op, y) == <<[items |-> <<x, y>>, ops |-> <<op>>, not |-> FALSE]>>
Three(x, op, y, op2, z) == <<[items |-> <<x, y, z>>, ops |-> <<op, op2>>, not |-> FALSE]>>
Negated(cond) == <<[cond[1] EXCEPT !.not = TRUE]>>

label(idx, cond, links) == [k |-> "label", idx |-> idx, cond |-> cond, arcs |-> links]
loop(sets, cond, body) == [k |-> "loop", sets |-> sets, cond |-> cond, body |-> body]
arc(idx, cond) == [idx |-> idx, cond |-> cond]

Ops == {"and", "or"}
I1 == SUBSET {<<1>>, <<2>>}
J1 == SUBSET {<<2>>, <<3>>}
Q2 == {{}, {<<1, 3>>}, {<<2, 2>>, <<2, 3>>}, {<<1, 2>>, <<2, 3>>}}

\* Chains: a, b and c are sets of elements of i.
Elements(p) == <<in(p, <<"i">>), not(in(p, <<"i">>)), sum(<<>>, <<>>, <<in(p, <<"i">>)>>, <<>>),
                 first("i"), uel("i", 2), not(uel("i", 1))>>
Chosen(p, n) == {Elements(p)[m] : m \in 1 .. n}
Single == {Negated(One(in("a", <<"i">>))), Negated(One(not(in("a", <<"i">>)))),
           Negated(Two(in("a", <<"i">>), "or", in("b", <<"i">>))), One(last("i"))}
Pairs(x) == {Two(x, o, y) : y \in Chosen("b", 6), o \in Ops}
Triples(x) ==
  {Three(x, o, y, o2, in("c", <<"i">>)) : y \in Chosen("b", 3), o \in Ops, o2 \in Ops}
  \union {Two(in("b", <<"i">>), o, group(x, o2, in("c", <<"i">>))) : o \in Ops, o2 \in Ops}
  \union {Three(group(x, o2, in("c", <<"i">>)), o, in("b", <<"i">>), "and", last("i")) : o \in Ops, o2 \in Ops}

\* Conditions with a set that no loop controls, and projections.
Inner ==
  {One(x) : x \in {in("q", <<"i", "j">>), not(in("q", <<"i", "j">>)), in("d", <<"j">>),
                   sum(<<"j">>, <<>>, <<>>, <<in("q", <<"i", "j">>)>>),
                   not(sum(<<"j">>, <<>>, <<>>, <<in("q", <<"i", "j">>)>>)),
                   sum(<<"j">>, One(in("d", <<"j">>)), <<>>, <<in("q", <<"i", "j">>)>>),
                   sum(<<"j">>, Two(not(in("d", <<"j">>)), "or", uel("j", 3)), <<>>, <<in("q", <<"i", "j">>)>>),
                   not(sum(<<>>, <<>>, <<in("q", <<"i", "j">>)>>, <<in("d", <<"j">>)>>))}}
  \union {Two(x, o, y) : x \in {first("i"), uel("i", 2)}, o \in Ops,
                        y \in {in("q", <<"i", "j">>), sum(<<"j">>, <<>>, <<>>, <<in("q", <<"i", "j">>)>>)}}

\* Nests of loops, labels and arcs.
Nests ==
  {label(<<"i", "j">>, c, <<>>) :
     c \in {One(in("q", <<"i", "j">>)), Two(in("d", <<"j">>), "and", not(in("q", <<"i", "j">>))),
            Two(first("j"), "or", in("q", <<"i", "j">>)), One(last("j")), One(same("i", "j"))}}
  \union {loop(<<"i">>, c, label(<<"j", "i">>, d, <<>>)) :
            c \in {<<>>, Two(uel("i", 2), "or", first("i"))}, d \in {<<>>, One(in("q", <<"i", "j">>))}}
  \union {loop(<<"i", "j">>, One(in("q", <<"i", "j">>)), label(<<"j", "i">>, <<>>, <<>>))}
  \union {label(<<"i">>, c, <<arc(<<"i">>, <<>>), arc(<<"j">>, d), arc(<<"j", "i">>, One(not(in("q", <<"i", "j">>))))>>) :
            c \in {<<>>, One(in("q", <<"i", "j">>)), Two(in("q", <<"i", "j">>), "and", first("i"))},
            d \in {<<>>, Two(in("d", <<"j">>), "and", in("q", <<"i", "j">>)), Two(first("i"), "or", in("d", <<"j">>))}}

Contents(as, bs, cs, ds, qs) ==
  {[a |-> a, b |-> b, c |-> c, d |-> d, q |-> q] : a \in as, b \in bs, c \in cs, d \in ds, q \in qs}

No == {{}}
\* A label over i for every condition of a set.
Over(conds, rels) == {Program(label(<<"i">>, c, <<>>), <<>>, rels) : c \in conds}

MCPrograms ==
  Over(UNION {Pairs(x) : x \in Chosen("a", 6)}, Contents(I1, I1, No, No, No))
  \union Over(UNION {Triples(x) : x \in Chosen("a", 6)}, Contents(I1, I1, I1, No, No))
  \union Over(Single, Contents(I1, I1, No, No, No))
  \union Over(Inner, Contents(No, No, No, J1, Q2))
  \union {Program(s, z, Contents(No, No, No, J1, Q2)) : s \in Nests, z \in {<<>>, <<3>>}}
==============================================================================
