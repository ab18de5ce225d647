----------------------------- MODULE MCGraphAlloc -----------------------------
(***************************************************************************)
(* Every graph of a weight (1), an input (2) and three computed tensors    *)
(* (3, 4, 5) in which each tensor is an output or is used, with one or two *)
(* sources each; the last is an output and the first may be.               *)
(***************************************************************************)
EXTENDS GraphAlloc

\* One source computed before or the input, or two of which the second is recent.
\* (The order of two sources only matters to in-place reuse, which takes the first.)
Sources(n) == {<<a>> : a \in 2..n - 1}
              \cup {<<a, b>> \in (1..n - 1) \X (n - 2..n - 1) : 2 <= b /\ a <= b}

NodeKinds(n) ==
    {[op |-> k, src |-> s] : k \in {"plain", "inplace"}, s \in Sources(n)}
    \cup {[op |-> "view", src |-> <<a>>] : a \in 2..n - 1}

Used(t, ks) == \E k \in ks : \E j \in DOMAIN k.src : k.src[j] = t

\* All tensors of one layout, or the first or last computed one of another.
Layouts == {[t \in 1..5 |-> "a"]} \cup {[t \in 1..5 |-> IF t = d THEN "b" ELSE "a"] : d \in {3, 5}}

\* What a view looks into, seen through the views before it.
Roots(a, b) ==
    LET three == IF a.op = "view" THEN a.src[1] ELSE 3
        four  == IF b.op # "view" THEN 4 ELSE IF b.src[1] = 3 THEN three ELSE b.src[1]
    IN  <<1, 2, three, four, 5>>

MCTopologies ==
    {[op     |-> <<"ext", "input", a.op, b.op, c.op>>,
      src    |-> <<<<>>, <<>>, a.src, b.src, c.src>>,
      root   |-> Roots(a, b),
      layout |-> l,
      out    |-> o \cup {5}] :
        <<a, b, c, o, l>> \in {<<a, b, c, o, l>> \in
                NodeKinds(3) \X NodeKinds(4) \X NodeKinds(5) \X {{}, {3}} \X Layouts :
            /\ Used(2, {a, b, c}) /\ (3 \in o \/ Used(3, {b, c})) /\ Used(4, {c})
            /\ c.op # "view"
            /\ (a.op = "view" => 3 \notin o /\ l[3] = "a")}}


MCSizings == {[a |-> 1, b |-> 3], [a |-> 3, b |-> 1]}
=============================================================================
