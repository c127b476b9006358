------------------------------- MODULE Places -------------------------------
(***************************************************************************)
(* What travels through the queues of a component: f gives the sequence    *)
(* that each place of the component holds.                                 *)
(***************************************************************************)
EXTENDS Naturals, Sequences

\* The ways to fill the places P with elements of S.
Fillings(P, S) == [P -> Seq(S)]

\* Nothing is in two places, or twice in one.
Apart(f) ==
  \A p, q \in DOMAIN f :
    \A i \in DOMAIN f[p], j \in DOMAIN f[q] : f[p][i] = f[q][j] => p = q /\ i = j

\* Everything that is in some place.
Carried(f) == UNION {{f[p][i] : i \in DOMAIN f[p]} : p \in DOMAIN f}

\* In the step from f to g, t leaves place p at its head ...
Popped(f, g, p, t) ==
  /\ f[p] # <<>> /\ t = Head(f[p]) /\ g[p] = Tail(f[p])
  /\ \A r \in DOMAIN f \ {p} : g[r] = f[r]

\* ... or t comes to place p at its end, ...
Pushed(f, g, p, t) ==
  /\ g[p] = Append(f[p], t)
  /\ \A r \in DOMAIN f \ {p} : g[r] = f[r]

\* ... or goes from the head of p to the end of q.
Moved(f, g, p, q) ==
  /\ p # q /\ f[p] # <<>>
  /\ g[p] = Tail(f[p]) /\ g[q] = Append(f[q], Head(f[p]))
  /\ \A r \in DOMAIN f \ {p, q} : g[r] = f[r]

\* What was in place p, which was everything, is taken away at once.
Cleared(f, g, p) ==
  /\ Carried(f) \subseteq {f[p][i] : i \in DOMAIN f[p]}
  /\ g[p] = <<>>
  /\ \A r \in DOMAIN f \ {p} : g[r] = f[r]
=============================================================================
