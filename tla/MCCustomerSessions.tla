------------------------- MODULE MCCustomerSessions --------------------------
(* The symmetry of the workers in the TLC runs of CustomerSessions, and the *)
(* view of its states: no guard and no property looks at whether a row has  *)
(* expired once it is revoked or claimed.                                   *)
EXTENDS CustomerSessions, TLC

WorkerSymmetry == Permutations(Workers)

Unexpired(t, rows) ==
  [x \in DOMAIN t |-> IF x \in rows THEN [t[x] EXCEPT !.expired = FALSE] ELSE t[x]]

View ==
  <<Unexpired(enrollment, { e \in Issued : enrollment[e].revoked \/ enrollment[e].activated }),
    Unexpired(session, { s \in Opened : session[s].revoked }), work>>
=============================================================================
