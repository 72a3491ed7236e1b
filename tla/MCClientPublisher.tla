------------------------- MODULE MCClientPublisher -------------------------
(* Small instances of ClientPublisher.  Streams s1 and s2 and the removals  *)
(* belong to one client, s3 and s4 to another.                              *)
EXTENDS ClientPublisher

CONSTANTS c1, c2, s1, s2, s3, s4, r1, p1, p2

\* No request is refused, so a handler closes only when its stream was dropped.
GrantedSpec ==
    Init /\ [][Next /\ \A s \in Streams : pc[s] = "registered" => pc'[s] # "closing"]_vars

MCClientOf == [k \in Closers |-> IF k \in {s3, s4} THEN c2 ELSE c1]
=============================================================================
