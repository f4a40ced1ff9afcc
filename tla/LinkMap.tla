------------------------------- MODULE LinkMap -------------------------------
(***************************************************************************)
(* What a URL shortener promises: a code leads to one URL, forever if the  *)
(* store is durable and until the next restart otherwise.                  *)
(***************************************************************************)
CONSTANTS Code, Url

VARIABLES
  durable,   \* whether the store survives a restart
  target     \* the <<code, URL>> pairs in use

Init == durable \in BOOLEAN /\ target = {}

Bind(c, u) ==
  /\ \A p \in target : p[1] # c
  /\ target' = target \cup {<<c, u>>}

Lose == ~durable /\ target' = {}

Next ==
  /\ Lose \/ \E c \in Code, u \in Url : Bind(c, u)
  /\ UNCHANGED durable

Spec == Init /\ [][Next]_<<durable, target>>

(* No code leads to two URLs.                                              *)
OneTarget == \A p, q \in target : p[1] = q[1] => p = q
=============================================================================
