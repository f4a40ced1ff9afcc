------------------------------ MODULE MC_RateLimit ------------------------------
(***************************************************************************)
(* Three requests, of one client by two ways, under limits of one and two,  *)
(* either of which may change; windows of two ticks.                        *)
(***************************************************************************)
EXTENDS RateLimit, TLC

CONSTANTS a, b, proxy

MC_Defaults == ("shorten" :> [limit |-> 1, window |-> 2]) @@ ("redirect" :> [limit |-> 2, window |-> 2])
                 @@ ("admin" :> [limit |-> 1, window |-> 1])

Ask(route) == [route |-> route, remote |-> a, forwarded |-> None, name |-> "shorten",
               halves |-> 0, window |-> 0]
Change(halves, window) == [Ask("config") EXCEPT !.halves = halves, !.window = window]

MC_Requests ==
  {Ask("shorten"), [Ask("shorten") EXCEPT !.remote = proxy, !.forwarded = a],
   [Ask("shorten") EXCEPT !.remote = b, !.forwarded = a],
   Ask("redirect"), Ask("health"), Change(6, 1), Change(1, 1), Change(2, 3), Change(0, 1)}

AnyOrder == Permutations(Thread)
=============================================================================
