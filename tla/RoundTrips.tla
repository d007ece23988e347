----------------------------- MODULE RoundTrips -----------------------------
(***************************************************************************)
(* What a ping-pong over a connection promises: a client asks again only   *)
(* when it has the answer to what it asked before, and the server answers  *)
(* each request once, after it came.                                       *)
(***************************************************************************)
EXTENDS Naturals

CONSTANT Rounds     \* how many requests are made

VARIABLES asked, answered, got

vars == <<asked, answered, got>>

Init == asked = 0 /\ answered = 0 /\ got = 0

Ask ==
  /\ asked = got /\ asked < Rounds
  /\ asked' = asked + 1
  /\ UNCHANGED <<answered, got>>

Answer ==
  /\ answered < asked
  /\ answered' = answered + 1
  /\ UNCHANGED <<asked, got>>

Get ==
  /\ got < answered
  /\ got' = got + 1
  /\ UNCHANGED <<asked, answered>>

Next == Ask \/ Answer \/ Get

Spec == Init /\ [][Next]_vars

\* The three counts stay in order, and never a whole round apart.
Lockstep ==
  /\ {got, answered, asked} \subseteq 0 .. Rounds
  /\ got <= answered /\ answered <= asked /\ asked <= got + 1
=============================================================================
