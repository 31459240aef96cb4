---------------------------- MODULE OrderedService ----------------------------
(***************************************************************************)
(* What a Varlink connection promises to its peer: calls are answered one  *)
(* at a time in the order in which they were made, each at most once, and  *)
(* after a hang-up nothing is answered any more.                           *)
(***************************************************************************)
EXTENDS Naturals

CONSTANT Call  \* the numbers calls may have

VARIABLES
    asked,     \* the calls made, numbered in the order they were made
    answered,  \* those that have a reply
    open       \* whether the service has not hung up

serviceVars == <<asked, answered, open>>

ServiceInit ==
    /\ asked = {}
    /\ answered = {}
    /\ open = TRUE

Ask(n) ==
    /\ \A m \in asked : m < n
    /\ asked' = asked \cup {n}
    /\ UNCHANGED <<answered, open>>

Answer(n) ==
    /\ open
    /\ n \in asked \ answered
    /\ \A m \in asked \ answered : n <= m
    /\ answered' = answered \cup {n}
    /\ UNCHANGED <<asked, open>>

HangUp ==
    /\ open
    /\ open' = FALSE
    /\ UNCHANGED <<asked, answered>>

ServiceNext == (\E n \in Call : Ask(n)) \/ (\E n \in asked : Answer(n)) \/ HangUp

ServiceSpec == ServiceInit /\ [][ServiceNext]_serviceVars
=============================================================================
