------------------------------ MODULE PinBoard ------------------------------
(***************************************************************************)
(* What the client's trust store promises a user: each URL is pinned to    *)
(* what was accepted of it first, until the user resets it, and one        *)
(* signing key belongs to one deployment under all URLs.                   *)
(***************************************************************************)

CONSTANTS Url, Deployment  \* deployments: records with a field key, among others

VARIABLE pins  \* URL -> the deployment accepted under it

PBInit == pins = [u \in {} |-> u]

\* v contradicts nothing that is pinned.
Consistent(u, v) ==
  \A w \in DOMAIN pins : w = u \/ pins[w].key = v.key => pins[w] = v

PBAccept(u, v) ==
  /\ Consistent(u, v)
  /\ pins' = [w \in DOMAIN pins \cup {u} |-> IF w = u THEN v ELSE pins[w]]

PBReset(u) == pins' = [w \in DOMAIN pins \ {u} |-> pins[w]]

PBNext == \E u \in Url : PBReset(u) \/ \E v \in Deployment : PBAccept(u, v)

PBSpec == PBInit /\ [][PBNext]_pins
=============================================================================
