------------------------------ MODULE MCCircles ------------------------------
(* Instances of Groups (and Friendships with it) for TLC.                   *)
EXTENDS GroupsInv

CONSTANTS a, b, c

\* a and b have each other's codes; a and c are friends of old.
ABCodes == {<<a, b>>, <<b, a>>}
ACPairs == {{a, c}}
=============================================================================
