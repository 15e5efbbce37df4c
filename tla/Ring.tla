-------------------------------- MODULE Ring --------------------------------
(***************************************************************************)
(* The consistent hash ring of the fleet (fleet/ring.go).  hashPoint is    *)
(* any function from virtual nodes to the circle 0..Top-1 (2^32 in the     *)
(* code) without collisions.                                               *)
(***************************************************************************)
EXTENDS Naturals

CONSTANTS
  Helper,   \* the helpers that can be members
  VNode,    \* the virtual nodes of a member
  Top,      \* the size of the circle
  Point,    \* Point[<<h, i>>]: hashPoint(h, i)
  NoBot

ASSUME RingAssumption ==
  /\ Top \in Nat \ {0}
  /\ Point \in [Helper \X VNode -> 0..Top - 1]
  /\ \A x, y \in Helper \X VNode : Point[x] = Point[y] => x = y
  /\ VNode # {}
  /\ NoBot \notin Helper

\* How far the circle is walked upwards from k to point x.
Ahead(k, x) == (x + Top - k) % Top

\* Assign: the member with the first point at or above the key, and past the
\* top the lowest one.
Assign(members, k) ==
  IF members = {} THEN NoBot
  ELSE CHOOSE h \in members :
         \E i \in VNode : \A g \in members, j \in VNode :
            Ahead(k, Point[<<h, i>>]) <= Ahead(k, Point[<<g, j>>])
=============================================================================
