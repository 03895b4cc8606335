--------------------------- MODULE MCPointerSession ---------------------------
(***************************************************************************)
(* Two hosts, two transitions each, and at most two disturbances.          *)
(***************************************************************************)
EXTENDS PointerSession

CONSTANTS a, b

TwoHosts == {a, b}

=============================================================================
