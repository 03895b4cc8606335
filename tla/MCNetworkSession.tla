-------------------------- MODULE MCNetworkSession --------------------------
(* The instances of NetworkSession that TLC checks: host 1 captures and     *)
(* submits, host 2 receives.                                                *)
EXTENDS NetworkSession

Message(type) == [type |-> type, device |-> IF type = "Move" THEN 1 ELSE 0,
                  amount |-> IF type = "Move" THEN 5 ELSE 0]

MCLaneCap == [input |-> 3, control |-> 2, background |-> 1]
MCEnds == {1, 2}
MCRanges == (1 :> {<<1, 3>>}) @@ (2 :> {<<1, 3>>, <<4, 5>>})
MCPointerDevices == {1}

\* Motion that is folded or paced; input that is not shadowed before input
\* that is; a large frame and three lanes' worth of order; a message that
\* cannot be encoded.
MCSubmits ==
    (1 :> {<<Message("Move"), Message("Move")>>,
           <<Message("Release"), Message("Key")>>,
           <<Message("DeviceSnapshot"), Message("Clipboard"), Message("Key"), Message("Release")>>,
           <<Message("Key"), Message("Invalid")>>})
    @@ (2 :> {})
=============================================================================
