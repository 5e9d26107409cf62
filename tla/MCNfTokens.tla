----------------------------- MODULE MCNfTokens -----------------------------
(* Instances of NfTokens for TLC, with a protocol p and its token t.       *)
EXTENDS NfTokens

CONSTANTS p, t

MCProtoOf == [x \in Token |-> p]

\* Blocks with none, one or two registrations.  In <<t, p>> the token may be
\* accepted and the protocol refused, which leaves a block half applied.
MCLists  == {<<>>, <<p>>, <<t>>, <<t, p>>}
MCSingle == {<<>>, <<p>>, <<t>>}

=============================================================================
