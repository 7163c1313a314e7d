---------------------------- MODULE MCSecureLink ----------------------------
(* Arguments that reach each method, and keys to distribute. *)
EXTENDS SecureLink

Setting(io, mitm, sc, keys, bonded) ==
    [c |-> Features(1, mitm, TRUE), p |-> Features(io, mitm, sc), init |-> keys, resp |-> keys, bonded |-> bonded]

MCSettings == {Setting(1, TRUE, TRUE, 0, TRUE),       \* Numeric Comparison, with an earlier bond
               Setting(1, FALSE, TRUE, 2, FALSE),     \* Just Works, with keys to distribute
               Setting(2, TRUE, TRUE, 0, FALSE),      \* Passkey Entry
               Setting(1, TRUE, FALSE, 0, FALSE)}     \* a peer without Secure Connections
=============================================================================
