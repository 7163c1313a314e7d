------------------------ MODULE MCNativeUsbTransport ------------------------
(* The two IN endpoints of the legacy interface.  Nothing but the bound    *)
(* tells one reader from the other.                                        *)
EXTENDS NativeUsbTransport, TLC

CONSTANTS event, acl

BothEndpoints == {event, acl}
TwoAndOne     == (event :> 2) @@ (acl :> 1)
OneEach       == (event :> 1) @@ (acl :> 1)
=============================================================================
