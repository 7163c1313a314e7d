------------------------ MODULE MCHciIntrfTransport ------------------------
(***************************************************************************)
(* Small instances of HciIntrfTransport.  The octets are those of real     *)
(* packets: HCI_Reset, an ACL packet with one octet of payload that looks  *)
(* like an indicator, and an event too long for the buffer.                *)
(***************************************************************************)
EXTENDS HciIntrfTransport

AclData  == <<ACL, 64, 0, 1, 0, 1>>
TooLong  == <<EVENT, 62, 4, 1, 3, 12, 0>>

MCOctet == {0, 1, 2, 3, 4, 5, 12, 62, 64, 84}
MCHostPacket == {H4Reset, AclData, TooLong}
MCSdcKnows   == {<<3, 12, 0>>}
=============================================================================
