------------------------------ MODULE SmpPairing ------------------------------
(***************************************************************************)
(* smp_central.py: the two ends of an LE Secure Connections pairing, as    *)
(* functions from a state and a PDU to a state and the PDUs sent.  Both    *)
(* ends have the same record; "check" is the value the peer has to send    *)
(* (central) or has sent (responder, <<>> before it has).                  *)
(*                                                                         *)
(* The toolbox is symbolic: a value is the tuple of what it is made from,  *)
(* so two values are equal only when all their inputs are.                 *)
(***************************************************************************)
EXTENDS Integers, Sequences

JW == "Just Works"
NC == "Numeric Comparison"
PE == "Passkey Entry"

(* Row: io capability of the initiator, column: of the responder. *)
_SC_METHOD == <<<<JW, JW, PE, JW, PE>>,
                <<JW, NC, PE, JW, NC>>,
                <<PE, PE, PE, JW, PE>>,
                <<JW, JW, JW, JW, JW>>,
                <<PE, NC, PE, JW, NC>>>>

f4(u, v, x) == <<"f4", u, v, x>>
f5(w, n1, n2) == [mac |-> <<"mac", w, n1, n2>>, ltk |-> <<"ltk", w, n1, n2>>]
f6(w, n1, n2, io, a1, a2) == <<"f6", w, n1, n2, io, a1, a2>>

(* A key pair is named by its owner and run; what two of them share. *)
OffCurve == <<"off curve", 0>>
shared_secret(own, peer) == {own, peer}

(* "ok" is FALSE for a PDU of the wrong length. *)
Pdu(code, val) == [code |-> code, val |-> val, ok |-> TRUE]

(* io, oob, auth_req (MITM and SC) and key size, as the PDU carries them.  *)
(* f6 takes the first three: the key size is in neither check.             *)
Features(io, mitm, sc) == [io |-> io, oob |-> FALSE, mitm |-> mitm, sc |-> sc, size |-> 16]
IoCap(f) == <<f.io, f.oob, f.mitm, f.sc>>

Pairing(features, own) ==
    [state |-> "idle", mine |-> features, theirs |-> features, method |-> JW, key |-> own,
     peer |-> <<>>, dhkey |-> {}, na |-> <<>>, nb |-> <<>>, confirm |-> <<>>,
     mac |-> <<>>, ltk |-> <<>>, check |-> <<>>, accepted |-> FALSE]

done(smp) == smp.state \in {"complete", "failed"}

Does(smp, out) == [smp |-> smp, out |-> out]
Stays(smp) == Does(smp, <<>>)

_fail(smp, reason) == Does([smp EXCEPT !.state = "failed"], <<Pdu("failed", reason)>>)

(* PairingError, which feed answers with Invalid Parameters. *)
Raises(smp) == _fail(smp, "invalid parameters")

Method(initiator, responder) ==
    IF initiator.mitm \/ responder.mitm THEN _SC_METHOD[initiator.io + 1][responder.io + 1] ELSE JW

-----------------------------------------------------------------------------
(* SmpCentral *)

start(smp) == Does([smp EXCEPT !.state = "wait response"], <<Pdu("request", smp.mine)>>)

central_on_response(smp, pdu) ==
    LET they == pdu.val
        method == Method(smp.mine, they)
    IN  IF smp.state # "wait response" \/ ~ pdu.ok    THEN Raises(smp)
        ELSE IF ~ (smp.mine.sc /\ they.sc)            THEN _fail(smp, "pairing not supported")
        ELSE IF they.oob                              THEN _fail(smp, "oob not available")
        ELSE IF they.size \notin 7 .. 16              THEN _fail(smp, "encryption key size")
        ELSE IF smp.mine.io > 4 \/ they.io > 4        THEN _fail(smp, "invalid parameters")
        ELSE IF method = PE                           THEN _fail(smp, "pairing not supported")
        ELSE Does([smp EXCEPT !.state = "wait public key", !.theirs = they, !.method = method],
                  <<Pdu("public key", smp.key)>>)

central_on_public_key(smp, pdu) ==
    IF smp.state # "wait public key" \/ ~ pdu.ok \/ pdu.val \in {smp.key, OffCurve} THEN Raises(smp)
    ELSE Stays([smp EXCEPT !.state = "wait confirm", !.peer = pdu.val,
                           !.dhkey = shared_secret(smp.key, pdu.val)])

central_on_confirm(smp, pdu) ==
    LET na == <<"na", smp.key>>
    IN  IF smp.state # "wait confirm" \/ ~ pdu.ok THEN Raises(smp)
        ELSE Does([smp EXCEPT !.state = "wait random", !.confirm = pdu.val, !.na = na],
                  <<Pdu("random", na)>>)

(* The check of the initiator goes out, the one expected back is kept. *)
_send_dhkey_check(smp) ==
    Does([smp EXCEPT !.state = "wait dhkey check",
                     !.check = f6(smp.mac, smp.nb, smp.na, IoCap(smp.theirs), "P", "C")],
         <<Pdu("dhkey check", f6(smp.mac, smp.na, smp.nb, IoCap(smp.mine), "C", "P"))>>)

central_on_random(smp, pdu) ==
    LET keys == f5(smp.dhkey, smp.na, pdu.val)
        new  == [smp EXCEPT !.nb = pdu.val, !.mac = keys.mac, !.ltk = keys.ltk]
    IN  IF smp.state # "wait random" \/ ~ pdu.ok               THEN Raises(smp)
        ELSE IF f4(smp.peer, smp.key, pdu.val) # smp.confirm   THEN _fail(smp, "confirm value failed")
        ELSE IF smp.method = NC                                THEN Stays([new EXCEPT !.state = "wait user"])
        ELSE _send_dhkey_check(new)

central_user_confirm(smp, accepted) ==
    IF accepted THEN _send_dhkey_check([smp EXCEPT !.accepted = TRUE])
    ELSE _fail(smp, "numeric comparison failed")

(* Faulty variant: the value of the peer is not compared. *)
central_on_any_dhkey_check(smp, pdu) ==
    IF smp.state # "wait dhkey check" \/ ~ pdu.ok THEN Raises(smp)
    ELSE Stays([smp EXCEPT !.state = "complete"])

central_on_dhkey_check(smp, pdu) ==
    IF smp.state # "wait dhkey check" \/ ~ pdu.ok THEN Raises(smp)
    ELSE IF pdu.val # smp.check                   THEN _fail(smp, "dhkey check failed")
    ELSE Stays([smp EXCEPT !.state = "complete"])

(* SmpCentral.feed; a code without a handler is ignored. *)
central_feed(smp, pdu) ==
    IF done(smp) THEN Stays(smp) ELSE
    CASE pdu.code = "failed"        -> Stays([smp EXCEPT !.state = "failed"])
      [] pdu.code = "response"      -> central_on_response(smp, pdu)
      [] pdu.code = "public key"    -> central_on_public_key(smp, pdu)
      [] pdu.code = "confirm"       -> central_on_confirm(smp, pdu)
      [] pdu.code = "random"        -> central_on_random(smp, pdu)
      [] pdu.code = "dhkey check"   -> central_on_dhkey_check(smp, pdu)
      [] OTHER                      -> Stays(smp)

-----------------------------------------------------------------------------
(* SmpResponder *)

responder_on_request(smp, pdu) ==
    LET they == pdu.val
        method == Method(they, smp.mine)
    IN  IF smp.state # "idle" \/ ~ pdu.ok     THEN Raises(smp)
        ELSE IF ~ (they.sc /\ smp.mine.sc)   THEN _fail(smp, "pairing not supported")
        ELSE IF they.io > 4                  THEN _fail(smp, "invalid parameters")
        ELSE IF method = PE                  THEN _fail(smp, "pairing not supported")
        ELSE Does([smp EXCEPT !.state = "wait public key", !.theirs = they, !.method = method,
                              !.nb = <<"nb", smp.key>>],
                  <<Pdu("response", smp.mine)>>)

responder_on_public_key(smp, pdu) ==
    IF smp.state # "wait public key" \/ ~ pdu.ok \/ pdu.val = OffCurve THEN Raises(smp)
    ELSE Does([smp EXCEPT !.state = "wait random", !.peer = pdu.val,
                          !.dhkey = shared_secret(smp.key, pdu.val)],
              <<Pdu("public key", smp.key), Pdu("confirm", f4(smp.key, pdu.val, smp.nb))>>)

responder_on_random(smp, pdu) ==
    LET keys == f5(smp.dhkey, pdu.val, smp.nb)
    IN  IF smp.state # "wait random" \/ ~ pdu.ok THEN Raises(smp)
        ELSE Does([smp EXCEPT !.state = "wait user or check", !.na = pdu.val, !.mac = keys.mac,
                              !.ltk = keys.ltk, !.accepted = smp.method # NC],
                  <<Pdu("random", smp.nb)>>)

(* Answered only once the user has accepted and the central's value has    *)
(* arrived, in whichever order.  The code is complete when its check is on *)
(* the way; nothing looks at the state in between.                         *)
_finish(smp) ==
    IF smp.check = <<>> \/ ~ smp.accepted THEN Stays(smp)
    ELSE IF smp.check # f6(smp.mac, smp.na, smp.nb, IoCap(smp.theirs), "C", "P")
         THEN _fail(smp, "dhkey check failed")
    ELSE Does([smp EXCEPT !.state = "complete"],
              <<Pdu("dhkey check", f6(smp.mac, smp.nb, smp.na, IoCap(smp.mine), "P", "C"))>>)

responder_user_confirm(smp, accepted) ==
    IF accepted THEN _finish([smp EXCEPT !.accepted = TRUE])
    ELSE _fail(smp, "numeric comparison failed")

responder_on_dhkey_check(smp, pdu) ==
    IF smp.state # "wait user or check" \/ ~ pdu.ok THEN Raises(smp)
    ELSE _finish([smp EXCEPT !.check = pdu.val])

responder_feed(smp, pdu) ==
    IF done(smp) THEN Stays(smp) ELSE
    CASE pdu.code = "failed"        -> Stays([smp EXCEPT !.state = "failed"])
      [] pdu.code = "request"       -> responder_on_request(smp, pdu)
      [] pdu.code = "public key"    -> responder_on_public_key(smp, pdu)
      [] pdu.code = "random"        -> responder_on_random(smp, pdu)
      [] pdu.code = "dhkey check"   -> responder_on_dhkey_check(smp, pdu)
      [] OTHER                      -> Stays(smp)
=============================================================================
