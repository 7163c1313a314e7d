------------------------- MODULE NativeUsbTransport -------------------------
(***************************************************************************)
(* The native USB transport of the Python host library                     *)
(* (src/python/hcicontroller/hci_transport.py): one reader thread for each *)
(* IN endpoint, the queue they share, the thread that reads packets and    *)
(* the close that has to end transfers submitted without a timeout.        *)
(*                                                                         *)
(* A packet arrives in one or more USB packets.  What it is does not       *)
(* matter: a packet is its number on its endpoint, and its size is in USB  *)
(* packets, or TooLong when its header announces more than the maximum.    *)
(***************************************************************************)
EXTENDS Integers, Sequences, SequencesExt

CONSTANTS Reader,        \* the IN endpoints and their threads
          MaxParts,      \* USB packets of a HCI packet
          MaxPackets     \* bound: packets each endpoint sends

ASSUME UsbAssumption == MaxParts \in Nat \ {0} /\ MaxPackets \in [Reader -> Nat]

TooLong == 0
None    == "NONE"
Number  == Nat \ {0}
Size    == {TooLong} \cup 1 .. MaxParts

VARIABLES size,              \* the device: the sizes of the packets it began
          wire,              \* USB packets sent and not yet transferred
          sent,              \* the last packet begun and its USB packets sent
          gone,              \* the device was unplugged
          pc, buffer, frame, \* of a reader; frame is the packet taken
          main,              \* what the reading thread does
          asleep,            \* it waits on _reader_condition
          _prefetched, _reader_packets, _reader_error, _reader_stop,
          returned           \* history: the packets given to the caller

deviceVars == <<size, wire, sent, gone>>
readerVars == <<pc, buffer, frame>>
queueVars  == <<_reader_packets, _reader_error, _reader_stop>>
mainVars   == <<main, asleep, _prefetched, returned>>
vars == <<deviceVars, readerVars, queueVars, mainVars>>

Init == /\ size = [r \in Reader |-> <<>>]
        /\ wire = [r \in Reader |-> <<>>]
        /\ sent = [r \in Reader |-> [packet |-> 0, parts |-> 0]]
        /\ gone = FALSE
        /\ pc = [r \in Reader |-> "unborn"]
        /\ buffer = [r \in Reader |-> <<>>]
        /\ frame = [r \in Reader |-> 0]
        /\ main = "open" /\ asleep = FALSE
        /\ _prefetched = <<>> /\ _reader_packets = <<>>
        /\ _reader_error = None /\ _reader_stop = FALSE
        /\ returned = <<>>

-----------------------------------------------------------------------------
(* The device. *)

Parts(r, n) == IF size[r][n] = TooLong THEN 1 ELSE size[r][n]

DeviceSends(r) ==
    /\ ~gone
    /\ LET s == sent[r]
           more == s.packet > 0 /\ s.parts < Parts(r, s.packet)
           n == IF more THEN s.packet ELSE s.packet + 1
       IN  /\ n <= MaxPackets[r]
           /\ \/ more /\ UNCHANGED size
              \/ ~more /\ \E z \in Size : size' = [size EXCEPT ![r] = Append(@, z)]
           /\ sent' = [sent EXCEPT ![r] = [packet |-> n, parts |-> IF more THEN s.parts + 1 ELSE 1]]
           /\ wire' = [wire EXCEPT ![r] = Append(@, n)]
    /\ UNCHANGED <<gone, readerVars, queueVars, mainVars>>

Unplug == /\ ~gone /\ gone' = TRUE
          /\ wire' = [r \in Reader |-> <<>>]
          /\ UNCHANGED <<size, sent, readerVars, queueVars, mainVars>>

-----------------------------------------------------------------------------
(* A reader thread. *)

Goes(r, place) == pc' = [pc EXCEPT ![r] = place]

(* _take_complete on what is in b: nothing yet, a packet, or an error that *)
(* empties the buffer.                                                     *)
_take_complete(r, b, otherwise) ==
    \/ /\ IF b = <<>> THEN TRUE ELSE Len(b) < Parts(r, Head(b))
       /\ Goes(r, otherwise)
       /\ buffer' = [buffer EXCEPT ![r] = b]
       /\ UNCHANGED frame
    \/ /\ b # <<>> /\ size[r][Head(b)] = TooLong
       /\ Goes(r, "error")
       /\ buffer' = [buffer EXCEPT ![r] = <<>>]
       /\ UNCHANGED frame
    \/ /\ b # <<>> /\ size[r][Head(b)] # TooLong
       /\ Len(b) >= size[r][Head(b)]
       /\ Goes(r, "have")
       /\ frame' = [frame EXCEPT ![r] = Head(b)]
       /\ buffer' = [buffer EXCEPT ![r] = SubSeq(b, size[r][Head(b)] + 1, Len(b))]

(* The head of _reader_loop, and the packet already in the buffer. *)
ReaderChecks(r) ==
    /\ pc[r] = "check"
    /\ \/ _reader_stop /\ Goes(r, "done") /\ UNCHANGED <<buffer, frame>>
       \/ ~_reader_stop /\ _take_complete(r, buffer[r], "submit")
    /\ UNCHANGED <<deviceVars, queueVars, mainVars>>

(* _read_endpoint: libusb takes the transfer, without a timeout. *)
ReaderSubmits(r) ==
    /\ pc[r] = "submit"
    /\ Goes(r, IF gone THEN "error" ELSE "transfer")
    /\ UNCHANGED <<buffer, frame, deviceVars, queueVars, mainVars>>

(* A transfer takes one USB packet or several, by its size and by where    *)
(* the device ends one.                                                    *)
TransferCompletes(r) ==
    /\ pc[r] = "transfer"
    /\ \E k \in 1 .. Len(wire[r]) :
          /\ wire' = [wire EXCEPT ![r] = SubSeq(@, k + 1, Len(@))]
          /\ _take_complete(r, buffer[r] \o SubSeq(wire[r], 1, k), "check")
    /\ UNCHANGED <<size, sent, gone, queueVars, mainVars>>

TransferFails(r) ==
    /\ pc[r] = "transfer" /\ gone
    /\ Goes(r, "error")
    /\ UNCHANGED <<buffer, frame, deviceVars, queueVars, mainVars>>

(* The second look at _reader_stop, with a packet or an error in hand. *)
ReaderLooksAgain(r) ==
    /\ pc[r] \in {"have", "error"}
    /\ Goes(r, IF _reader_stop THEN "done"
               ELSE IF pc[r] = "have" THEN "publish" ELSE "fail")
    /\ UNCHANGED <<buffer, frame, deviceVars, queueVars, mainVars>>

(* Faulty variant: the reading thread is not told.                         *)
NotifyNone == UNCHANGED asleep

(* Condition.notify, with one thread that can be waiting. *)
Notify == asleep' = FALSE

_queue_reader_packet(r) ==
    /\ pc[r] = "publish"
    /\ _reader_packets' = Append(_reader_packets, [reader |-> r, packet |-> frame[r]])
    /\ Notify
    /\ Goes(r, "check")
    /\ UNCHANGED <<buffer, frame, deviceVars, _reader_error, _reader_stop, main, _prefetched, returned>>

_fail_reader(r) ==
    /\ pc[r] = "fail"
    /\ _reader_error' = IF _reader_error = None THEN r ELSE _reader_error
    /\ _reader_stop' = TRUE
    /\ Notify
    /\ Goes(r, "done")
    /\ UNCHANGED <<buffer, frame, deviceVars, _reader_packets, main, _prefetched, returned>>

-----------------------------------------------------------------------------
(* The thread that opened the transport. *)

_start_readers ==
    /\ main = "open"
    /\ pc' = [r \in Reader |-> "check"]
    /\ main' = "use"
    /\ UNCHANGED <<buffer, frame, deviceVars, queueVars, asleep, _prefetched, returned>>

(* Faulty variant: what the readers queued goes before what was prefetched. *)
NextFromQueue == IF _reader_packets # <<>> THEN "queue" ELSE IF _prefetched # <<>> THEN "prefetched" ELSE None

(* Where read_packet looks first. *)
NextFrom == IF _prefetched # <<>> THEN "prefetched" ELSE IF _reader_packets # <<>> THEN "queue" ELSE None

Reading == main = "use" /\ ~asleep

(* read_packet returns a packet, raises the error, waits, or gives up. *)
ReadReturns ==
    /\ Reading
    /\ \/ /\ NextFrom = "prefetched"
          /\ returned' = Append(returned, Head(_prefetched))
          /\ _prefetched' = Tail(_prefetched)
          /\ UNCHANGED _reader_packets
       \/ /\ NextFrom = "queue"
          /\ returned' = Append(returned, Head(_reader_packets))
          /\ _reader_packets' = Tail(_reader_packets)
          /\ UNCHANGED _prefetched
    /\ UNCHANGED <<readerVars, deviceVars, _reader_error, _reader_stop, main, asleep>>

(* The caller closes a transport that raised. *)
ReadRaises ==
    /\ Reading /\ NextFrom = None /\ _reader_error # None
    /\ main' = "stop"
    /\ UNCHANGED <<readerVars, deviceVars, queueVars, asleep, _prefetched, returned>>

ReadWaits ==
    /\ Reading /\ NextFrom = None /\ _reader_error = None
    /\ asleep' = TRUE
    /\ UNCHANGED <<readerVars, deviceVars, queueVars, main, _prefetched, returned>>

ReadTimesOut ==
    /\ asleep /\ asleep' = FALSE
    /\ UNCHANGED <<readerVars, deviceVars, queueVars, main, _prefetched, returned>>

(* has_pending_input keeps the packet it found. *)
has_pending_input ==
    /\ Reading /\ _prefetched = <<>> /\ _reader_packets # <<>>
    /\ _prefetched' = <<Head(_reader_packets)>>
    /\ _reader_packets' = Tail(_reader_packets)
    /\ UNCHANGED <<readerVars, deviceVars, _reader_error, _reader_stop, main, asleep, returned>>

Close ==
    /\ Reading
    /\ main' = "stop"
    /\ UNCHANGED <<readerVars, deviceVars, queueVars, asleep, _prefetched, returned>>

-----------------------------------------------------------------------------
(* close. *)

StopSet ==
    /\ main = "stop"
    /\ _reader_stop' = TRUE
    /\ main' = "reselect"
    /\ UNCHANGED <<readerVars, deviceVars, _reader_packets, _reader_error, asleep, _prefetched, returned>>

(* set_interface_altsetting: the endpoints are rebuilt, which ends what is *)
(* outstanding on them.  It fails, unseen, when the device is gone.        *)
Reselect ==
    /\ main = "reselect"
    /\ main' = "join"
    /\ \/ gone /\ UNCHANGED <<pc, wire>>
       \/ /\ ~gone
          /\ pc' = [r \in Reader |-> IF pc[r] = "transfer" THEN "error" ELSE pc[r]]
          /\ wire' = [r \in Reader |-> <<>>]
    /\ UNCHANGED <<buffer, frame, size, sent, gone, queueVars, asleep, _prefetched, returned>>

Joined == \A r \in Reader : pc[r] \in {"unborn", "done"}

(* The readers are joined and the interface is released. *)
Release ==
    /\ main = "join" /\ Joined
    /\ main' = "closed"
    /\ UNCHANGED <<readerVars, deviceVars, queueVars, asleep, _prefetched, returned>>

ReaderSteps(r) == \/ ReaderChecks(r) \/ ReaderSubmits(r)
                  \/ TransferCompletes(r) \/ TransferFails(r)
                  \/ ReaderLooksAgain(r)
                  \/ _queue_reader_packet(r) \/ _fail_reader(r)

Reads  == ReadReturns \/ ReadRaises \/ ReadWaits \/ ReadTimesOut
Closes == StopSet \/ Reselect \/ Release

Next == \/ \E r \in Reader : DeviceSends(r) \/ ReaderSteps(r)
        \/ Unplug
        \/ _start_readers \/ Reads \/ has_pending_input \/ Close \/ Closes

Spec == Init /\ [][Next]_vars

(* The threads run, and a caller that waits for a packet reads again.      *)
LiveSpec == /\ Spec
            /\ \A r \in Reader : WF_vars(ReaderSteps(r))
            /\ WF_vars(_start_readers)
            /\ WF_vars(ReadReturns) /\ WF_vars(ReadRaises) /\ WF_vars(Closes)

-----------------------------------------------------------------------------

(* What reached the caller or waits for it. *)
Arrived == returned \o _prefetched \o _reader_packets

Packet(r, n) == [reader |-> r, packet |-> n]

(* The device has sent all of it. *)
Whole(r, n) == sent[r].packet > n \/ sent[r] = [packet |-> n, parts |-> size[r][n]]

(* The caller gets the packets of an endpoint in the order the device sent *)
(* them, each once, whole and with none left out, whichever of read_packet *)
(* and has_pending_input it calls; one that announces more than the        *)
(* maximum never reaches it.                                               *)
EndpointOrder ==
    \A i \in 1 .. Len(Arrived) : LET r == Arrived[i].reader
                                    n == Arrived[i].packet
                                IN  /\ \A m \in 1 .. n - 1 : \E j \in 1 .. i - 1 : Arrived[j] = Packet(r, m)
                                    /\ \A j \in 1 .. i - 1 : Arrived[j] # Arrived[i]
                                    /\ size[r][n] # TooLong /\ Whole(r, n)

(* A packet the device has sent all of reaches the caller, unless a reader *)
(* fails, the device goes or the caller closes.                            *)
PacketReturned ==
    \A r \in Reader : \A n \in 1 .. MaxPackets[r] :
        (sent[r].packet = n /\ sent[r].parts = size[r][n])
            ~> \/ Packet(r, n) \in ToSet(returned)
               \/ gone \/ _reader_error # None \/ main \notin {"open", "use"}

(* "close() reselects the current alternate setting to terminate these     *)
(* reads": a close returns.                                                *)
CloseReturns == main = "stop" ~> main = "closed"

-----------------------------------------------------------------------------
(* The inductive invariant behind EndpointOrder. *)

ReaderPlace == {"unborn", "check", "submit", "transfer", "have", "error", "publish", "fail", "done"}
MainPlace   == {"open", "use", "stop", "reselect", "join", "closed"}

TypeOK ==
    /\ size \in [Reader -> Seq(Size)] /\ wire \in [Reader -> Seq(Number)]
    /\ sent \in [Reader -> [packet : Nat, parts : Nat]]
    /\ pc \in [Reader -> ReaderPlace] /\ buffer \in [Reader -> Seq(Number)]
    /\ frame \in [Reader -> Nat] /\ main \in MainPlace
    /\ {gone, asleep, _reader_stop} \subseteq BOOLEAN
    /\ {returned, _prefetched, _reader_packets} \subseteq Seq([reader : Reader, packet : Number])
    /\ _reader_error \in Reader \cup {None}

(* The device began the packets it gave a size, the last one not longer    *)
(* than that.                                                              *)
SentInv ==
    \A r \in Reader :
        /\ sent[r].packet = Len(size[r])
        /\ sent[r].packet > 0 => sent[r].parts \in 1 .. Parts(r, sent[r].packet)

(* Each part belongs to a packet that was begun. *)
Numbered ==
    \A r \in Reader : \A b \in {buffer[r], wire[r]} :
        \A i \in 1 .. Len(b) : b[i] \in 1 .. sent[r].packet

(* What the device sent and no one took. *)
Coming(r) == buffer[r] \o wire[r]

Begins(b, i) == i = 1 \/ b[i - 1] # b[i]

(* What follows in b from i, where a packet begins: its parts, and then    *)
(* the next packet, and never more of the last one than was sent.          *)
Run(r, b, i) ==
    /\ \A k \in i .. Len(b) : k < i + Parts(r, b[i]) => b[k] = b[i]
    /\ i + Parts(r, b[i]) <= Len(b) => b[i + Parts(r, b[i])] = b[i] + 1
    /\ b[i] = sent[r].packet => Len(b) < i + sent[r].parts

(* b is the packets from n on, all but the last of them whole. *)
Follows(r, b, n) ==
    /\ b # <<>> => b[1] = n
    /\ \A i \in 1 .. Len(b) : b[i] \in 1 .. sent[r].packet /\ (Begins(b, i) => Run(r, b, i))

(* It ends with what was sent last. *)
UpToDate(r, b, n) ==
    IF b = <<>>
    THEN sent[r].packet = n - 1 /\ (n > 1 => sent[r].parts = Parts(r, n - 1))
    ELSE \E i \in 1 .. Len(b) : /\ Begins(b, i) /\ b[i] = sent[r].packet
                                /\ Len(b) = i + sent[r].parts - 1

InStep(r, n) == Follows(r, Coming(r), n) /\ (~gone => UpToDate(r, Coming(r), n))

(* The reselection cuts the stream; no packet is taken from it after that. *)
BeforeReselect == main \in {"open", "use", "stop", "reselect"}

Numbers(r) == {m \in Number : \E i \in 1 .. Len(Arrived) : Arrived[i] = Packet(r, m)}

(* A reader that has queued n packets. *)
ReaderInv(r, n) ==
    /\ Numbers(r) = 1 .. n
    /\ BeforeReselect /\ pc[r] \in {"unborn", "check", "submit", "transfer"} => InStep(r, n + 1)
    /\ BeforeReselect /\ pc[r] \in {"have", "publish"} => InStep(r, n + 2)
    /\ pc[r] = "publish" \/ (BeforeReselect /\ pc[r] = "have") =>
          frame[r] = n + 1 /\ size[r][n + 1] # TooLong /\ Whole(r, n + 1)

Inv == /\ TypeOK /\ SentInv /\ Numbered /\ EndpointOrder
       /\ main = "open" => \A r \in Reader : pc[r] = "unborn"
       /\ main \notin {"open", "use", "stop"} => _reader_stop
       /\ \A r \in Reader : \E n \in Nat : ReaderInv(r, n)
=============================================================================
