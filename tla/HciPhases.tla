------------------------------ MODULE HciPhases ------------------------------
(***************************************************************************)
(* The machine that runs the scripts of HciSteps: the test's thread (and   *)
(* the PAwR data service's), the packets each Hci object has read and put  *)
(* back ("pending") or not read yet ("wire"), and the two controllers as   *)
(* the tests see them.  A wait is one step: it looks through what was put  *)
(* back and what has come, in that order.                                  *)
(*                                                                         *)
(* A packet carries the number of the procedure it belongs to, which the   *)
(* tests cannot see: two procedures of a kind reuse handle and marker.     *)
(***************************************************************************)
EXTENDS Integers, Sequences, FiniteSets

CONSTANTS
    Tests,      \* the scripts, by name (HciSteps)
    Phases,     \* the tests that are run
    MaxFaults,  \* refusals, losses and late answers of a run
    MaxRepeat   \* of the reports that repeat, so many wait to be read

ASSUME PhasesAssumption == /\ Phases \subseteq DOMAIN Tests
                           /\ MaxFaults \in Nat
                           /\ MaxRepeat \in Nat \ {0}

Side == {"A", "B"}
Peer(s) == IF s = "A" THEN "B" ELSE "A"

VARIABLES
    phase,     \* the test that runs
    script,    \* and its script
    mode,      \* "setup", "close", "body", "last" (its finally clause), "over"
    pc,        \* the step of that part
    undo,      \* steps to do before the exception leaves the function
    attempt,   \* of the setup, or of the whole test
    retry,     \* the setup failed in a way that may be tried again
    known,     \* variables of the test that are not None
    pending,   \* Hci.pending
    wire,      \* what the port holds
    gone,      \* sides whose port is lost
    service,   \* the PAwR data service: thread, stop flag, events, and how its join goes
    kept,      \* its "deferred"
    up,        \* controller: what is running
    due,       \* controller: events it will still report
    issued,    \* controller: number of the last procedure, by side and event
    faults,    \* refusals, losses and late answers so far
    took,      \* the last packet a wait took
    thrown,    \* packets a wait threw away
    untidy     \* a step of the teardown did not do its work

test    == <<phase, script, mode, pc, undo, attempt, retry, known>>
queues  == <<pending, wire>>
worker  == <<service, kept>>
air     == <<up, due, issued>>
history == <<took, thrown, untidy>>
vars    == <<test, queues, gone, worker, air, faults, history>>

-----------------------------------------------------------------------------
(* The controllers, as the tests use them. *)

(* Events of a command: "own" at the controller that got it, "peer" at the *)
(* other one.                                                              *)
Owes == [
    features |-> [own |-> {"features"}, peer |-> {}],
    sca |-> [own |-> {"sca"}, peer |-> {}],
    power |-> [own |-> {"power"}, peer |-> {}],
    allfeatures |-> [own |-> {"allfeatures"}, peer |-> {}],
    dle |-> [own |-> {"dle"}, peer |-> {"dle"}],
    subrate |-> [own |-> {"subrate"}, peer |-> {"subrate"}],
    fsu |-> [own |-> {"fsu"}, peer |-> {"fsu"}],
    rate |-> [own |-> {"rate"}, peer |-> {"rate"}],
    phy2M |-> [own |-> {"phy2M"}, peer |-> {"phy2M"}],
    phy1M |-> [own |-> {"phy1M"}, peer |-> {"phy1M"}],
    phyCoded |-> [own |-> {"phyCoded"}, peer |-> {"phyCoded"}],
    phyStays |-> [own |-> {"phy2M"}, peer |-> {}],
    pathloss |-> [own |-> {"pathloss"}, peer |-> {}],
    acl |-> [own |-> {"comp"}, peer |-> {"acl"}],
    iso |-> [own |-> {"isocomp"}, peer |-> {"iso"}],
    disconnect |-> [own |-> {"disc"}, peer |-> {}],
    cis_on |-> [own |-> {}, peer |-> {"cisreq"}],
    cis_accept |-> [own |-> {"cisest"}, peer |-> {"cisest"}],
    past |-> [own |-> {}, peer |-> {"past"}],
    pawr_response |-> [own |-> {}, peer |-> {"resp"}],
    big_on |-> [own |-> {"big"}, peer |-> {}],
    big_off |-> [own |-> {"bigend"}, peer |-> {}],
    bigsync_on |-> [own |-> {"bigsync"}, peer |-> {}]]

(* It may come to nothing: no path loss is crossed, no response is heard. *)
Uncertain == {"pathloss", "pawr_response"}

(* Commands after which what the air brings belongs to a new procedure. *)
Starts == [
    connect |-> [own |-> {"conn"}, peer |-> {"conn"}],
    advdata |-> [own |-> {}, peer |-> {"advreport"}],
    sync_create |-> [own |-> {"sync", "report"}, peer |-> {}],
    past |-> [own |-> {}, peer |-> {"report"}],
    sync_subevent |-> [own |-> {"report"}, peer |-> {}]]

Numbered == {"conn", "sync", "report", "advreport", "synclost", "biginfo", "datareq", "iso0"}
            \cup UNION {Owes[w].own \cup Owes[w].peer : w \in DOMAIN Owes}

TurnsOn == [
    adv_on |-> {"adv"}, connect |-> {"initiating"}, host_on |-> {"host"}, cig |-> {"cig"},
    cis_accept |-> {"cis"}, cis_off |-> {"cisending"}, path_on |-> {"path"}, ext_on |-> {"ext"},
    extconn_on |-> {"ext", "adv"}, per_on |-> {"train"}, pawr |-> {"pawr"}, scan_on |-> {"scan"},
    sync_create |-> {"creating"}, past_params |-> {"pastable"}, big_on |-> {"big"},
    bigsync_on |-> {"bigsync"}]

TurnsOff == [
    adv_off |-> {"adv"}, host_off |-> {"host"}, cig_remove |-> {"cig"}, path_off |-> {"path"},
    ext_off |-> {"ext", "adv"}, per_off |-> {"train"}, scan_off |-> {"scan"},
    sync_cancel |-> {"creating"}, sync_off |-> {"sync"}, bigsync_off |-> {"bigsync"}]

(* A command is refused unless this is up. *)
Needs == [
    disconnect |-> {"acl"}, cis_on |-> {"acl"}, cis_off |-> {"cis"}, past |-> {"acl"}, past_params |-> {"acl"},
    sync_off |-> {"sync"}, sync_cancel |-> {"creating"}, big_on |-> {"train"}, big_off |-> {"big"},
    bigsync_on |-> {"sync"}, bigsync_off |-> {"bigsync"}, features |-> {"acl"}, sca |-> {"acl"},
    power |-> {"acl"}, allfeatures |-> {"acl"}, dle |-> {"acl"}, subrate |-> {"acl"},
    fsu |-> {"acl"}, rate |-> {"acl"}, phy2M |-> {"acl"}, phy1M |-> {"acl"},
    phyCoded |-> {"acl"}, phyStays |-> {"acl"}]

(* And while this is: a host feature is not changed under a connection, a  *)
(* group not removed under its stream.                                     *)
Bars == [host_on |-> {"acl"}, host_off |-> {"acl"}, cig_remove |-> {"cis"},
         sync_create |-> {"creating"}]

OfBoth(table, w) == IF w \in DOMAIN table THEN table[w] ELSE [own |-> {}, peer |-> {}]
In(table, w) == IF w \in DOMAIN table THEN table[w] ELSE {}

Refuses(s, w) == ~ In(Needs, w) \subseteq up[s] \/ In(Bars, w) \cap up[s] # {}

Event(s, e, of, ok) == [side |-> s, ev |-> e, of |-> of, ok |-> ok]

(* A peer that is not there reports nothing. *)
Hears(s) == {"acl", "bigsync"} \cap up[Peer(s)] # {} \/ {"train", "sync"} \cap up[s] # {}

(* What no wait of this test looks for is left out: it would be put back,  *)
(* and lie there.                                                          *)
Phy == {"phy2M", "phy1M", "phyCoded"}
Waits == {"keep", "take", "observe", "token", "confirm", "maybe", "first"}
LookedFor ==
    LET waits == {i \in 1 .. Len(script.body) : script.body[i].do \in Waits}
    IN  {"disc", "bigend", "resp"} \cup Phy \cup {script.body[i].what : i \in waits}

(* The controller obeys; a reset also forgets what was to be reported.     *)
(* "disconnect" and "big_off" are done when their event is reported.       *)
Obeys(s, w) ==
    LET owes == OfBoth(Owes, w)
        news == OfBoth(Starts, w)
        new  == [t \in Side |-> IF t = s THEN news.own \cup owes.own ELSE news.peer \cup owes.peer]
        num  == [t \in Side |-> [e \in Numbered |-> issued[t][e] + IF e \in new[t] THEN 1 ELSE 0]]
        events == {Event(s, e, num[s][e], TRUE) : e \in owes.own \cap LookedFor}
                  \cup {Event(Peer(s), e, num[Peer(s)][e], TRUE) : e \in IF Hears(s) THEN owes.peer \cap LookedFor ELSE {}}
                  \cup {Event(s, e, num[s][e], FALSE) : e \in IF w = "sync_cancel" THEN {"sync"} ELSE {}}
    IN  /\ issued' = num
        /\ IF w = "reset"
           THEN /\ up' = [up EXCEPT ![s] = {}]
                /\ due' = {d \in due : d.side # s}
           ELSE /\ up' = [up EXCEPT
                            ![s] = (@ \ In(TurnsOff, w)) \cup In(TurnsOn, w),
                            ![Peer(s)] = @ \cup (IF w = "cis_accept" THEN {"cis"} ELSE {})
                                           \cup (IF w = "past" /\ "pastable" \in @ THEN {"sync"} ELSE {})]
                /\ due' \in {due \cup events} \cup (IF w \in Uncertain THEN {due} ELSE {})

Fault == faults < MaxFaults /\ faults' = faults + 1
NoFault == faults' = faults

Append1(s, p) == wire' = [wire EXCEPT ![s] = Append(@, p)]
Packet(e, of, ok) == [ev |-> e, of |-> of, ok |-> ok]

(* One of the events a controller owes reaches the port. *)
Emit ==
    \E d \in due :
        /\ d.ev = "disc" => \A e \in due : e.side = d.side => e.ev # "conn"
        /\ due' = due \ {d}
        /\ Append1(d.side, Packet(d.ev, d.of, d.ok))
        /\ up' = [up EXCEPT ![d.side] = @ \ (IF d.ev = "disc" THEN {"acl", "cis", "pastable"} ELSE
                                             IF d.ev = "bigend" THEN {"big"} ELSE {})]
        /\ UNCHANGED issued /\ NoFault

(* An initiator meets an advertiser; it may be left alone with the link    *)
(* (the peer has seen nothing) or without it (0x3E).                       *)
Connect(s) ==
    /\ "initiating" \in up[s] /\ "adv" \in up[Peer(s)]
    /\ \E ok \in BOOLEAN, p \in BOOLEAN :
        /\ IF ok /\ p THEN NoFault ELSE Fault
        /\ up' = [up EXCEPT ![s] = (@ \ {"initiating"}) \cup (IF ok THEN {"acl"} ELSE {}),
                            ![Peer(s)] = IF p THEN (@ \ {"adv"}) \cup {"acl"} ELSE @]
        /\ due' = due \cup {Event(s, "conn", issued[s]["conn"], ok)}
                      \cup (IF p THEN {Event(Peer(s), "conn", issued[Peer(s)]["conn"], TRUE)} ELSE {})
    /\ UNCHANGED <<issued, wire>>

Disc(s) == Event(s, "disc", issued[s]["disc"], TRUE)

(* A link that is lost, or that the peer has left. *)
LinkLost(s) ==
    /\ "acl" \in up[s] /\ Disc(s) \notin due
    /\ IF "acl" \in up[Peer(s)] THEN Fault ELSE NoFault
    /\ due' = due \cup {Disc(s)}
    /\ UNCHANGED <<up, issued, wire>>

StreamEnds(s) ==
    /\ "cisending" \in up[s]
    /\ up' = [t \in Side |-> up[t] \ {"cis", "cisending"}]
    /\ UNCHANGED <<due, issued, wire>> /\ NoFault

SyncEstablished(s) ==
    /\ {"creating", "scan"} \subseteq up[s] /\ "train" \in up[Peer(s)]
    /\ \E ok \in BOOLEAN :
        /\ IF ok THEN NoFault ELSE Fault
        /\ up' = [up EXCEPT ![s] = (@ \ {"creating"}) \cup (IF ok THEN {"sync"} ELSE {})]
        /\ due' = due \cup {Event(s, "sync", issued[s]["sync"], ok)}
    /\ UNCHANGED <<issued, wire>>

SyncLost(s) ==
    /\ "sync" \in up[s] /\ "train" \notin up[Peer(s)]
    /\ up' = [up EXCEPT ![s] = @ \ {"sync"}]
    /\ due' = due \cup {Event(s, "synclost", issued[s]["synclost"], TRUE)}
    /\ UNCHANGED <<issued, wire>> /\ NoFault

(* What is reported again and again. *)
Repeats(s) ==
    {e \in {"advreport", "report", "biginfo", "datareq", "iso0"} :
        CASE e = "advreport" -> "scan" \in up[s] /\ "ext" \in up[Peer(s)]
          [] e = "report"    -> "sync" \in up[s] /\ "train" \in up[Peer(s)]
          [] e = "biginfo"   -> "sync" \in up[s] /\ "big" \in up[Peer(s)]
          [] e = "datareq"   -> {"train", "pawr"} \subseteq up[s]
          [] e = "iso0"      -> {"cis", "path"} \subseteq up[s]}

Again(s) ==
    /\ \E e \in Repeats(s) :
        LET p == Packet(e, issued[s][e], TRUE)
            q == pending[s] \o wire[s]
        IN  /\ Cardinality({i \in 1 .. Len(q) : q[i] = p}) < MaxRepeat
            /\ Append1(s, p)
    /\ UNCHANGED <<up, due, issued>> /\ NoFault

Procedures ==
    /\ mode # "over"
    /\ \/ Emit
       \/ \E s \in Side : \/ Connect(s) \/ LinkLost(s) \/ StreamEnds(s)
                          \/ SyncEstablished(s) \/ SyncLost(s)
    /\ UNCHANGED <<test, pending, gone, worker, history>>

Reporting(s) == mode # "over" /\ Again(s) /\ UNCHANGED <<test, pending, gone, worker, history>>

-----------------------------------------------------------------------------
(* Where the test's thread is, and where it goes. *)

Steps ==
    CASE mode = "setup" -> script.setup
      [] mode = "close" -> script.close
      [] mode = "body"  -> script.body
      [] OTHER          -> script.last

Cur == IF undo # <<>> THEN Head(undo) ELSE Steps[pc]

At(do) == mode # "over" /\ Cur.do \in do

Applies(step) == (step.when = "" \/ step.when \in known) /\ step.unless \notin known

(* The end of a part.  A failed setup that is not tried again leaves the   *)
(* test without ports: its finally clause has nothing to do.               *)
Onward ==
    CASE mode = "setup" -> <<"body", attempt>>
      [] mode = "close" -> IF retry /\ attempt < script.tries THEN <<"setup", attempt + 1>>
                           ELSE <<"over", attempt>>
      [] mode = "body"  -> <<"last", attempt>>
      [] OTHER          -> IF attempt < script.times THEN <<"body", attempt + 1>>
                           ELSE <<"over", attempt>>

Goes(m, p, a) == mode' = m /\ pc' = p /\ attempt' = a

Continue ==
    /\ undo' = IF undo # <<>> THEN Tail(undo) ELSE <<>>
    /\ IF undo # <<>> THEN Goes(mode, pc, attempt)
       ELSE IF pc < Len(Steps) THEN Goes(mode, pc + 1, attempt)
       ELSE Goes(Onward[1], 1, Onward[2])
    /\ UNCHANGED <<phase, script, retry>>

(* An exception: a check of its own goes on with the next check, unless    *)
(* the port is lost; a setup is closed; the body ends in its finally.      *)
AfterPart(i) ==
    LET later == {j \in i .. Len(Steps) : Steps[j].part # Steps[i].part}
    IN  IF later = {} THEN Len(Steps) + 1 ELSE CHOOSE j \in later : \A k \in later : j <= k

Raise(why, before) ==
    IF mode \in {"close", "last"} \/ undo # <<>> THEN Continue
    ELSE /\ undo' = before
         /\ IF mode = "setup" THEN Goes("close", 1, attempt)
            ELSE IF Cur.part > 0 /\ why # "gone" /\ AfterPart(pc) <= Len(Steps)
            THEN Goes("body", AfterPart(pc), attempt)
            ELSE Goes("last", 1, attempt)
         /\ retry' = (mode = "setup" /\ why \in script.retryable)
         /\ UNCHANGED <<phase, script>>

(* A step of the teardown that did not do its work. *)
Tidy(ok) == untidy' = (untidy \/ (mode \in {"close", "last"} /\ ~ ok))

-----------------------------------------------------------------------------
(* Commands.  What came before the answer is put back. *)

PutBack(s) ==
    /\ pending' = [pending EXCEPT ![s] = @ \o wire[s]]
    /\ wire' = [wire EXCEPT ![s] = <<>>]

Commands == {"cmd", "call", "try", "retry"}

Answered ==
    /\ At(Commands) /\ Applies(Cur) /\ Cur.side \notin gone
    /\ ~ Refuses(Cur.side, Cur.what)
    /\ Obeys(Cur.side, Cur.what)
    /\ PutBack(Cur.side) /\ Continue /\ Tidy(TRUE)
    /\ UNCHANGED <<known, gone, worker, faults, took, thrown>>

(* A refusal the controller's state explains, or one it does not. *)
Refused ==
    /\ At(Commands) /\ Applies(Cur) /\ Cur.side \notin gone
    /\ IF Refuses(Cur.side, Cur.what) THEN NoFault ELSE Fault
    /\ PutBack(Cur.side)
    /\ IF Cur.do \in {"cmd", "retry"} THEN Raise("refused", Cur.undo) ELSE Continue
    /\ Tidy(Refuses(Cur.side, Cur.what))
    /\ UNCHANGED <<known, gone, worker, air, took, thrown>>

(* _command_status_retry: Controller Busy, and once more. *)
Busy ==
    /\ At({"retry"}) /\ Applies(Cur) /\ Cur.side \notin gone /\ Fault
    /\ PutBack(Cur.side)
    /\ UNCHANGED <<test, gone, worker, air, history>>

(* The PAwR data service is at the advertiser's port: between commands, in *)
(* one, or held up in one by a write that blocks.                          *)
Alive == service.thread \in {"run", "cmd", "slow"}

(* No answer in time; the controller may have obeyed all the same.  With   *)
(* two threads at a port the other one may have read the answer.           *)
Unanswered ==
    /\ At(Commands) /\ Applies(Cur) /\ Cur.side \notin gone
    /\ IF Cur.side = "A" /\ Alive THEN NoFault ELSE Fault
    /\ \/ ~ Refuses(Cur.side, Cur.what) /\ Obeys(Cur.side, Cur.what)
       \/ UNCHANGED air
    /\ PutBack(Cur.side)
    /\ IF Cur.do = "try" THEN Continue ELSE Raise("silent", <<>>)
    /\ Tidy(FALSE)
    /\ UNCHANGED <<known, gone, worker, took, thrown>>

SendData ==
    /\ At({"send"}) /\ Cur.side \notin gone
    /\ Obeys(Cur.side, Cur.what)
    /\ Continue
    /\ UNCHANGED <<known, queues, gone, worker, faults, history>>

(* HciGone: nothing on this port works from now on. *)
PortGone ==
    /\ mode # "over" /\ gone = {} /\ Fault
    /\ \E s \in Side : gone' = {s}
    /\ UNCHANGED <<test, queues, worker, air, history>>

Touches == Commands \cup {"send", "keep", "take", "observe", "token", "confirm", "maybe", "first", "pair"}

OnGonePort ==
    /\ At(Touches) /\ Applies(Cur)
    /\ Cur.side \in gone \/ (Cur.do = "pair" /\ gone # {})
    /\ IF Cur.do \in {"try", "confirm"} THEN Continue ELSE Raise("gone", <<>>)
    /\ Tidy(FALSE)
    /\ UNCHANGED <<known, queues, gone, worker, air, faults, took, thrown>>

-----------------------------------------------------------------------------
(* Waits. *)

Queue(s) == pending[s] \o wire[s]

(* Data the wait knows by its payload. *)
Marked == {"acl", "iso"}

(* Events a procedure reports once. *)
Awaitable == Numbered \ {"disc", "advreport", "report", "biginfo", "datareq", "iso0"}

(* The packets that end the wait, for good or ill. *)
Matches(step, s, p) ==
    CASE step.do = "token" \/ step.what \in Marked ->
             (p.ev = "disc" /\ step.do = "take") \/ (p.ev = step.what /\ p.of = issued[s][p.ev])
      [] step.do = "first" -> p.ev \in Phy
      [] step.do = "take"  -> p.ev \in {step.what, "disc"}
      [] OTHER             -> p.ev = step.what

First(step, s) ==
    LET hits == {i \in 1 .. Len(Queue(s)) : Matches(step, s, Queue(s)[i])}
    IN  IF hits = {} THEN 0 ELSE CHOOSE i \in hits : \A j \in hits : i <= j

Drops(step) == step.do \in {"take", "observe", "token", "confirm"}

(* What the test is content with. *)
Wanted(step) == IF step.what = "anyphy" THEN Phy ELSE {step.what}

Took(s, p) == [ev |-> p.ev, of |-> p.of, asked |-> issued[s][p.ev]]

Leave(s, rest) ==
    /\ pending' = [pending EXCEPT ![s] = rest]
    /\ wire' = [wire EXCEPT ![s] = <<>>]

Lost1(s, ps) ==
    LET new == {ps[i].ev : i \in {j \in 1 .. Len(ps) :
                                         /\ ps[j].ev \in Awaitable
                                         /\ ps[j].of = issued[s][ps[j].ev]}}
    IN  {<<s, e, issued[s][e]>> : e \in new}

Lose(s, ps) == thrown' = thrown \cup Lost1(s, ps)

LoseBoth(Ps(_)) == thrown' = thrown \cup Lost1("A", Ps("A")) \cup Lost1("B", Ps("B"))

Wait ==
    /\ At(Waits) /\ Applies(Cur) /\ Cur.side \notin gone
    /\ LET s == Cur.side
           n == First(Cur, s)
           before == SubSeq(Queue(s), 1, n - 1)
           after  == SubSeq(Queue(s), n + 1, Len(Queue(s)))
       IN /\ n # 0
          /\ Leave(s, IF Drops(Cur) THEN after ELSE before \o after)
          /\ Lose(s, IF Drops(Cur) THEN before ELSE <<>>)
          /\ took' = Took(s, Queue(s)[n])
          /\ IF Queue(s)[n].ev \in Wanted(Cur) /\ Queue(s)[n].ok THEN Continue ELSE Raise("failed", Cur.bad)
    /\ UNCHANGED <<known, gone, worker, air, faults, untidy>>

(* Nothing else can bring the event: a wait that ends before what is still *)
(* to come is a late answer.                                               *)
Coming(s, e) ==
    \/ \E d \in due : d.side = s /\ d.ev = e
    \/ e \in Repeats(s)
    \/ e = "conn" /\ \E t \in Side : "initiating" \in up[t] /\ "adv" \in up[Peer(t)]
    \/ e = "disc" /\ "acl" \in up[s] /\ "acl" \notin up[Peer(s)]
    \/ e = "sync" /\ {"creating", "scan"} \subseteq up[s] /\ "train" \in up[Peer(s)]
    \/ e = "synclost" /\ "sync" \in up[s] /\ "train" \notin up[Peer(s)]

WaitTimeout ==
    /\ At(Waits) /\ Applies(Cur) /\ Cur.side \notin gone
    /\ First(Cur, Cur.side) = 0
    /\ IF \E e \in Wanted(Cur) : Coming(Cur.side, e) THEN Fault ELSE NoFault
    /\ LET s == Cur.side
       IN /\ Leave(s, IF Drops(Cur) THEN <<>> ELSE Queue(s))
          /\ Lose(s, IF Drops(Cur) THEN Queue(s) ELSE <<>>)
    /\ IF Cur.do \in {"confirm", "maybe"} THEN Continue ELSE Raise("timeout", Cur.undo)
    /\ Tidy(FALSE)
    /\ UNCHANGED <<known, gone, worker, air, took>>

(* wait_acl_pair reads both ports until each has reported its connection;  *)
(* the one that is first goes on being read and dropped.                   *)
WaitPair ==
    /\ At({"pair"}) /\ gone = {}
    /\ \A s \in Side : First(Cur, s) # 0 /\ Queue(s)[First(Cur, s)].ok
    /\ \E last \in [Side -> 0 .. 2] :
        /\ \E s \in Side : last[s] = 0
        /\ \A s \in Side : First(Cur, s) + last[s] <= Len(Queue(s))
        /\ pending' = [s \in Side |-> SubSeq(Queue(s), First(Cur, s) + last[s] + 1, Len(Queue(s)))]
        /\ LoseBoth(LAMBDA s : SubSeq(Queue(s), 1, First(Cur, s) - 1)
                               \o SubSeq(Queue(s), First(Cur, s) + 1, First(Cur, s) + last[s]))
    /\ wire' = [s \in Side |-> <<>>]
    /\ took' = Took("A", Queue("A")[First(Cur, "A")])
    /\ Continue
    /\ UNCHANGED <<known, gone, worker, air, faults, untidy>>

PairFails ==
    /\ At({"pair"}) /\ gone = {}
    /\ LET failed == \E s \in Side : First(Cur, s) # 0 /\ ~ Queue(s)[First(Cur, s)].ok
           missing == {s \in Side : First(Cur, s) = 0}
           down == \E s \in Side : \E i \in 1 .. Len(Queue(s)) : Queue(s)[i].ev = "disc"
       IN /\ failed \/ missing # {}
          /\ IF failed \/ ~ \E s \in missing : Coming(s, "conn") THEN NoFault ELSE Fault
          /\ Raise(IF failed THEN "failed" ELSE IF down THEN "lost" ELSE "timeout", <<>>)
    /\ pending' = [s \in Side |-> <<>>] /\ wire' = [s \in Side |-> <<>>]
    /\ LoseBoth(LAMBDA s : SelectSeq(Queue(s), LAMBDA p : p.ev # Cur.what))
    /\ UNCHANGED <<known, gone, worker, air, took, untidy>>

-----------------------------------------------------------------------------
(* The rest of the test's thread. *)

Keeping(s, evs) == SelectSeq(pending[s], LAMBDA p : p.ev \notin evs)

DiscardPending ==
    /\ At({"discard"}) /\ Applies(Cur)
    /\ pending' = [pending EXCEPT ![Cur.side] = Keeping(Cur.side, Cur.what)]
    /\ Continue
    /\ UNCHANGED <<known, wire, gone, worker, air, faults, history>>

DrainBoth ==
    /\ At({"drain"})
    /\ pending' = [s \in Side |-> <<>>] /\ wire' = [s \in Side |-> <<>>]
    /\ LoseBoth(Queue)
    /\ Continue
    /\ UNCHANGED <<known, gone, worker, air, faults, took, untidy>>

(* The ports are closed and, for the next attempt, opened again. *)
Reopen ==
    /\ At({"reopen"})
    /\ pending' = [s \in Side |-> <<>>] /\ wire' = [s \in Side |-> <<>>]
    /\ known' = {}
    /\ Continue
    /\ UNCHANGED <<gone, worker, air, faults, history>>

Compare ==
    /\ At({"check", "need"}) /\ Applies(Cur)
    /\ IF Cur.do = "need" THEN NoFault /\ IF Cur.what \in known THEN Continue ELSE Raise("failed", <<>>)
       ELSE \/ NoFault /\ Continue
            \/ Fault /\ Raise("failed", <<>>)
    /\ UNCHANGED <<known, queues, gone, worker, air, history>>

Assign ==
    /\ At({"got", "lost"}) /\ Applies(Cur)
    /\ known' = IF Cur.do = "got" THEN known \cup {Cur.what} ELSE known \ {Cur.what}
    /\ Continue
    /\ UNCHANGED <<queues, gone, worker, air, faults, history>>

Skip ==
    /\ mode # "over" /\ ~ Applies(Cur)
    /\ Continue
    /\ UNCHANGED <<known, queues, gone, worker, air, faults, history>>

-----------------------------------------------------------------------------
(* The PAwR data service: a thread that reads the advertiser's port. *)

NoService == [thread |-> "none", stop |-> FALSE, response |-> FALSE, error |-> FALSE,
              joining |-> FALSE, late |-> FALSE]

Serve ==
    /\ At({"serve"})
    /\ service' = [NoService EXCEPT !.thread = "run"]
    /\ Continue
    /\ UNCHANGED <<known, queues, gone, kept, air, faults, history>>

(* Between two attempts, and while the response is awaited. *)
LookForResponse ==
    /\ At({"look", "answer"}) /\ Applies(Cur)
    /\ known' = known \cup (IF service.response THEN {"seen"} ELSE {})
    /\ IF service.response THEN NoFault /\ Continue
       ELSE IF service.error THEN NoFault /\ Raise("refused", <<>>)
       ELSE /\ IF Cur.do = "answer" /\ Coming("A", "resp") THEN Fault ELSE NoFault
            /\ Continue
    /\ UNCHANGED <<queues, gone, worker, air, history>>

StopService ==
    /\ At({"finish"}) /\ Applies(Cur) /\ ~ service.joining
    /\ service' = [service EXCEPT !.stop = TRUE, !.joining = TRUE]
    /\ UNCHANGED <<test, queues, gone, kept, air, faults, history>>

JoinService ==
    /\ At({"finish"}) /\ Applies(Cur) /\ service.joining /\ ~ Alive
    /\ service' = [service EXCEPT !.thread = "none", !.joining = FALSE]
    /\ pending' = [pending EXCEPT !["A"] = kept \o @]
    /\ kept' = <<>>
    /\ IF service.error THEN Raise("refused", <<>>) ELSE Continue
    /\ UNCHANGED <<known, wire, gone, air, faults, history>>

(* join(3.5) ends before the thread does, which happens to a command (3 s  *)
(* and its last read) only when its write blocks too.  What the service    *)
(* put aside stays with it.                                                *)
JoinTimesOut ==
    /\ At({"finish"}) /\ Applies(Cur) /\ service.joining
    /\ service.thread = "slow"
    /\ service' = [service EXCEPT !.joining = FALSE, !.late = TRUE]
    /\ Raise("refused", <<>>)
    /\ UNCHANGED <<known, queues, gone, kept, air, faults, history>>

WorkerFails == service' = [service EXCEPT !.error = TRUE, !.stop = TRUE, !.thread = "done"]

(* One packet of the worker's loop; a data request makes it send a command *)
(* of its own.                                                             *)
WorkerTakes ==
    /\ service.thread = "run" /\ "A" \notin gone /\ Queue("A") # <<>>
    /\ LET p == Head(Queue("A"))
       IN /\ Leave("A", Tail(Queue("A")))
          /\ service' = [service EXCEPT !.thread = IF p.ev = "datareq" THEN "cmd" ELSE @,
                                        !.response = @ \/ p.ev = "resp"]
          /\ kept' = IF p.ev \in {"datareq", "resp"} THEN kept ELSE Append(kept, p)
    /\ UNCHANGED <<test, gone, air, faults, history>>

(* _set_requested_pawr_subevent_data: answered, refused, or not in time. *)
WorkerCommands(at) ==
    /\ service.thread = at
    /\ PutBack("A")
    /\ \/ "A" \notin gone /\ NoFault /\ service' = [service EXCEPT !.thread = "run"]
       \/ (IF "A" \in gone \/ at = "slow" THEN NoFault ELSE Fault) /\ WorkerFails
    /\ UNCHANGED <<test, gone, kept, air, history>>

(* Its write blocks: for a second on USB, for ever on a serial port that   *)
(* is opened without a write timeout.                                      *)
WriteBlocks ==
    /\ service.thread = "cmd" /\ "A" \notin gone /\ Fault
    /\ service' = [service EXCEPT !.thread = "slow"]
    /\ UNCHANGED <<test, queues, gone, kept, air, history>>

WorkerEnds ==
    /\ service.thread = "run"
    /\ \/ service.stop /\ service' = [service EXCEPT !.thread = "done"]
       \/ ~ service.stop /\ "A" \in gone /\ WorkerFails
    /\ UNCHANGED <<test, queues, gone, kept, air, faults, history>>

(* Faulty variant: the stop flag is looked at when there is no packet.     *)
WorkerLooksWhenQuiet ==
    WorkerTakes \/ WorkerCommands("cmd") \/ ((Queue("A") = <<>> \/ "A" \in gone) /\ WorkerEnds)

(* The loop, which looks at the stop flag before each packet. *)
Worker == (~ service.stop /\ WorkerTakes) \/ WorkerCommands("cmd") \/ WorkerEnds

-----------------------------------------------------------------------------
(* Both controllers are idle, the ports freshly opened. *)
Init ==
    /\ phase \in Phases /\ script = Tests[phase]
    /\ mode = IF script.setup = <<>> THEN "body" ELSE "setup"
    /\ pc = 1 /\ undo = <<>> /\ attempt = 1 /\ retry = FALSE /\ known = {}
    /\ pending = [s \in Side |-> <<>>] /\ wire = [s \in Side |-> <<>>]
    /\ gone = {}
    /\ service = NoService
    /\ kept = <<>>
    /\ up = [s \in Side |-> {}]
    /\ due = {} /\ issued = [s \in Side |-> [e \in Numbered |-> 0]]
    /\ faults = 0
    /\ took = [ev |-> "conn", of |-> 0, asked |-> 0]
    /\ thrown = {} /\ untidy = FALSE

TestThread ==
    \/ Answered \/ Refused \/ Busy \/ Unanswered \/ SendData \/ PortGone \/ OnGonePort
    \/ Wait \/ WaitTimeout \/ WaitPair \/ PairFails
    \/ DiscardPending \/ DrainBoth \/ Reopen \/ Compare \/ Assign \/ Skip
    \/ Serve \/ LookForResponse \/ StopService \/ JoinService \/ JoinTimesOut

Finished == mode = "over" /\ UNCHANGED vars

Next ==
    \/ TestThread
    \/ Worker \/ WriteBlocks \/ WorkerCommands("slow")
    \/ Procedures
    \/ \E s \in Side : Reporting(s)
    \/ Finished

(* Both threads go on, and the controllers report in the end.  A write     *)
(* that blocks need not end.                                               *)
Fairness ==
    /\ WF_vars(TestThread) /\ WF_vars(Worker)
    /\ WF_vars(Procedures) /\ \A s \in Side : WF_vars(Reporting(s))

Spec == Init /\ [][Next]_vars /\ Fairness

-----------------------------------------------------------------------------
(* An event a wait takes belongs to the procedure the test started last:   *)
(* not a Sync Established from before Create Sync ("cannot belong to this  *)
(* Create Sync procedure"), not a PAwR report from before the 0x2084       *)
(* boundary, not the completion of an earlier packet.  Outside: the events *)
(* a wait does not mean to tell apart, the reports of a train that is      *)
(* joined again, of which an old one is taken for new, and the connection  *)
(* of a CIS setup that timed out, which the next attempt takes for its own. *)
FreshEvents ==
    \/ took.of = took.asked
    \/ took.ev \in {"disc", "advreport"}
    \/ took.ev = "conn" /\ phase = "cis"
    \/ took.ev = "report" /\ phase \in {"recovery", "bis"}

(* No wait waits for an event that an earlier wait, reading for something  *)
(* else, has thrown away: _wait_completed after wait_iso, the CIS events   *)
(* after the connection, the sync after the observed advertiser.           *)
AwaitedNotLost ==
    At(Waits) /\ Applies(Cur) /\ Cur.do # "confirm" /\ Cur.what \in Awaitable =>
        <<Cur.side, Cur.what, issued[Cur.side][Cur.what]>> \notin thrown

Stopped(s, r) == r \notin up[s]

(* However the body ends, the finally clause takes down what the test      *)
(* knows of (in the recovery test not a sync that has brought no report),  *)
(* unless a teardown command is not answered or the end of the link not    *)
(* confirmed in time.  The host feature is the point of hci_cis_cleanup:   *)
(* it is refused "for as long as" the link is up.                          *)
TornDown ==
    mode = "over" /\ ~ untidy =>
        /\ "handles" \in known => \A s \in Side : /\ Stopped(s, "acl") \/ Disc(s) \in due
                                                  /\ Stopped(s, "host")
        /\ "sync" \in known => Stopped("B", "sync")
        /\ "bigsync" \in known => Stopped("B", "bigsync")
        /\ "big" \in known => Stopped("A", "big") \/ \E d \in due : d.ev = "bigend"
        /\ phase \in {"periodic", "past", "pawr", "bis", "auracast", "recovery"} =>
               Stopped("A", "train") /\ Stopped("A", "ext")
        /\ phase = "pawr" => Stopped("B", "scan")

(* While the PAwR data service is at the advertiser's port, the test's own *)
(* thread neither commands nor reads it, for each would take the answers   *)
(* of the other; and the service does not outlive the test.  Both can      *)
(* happen only in the finally clause, to a service that was told to stop   *)
(* and whose write blocked for longer than the join waits.                 *)
OneReader ==
    Alive /\ (mode = "over" \/ (At(Touches) /\ Applies(Cur) /\ Cur.side = "A")) =>
        service.late /\ service.stop /\ mode \in {"last", "over"}

(* However the test goes, its service ends, or hangs in a write that       *)
(* blocks: it is told to stop, and no stream of data requests keeps it     *)
(* from looking.                                                           *)
ServiceEnds == Alive ~> ~ Alive \/ service.thread = "slow"
=============================================================================
