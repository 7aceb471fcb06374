------------------------------- MODULE LlConn -------------------------------
(***************************************************************************)
(* One link-layer connection, ble_ll_conn.c, at both of its ends: the      *)
(* connection events, the acknowledgement scheme with its one-bit sequence *)
(* numbers, retries, fragments and empty PDUs, the hand-over from the      *)
(* radio's interrupts to the link-layer task, and the ways a connection    *)
(* ends.  The radio loses PDUs and damages them.                           *)
(*                                                                         *)
(* Interrupts (event start, the end of a PDU, the timers, halt) fall       *)
(* between any two steps of the link-layer task.  TimeoutGap says whether  *)
(* one may also fall between the critical section of ble_ll_conn_timeout   *)
(* and ble_ll_conn_end, where the code leaves interrupts enabled.          *)
(***************************************************************************)
EXTENDS Integers, Sequences, FiniteSets

CONSTANTS
    Master, Slave,  \* the two ends
    Scenario,       \* what may happen in a run; one of them is chosen
    TxOctets,       \* the values data length updates give eff_max_tx_octets
    CtrlBufs,       \* mbufs there are for TERMINATE_INDs
    TermTmo,        \* connection events until the terminate procedure times out
    TimeoutGap,
    NONE

Dev == {Master, Slave}
Peer == [d \in Dev |-> IF d = Master THEN Slave ELSE Master]

\* The lengths of the packets the hosts send, the ends that disconnect, whose
\* data length changes and whose supervision timer expires, and the mbufs
\* there are for received PDUs.
ScenarioType == [pkts : [Dev -> Seq(Nat \ {0})], disconnects : SUBSET Dev,
                 updates : SUBSET Dev, silences : SUBSET Dev,
                 rxbufs : [Dev -> Nat \ {0}]]

ASSUME ConnAssumption ==
    /\ Master # Slave
    /\ \A s \in Scenario : s \in ScenarioType
    /\ TxOctets \subseteq Nat \ {0}
    /\ \E n \in TxOctets : \A k \in TxOctets : n <= k
    /\ CtrlBufs \in Nat /\ TermTmo \in Nat \ {0}
    /\ TimeoutGap \in BOOLEAN

VARIABLES
    sc,             \* the scenario
    conn,           \* the connection state machine of each end
    radio,          \* "off" (no current connection), "rx", "txend": off when sent
    sched,          \* the next connection event is on the schedule
    air,            \* the PDU being sent, or NONE
    evq, rxq,       \* the events and received PDUs that wait for the LL task
    task,           \* where the LL task is
    nsent, rcvd,    \* packets the host handed over; octets from d the other host got
    reported        \* completed packets the host was told of

vars == <<sc, conn, radio, sched, air, evq, rxq, task, nsent, rcvd, reported>>

-----------------------------------------------------------------------------
(* Packets and PDUs.  An octet is its packet, its place in it and whether  *)
(* it comes with the "start of a packet" LLID.                             *)

EmptyPdu == [kind |-> "empty", id |-> 0, len |-> 0, off |-> 0, pl |-> 0,
             frag |-> TRUE, sn |-> 0, txd |-> FALSE]
DataPkt(i, len) == [EmptyPdu EXCEPT !.kind = "data", !.id = i, !.len = len, !.frag = FALSE]
TerminateInd == [EmptyPdu EXCEPT !.kind = "term", !.len = 1, !.frag = FALSE]

\* The octets a PDU brings, and what the link-layer task reads of a received
\* one: a damaged PDU is only counted.
Payload(p) == IF p.kind # "data" THEN <<>>
              ELSE [k \in 1 .. p.pl |-> <<p.id, p.off + k, k = 1 /\ ~p.frag>>]
Received(p, crcok) == IF crcok THEN [sn |-> p.sn, octets |-> Payload(p)] ELSE NONE

\* ble_ll_conn_sm_new.  last_rxd_sn starts as 1, where a received SN is 0 or
\* BLE_LL_DATA_HDR_SN_MASK: neither of the two, which is 2 here.
ble_ll_conn_sm_new ==
    [up |-> TRUE, txq |-> <<>>, tx_seqnum |-> 0, next_exp_seqnum |-> 0,
     last_rxd_sn |-> 2, pdu_txd |-> FALSE, last_txd_md |-> FALSE,     \* read by a master
     last_rxd_md |-> FALSE,     \* read by a slave
     cons_rxd_bad_crc |-> 0, terminate_ind_txd |-> FALSE,
     terminate_ind_rxd |-> FALSE, disconnect_reason |-> FALSE,
     eff_max_tx_octets |-> CHOOSE n \in TxOctets : \A k \in TxOctets : n <= k,
     terminate_timeout |-> 0, completed_pkts |-> 0]

Init ==
    /\ sc \in Scenario
    /\ conn = [d \in Dev |-> ble_ll_conn_sm_new]
    /\ radio = [d \in Dev |-> "off"]
    /\ sched = [d \in Dev |-> TRUE]
    /\ air = NONE
    /\ evq = [d \in Dev |-> <<>>]
    /\ rxq = [d \in Dev |-> <<>>]
    /\ task = [d \in Dev |-> "idle"]
    /\ nsent = [d \in Dev |-> 0]
    /\ rcvd = [d \in Dev |-> <<>>]
    /\ reported = [d \in Dev |-> 0]

\* os_eventq_put: an event already queued stays where it is.
Queued(q, ev) == \E i \in DOMAIN q : q[i] = ev
Put(q, ev) == IF Queued(q, ev) THEN q ELSE Append(q, ev)

-----------------------------------------------------------------------------
(* ble_ll_conn_tx_data_pdu, in interrupt context                            *)

\* The head of conn_txq as it is sent: an empty PDU if there is none, with
\* its length, LLID and sequence number kept if it is a retry.
\* Bug: a repetition takes a new length.
TxHead_resized(c) ==
    LET h == IF c.txq = <<>> THEN EmptyPdu ELSE Head(c.txq)
        rem_bytes == h.len - h.off
    IN  [h EXCEPT !.pl = IF c.eff_max_tx_octets > rem_bytes THEN rem_bytes
                         ELSE c.eff_max_tx_octets,
                  !.frag = @ \/ h.off # 0, !.sn = IF h.txd THEN @ ELSE c.tx_seqnum, !.txd = TRUE]

TxHead(c) ==
    LET h == IF c.txq = <<>> THEN EmptyPdu ELSE Head(c.txq)
        rem_bytes == h.len - h.off
    IN  IF h.txd THEN h
        ELSE [h EXCEPT !.pl = IF c.eff_max_tx_octets > rem_bytes THEN rem_bytes
                              ELSE c.eff_max_tx_octets,
                       !.frag = @ \/ h.off # 0, !.sn = c.tx_seqnum, !.txd = TRUE]

\* The values of the MD bit.  A master also clears it when time is short.
MD(c, d) ==
    LET h == TxHead(c)
        more == Len(c.txq) > 1 \/ h.off + h.pl < h.len
    IN  IF ~more \/ c.terminate_ind_rxd THEN {FALSE}
        ELSE IF d = Master THEN BOOLEAN ELSE {TRUE}

\* Does this transmission end the connection event?
EndsEvent(c, d, md) ==
    \/ c.terminate_ind_rxd
    \/ /\ d = Slave /\ ~md /\ c.cons_rxd_bad_crc = 0 /\ ~c.last_rxd_md
       /\ TxHead(c).kind # "term"

\* What an interrupt handler leaves behind: the connection, the radio and
\* what it sends.
Over(c) == [conn |-> c, radio |-> "off", air |-> NONE]

ble_ll_conn_tx_data_pdu(c, d) ==
    LET h == TxHead(c)
        queued == [c EXCEPT !.txq = <<h>> \o (IF @ = <<>> THEN @ ELSE Tail(@))]
        sending(md) ==
            [conn |-> [queued EXCEPT !.pdu_txd = TRUE, !.last_txd_md = d = Master /\ md],
             radio |-> IF EndsEvent(c, d, md) THEN "txend" ELSE "rx",
             air |-> [kind |-> h.kind, id |-> h.id, off |-> h.off, pl |-> h.pl,
                      frag |-> h.frag, sn |-> h.sn, nesn |-> c.next_exp_seqnum,
                      md |-> md, from |-> d]]
    IN  {sending(md) : md \in MD(c, d)} \cup {Over(queued)}     \* ble_phy_tx may fail

-----------------------------------------------------------------------------
(* ble_ll_conn_rx_isr_end, in interrupt context                             *)

\* Take the sender's SN: a PDU that is not a repetition is accepted.
AcceptSN(c, p) ==
    IF p.sn = c.next_exp_seqnum THEN [c EXCEPT !.next_exp_seqnum = 1 - @] ELSE c

Acked(c, p) == c.pdu_txd /\ p.nesn # c.tx_seqnum

\* Bug: any acknowledgement is taken for that of the TERMINATE_IND.
TakeAck_anyhead(c) ==
    [c EXCEPT !.tx_seqnum = 1 - @, !.terminate_ind_txd = \E i \in DOMAIN c.txq : c.txq[i].kind = "term",
              !.txq = IF @ = <<>> THEN @ ELSE Tail(@)]

\* The head of conn_txq is acknowledged: the next fragment or packet follows.
TakeAck(c) ==
    IF c.txq = <<>> THEN [c EXCEPT !.tx_seqnum = 1 - @]
    ELSE LET h == Head(c.txq)
             done == h.off + h.pl >= h.len
         IN  [c EXCEPT
                !.tx_seqnum = 1 - @,
                !.terminate_ind_txd = @ \/ h.kind = "term",
                !.completed_pkts = IF done /\ h.kind = "data" THEN @ + 1 ELSE @,
                !.txq = IF done \/ h.kind = "term" THEN Tail(@)
                        ELSE [@ EXCEPT ![1].off = @ + h.pl, ![1].txd = FALSE]]

\* A PDU with a good CRC.
RxGood(c, p) ==
    LET c1 == [AcceptSN(c, p) EXCEPT !.cons_rxd_bad_crc = 0, !.last_rxd_md = p.from = Master /\ p.md]
    IN  IF Acked(c, p) THEN TakeAck(c1) ELSE c1

\* Was the TERMINATE_IND acknowledged just now?
TerminateDone(c, p) == Acked(c, p) /\ c.txq # <<>> /\ Head(c.txq).kind = "term"

\* A damaged PDU is answered, but not a second one in a row.
ReplyToBad(c, d) == c.cons_rxd_bad_crc < 2 /\ (d = Slave \/ c.last_txd_md)

ble_ll_conn_rx_isr_end(c, d, p, crcok) ==
    LET good == RxGood(c, p)
        rxd == [good EXCEPT !.terminate_ind_rxd = @ \/ p.kind = "term"]
        bad == [c EXCEPT !.cons_rxd_bad_crc = @ + 1]
        after == IF crcok THEN rxd ELSE bad
        reply == IF ~crcok THEN ReplyToBad(bad, d)
                 ELSE p.kind = "term" \/ d = Slave \/ c.last_txd_md \/ p.md
    IN  IF crcok /\ TerminateDone(c, p) THEN {Over(good)}
        ELSE IF ~reply THEN {Over(after)}
        ELSE ble_ll_conn_tx_data_pdu(after, d)
             \* a master short of time, or the terminate procedure's time is up
             \cup (IF d = Master \/ after.terminate_timeout = 1 THEN {Over(after)} ELSE {})

-----------------------------------------------------------------------------
(* Interrupts                                                              *)

\* The connection event at d goes on as r says; if it is over, so is told
\* the LL task.
Continue(d, r) ==
    /\ conn' = [conn EXCEPT ![d] = r.conn]
    /\ air' = r.air

\* ble_ll_conn_event_start_cb: the scheduled item runs.  A slave listens,
\* unless there is no buffer.
ble_ll_conn_event_start_cb(d) ==
    /\ sched[d] /\ radio[d] = "off" /\ air = NONE
    /\ sched' = [sched EXCEPT ![d] = FALSE]
    /\ \E r \in IF d = Master THEN ble_ll_conn_tx_data_pdu(conn[d], d)
                ELSE {[Over(conn[d]) EXCEPT !.radio = s] : s \in {"rx", "off"}} :
        /\ Continue(d, r)
        /\ radio' = [radio EXCEPT ![d] = r.radio]
        /\ evq' = IF r.radio = "off" THEN [evq EXCEPT ![d] = Put(@, "end")] ELSE evq
    /\ UNCHANGED <<rxq, task, nsent, rcvd, reported>>

\* The events of a received PDU, put in before its connection event may end.
\* Bug: the end of the event is queued before its PDU.
RxEvents_swapped(q, over) == Put(IF over THEN Put(q, "end") ELSE q, "rx")

RxEvents(q, over) ==
    LET rx == Put(q, "rx")
    IN  IF over THEN Put(rx, "end") ELSE rx

\* The sender's part of the end of a transmission: ble_ll_conn_wait_txend.
SentRadio(d) == IF radio[d] = "txend" THEN "off" ELSE radio[d]
SentEvq(d) == IF radio[d] = "txend" THEN Put(evq[d], "end") ELSE evq[d]

\* The PDU on the air is received, damaged or not: ble_ll_rx_end puts it on
\* the LL task's queue before it calls ble_ll_conn_rx_isr_end.
Receive(crcok) ==
    /\ air # NONE
    /\ LET s == air.from
           d == Peer[s]
       IN  /\ radio[d] = "rx" /\ Len(rxq[d]) < sc.rxbufs[d]
           /\ rxq' = [rxq EXCEPT ![d] = Append(@, Received(air, crcok))]
           /\ \E r \in ble_ll_conn_rx_isr_end(conn[d], d, air, crcok) :
                /\ Continue(d, r)
                /\ radio' = [radio EXCEPT ![d] = r.radio, ![s] = SentRadio(s)]
                /\ evq' = [evq EXCEPT ![d] = RxEvents(@, r.radio = "off"),
                                      ![s] = SentEvq(s)]
    /\ UNCHANGED <<sched, task, nsent, rcvd, reported>>

\* Nothing of it is received.
Lose ==
    /\ air # NONE
    /\ air' = NONE
    /\ radio' = [radio EXCEPT ![air.from] = SentRadio(air.from)]
    /\ evq' = [evq EXCEPT ![air.from] = SentEvq(air.from)]
    /\ UNCHANGED <<conn, sched, rxq, task, nsent, rcvd, reported>>

\* The radio of d is switched off, whatever it is doing.
SwitchOff(d) ==
    /\ radio' = [radio EXCEPT ![d] = "off"]
    /\ air' = IF air # NONE /\ air.from = d THEN NONE ELSE air

\* ble_ll_conn_wfr_timer_exp: no PDU came.
ble_ll_conn_wfr_timer_exp(d) ==
    /\ radio[d] = "rx" /\ air = NONE
    /\ SwitchOff(d)
    /\ evq' = [evq EXCEPT ![d] = Put(@, "end")]
    /\ UNCHANGED <<conn, sched, rxq, task, nsent, rcvd, reported>>

\* ble_ll_conn_event_halt: another item of the schedule takes the radio.
ble_ll_conn_event_halt(d) ==
    /\ radio[d] # "off"
    /\ SwitchOff(d)
    /\ evq' = [evq EXCEPT ![d] = Put(@, "end")]
    /\ UNCHANGED <<conn, sched, rxq, task, nsent, rcvd, reported>>

\* ble_ll_conn_spvn_timer_cb: nothing was heard for too long.
ble_ll_conn_spvn_timer_cb(d) ==
    /\ conn[d].up /\ d \in sc.silences
    /\ evq' = [evq EXCEPT ![d] = Put(@, "spvn")]
    /\ UNCHANGED <<conn, radio, sched, air, rxq, task, nsent, rcvd, reported>>

-----------------------------------------------------------------------------
(* The link-layer task                                                     *)

\* Bug: the events of the connection stay queued.
ble_ll_conn_end_queued(d) ==
    /\ conn' = [conn EXCEPT ![d] = [ble_ll_conn_sm_new EXCEPT !.up = FALSE]]
    /\ sched' = [sched EXCEPT ![d] = FALSE]
    /\ evq' = [evq EXCEPT ![d] = Tail(@)]

\* ble_ll_conn_end.  The state machine goes to the free list; what is in its
\* fields is of no interest until ble_ll_conn_sm_new has set them again.
ble_ll_conn_end(d) ==
    /\ conn' = [conn EXCEPT ![d] = [ble_ll_conn_sm_new EXCEPT !.up = FALSE]]
    /\ sched' = [sched EXCEPT ![d] = FALSE]
    /\ evq' = [evq EXCEPT ![d] = IF Queued(@, "rx") THEN <<"rx">> ELSE <<>>]

Terminates(c) == Cardinality({i \in DOMAIN c.txq : c.txq[i].kind = "term"})

\* ble_ll_ctrl_terminate_start: does nothing if there is no mbuf.
ble_ll_ctrl_terminate_start(c) ==
    {c} \cup (IF Terminates(c) >= CtrlBufs THEN {}
              ELSE {[c EXCEPT !.txq = Append(@, TerminateInd), !.terminate_timeout = TermTmo]})

\* ble_ll_ctrl_chk_proc_start; the other procedures are not
\* modelled.
ble_ll_ctrl_chk_proc_start(c) ==
    IF c.disconnect_reason THEN ble_ll_ctrl_terminate_start(c) ELSE {c}

\* n times ble_ll_conn_next_event.  It fails when the terminate procedure
\* times out.
NextEvents(c, n) == [c EXCEPT !.terminate_timeout = IF @ > n THEN @ - n ELSE 0]
TimesOut(c, n) == c.terminate_timeout \in 1 .. n

\* ble_ll_conn_event_end.  The schedule may be full for several events.
ble_ll_conn_event_end(d) ==
    /\ task[d] = "idle" /\ evq[d] # <<>> /\ Head(evq[d]) = "end"
    /\ LET c == [conn[d] EXCEPT !.cons_rxd_bad_crc = 0]
       IN  \/ /\ \/ c.terminate_ind_txd \/ c.terminate_ind_rxd
                 \/ TimesOut(c, 1)
                 \/ d = Slave           \* the window widening is too large
              /\ ble_ll_conn_end(d)
              /\ UNCHANGED task
           \/ /\ ~c.terminate_ind_txd /\ ~c.terminate_ind_rxd /\ ~TimesOut(c, 1)
              /\ \E c1 \in ble_ll_ctrl_chk_proc_start(NextEvents(c, 1)), skipped \in 0 .. TermTmo :
                   IF TimesOut(c1, skipped) THEN ble_ll_conn_end(d) /\ UNCHANGED task
                   ELSE /\ conn' = [conn EXCEPT ![d] = NextEvents(c1, skipped)]
                        /\ sched' = [sched EXCEPT ![d] = TRUE]
                        /\ evq' = [evq EXCEPT ![d] = Tail(@)]
                        /\ task' = [task EXCEPT ![d] = IF c.completed_pkts > 0 THEN "report" ELSE @]
    /\ UNCHANGED <<radio, air, rxq, nsent, rcvd, reported>>

\* ble_ll_conn_num_comp_pkts_event_send: the count is read, and cleared
\* later, unless it is too early for the next report or there is no buffer.
ReportRead(d) ==
    /\ task[d] = "report"
    /\ \/ /\ reported' = [reported EXCEPT ![d] = @ + conn[d].completed_pkts]
          /\ task' = [task EXCEPT ![d] = "clear"]
       \/ /\ task' = [task EXCEPT ![d] = "idle"]
          /\ UNCHANGED reported
    /\ UNCHANGED <<conn, radio, sched, air, evq, rxq, nsent, rcvd>>

\* Bug: the count is not cleared.
ReportClear_kept(d) ==
    /\ task[d] = "clear"
    /\ task' = [task EXCEPT ![d] = "idle"]
    /\ UNCHANGED <<conn, radio, sched, air, evq, rxq, nsent, rcvd, reported>>

ReportClear(d) ==
    /\ task[d] = "clear"
    /\ conn' = [conn EXCEPT ![d].completed_pkts = 0]
    /\ task' = [task EXCEPT ![d] = "idle"]
    /\ UNCHANGED <<radio, sched, air, evq, rxq, nsent, rcvd, reported>>

\* Is a received PDU new?
\* Bug: repetitions are not told from new PDUs.
Fresh_any(c, r) == c.up /\ r # NONE

Fresh(c, r) == c.up /\ r # NONE /\ r.sn # c.last_rxd_sn

\* ble_ll_conn_rx_data_pdu
ble_ll_conn_rx_data_pdu(d, r) ==
    IF Fresh(conn[d], r)
    THEN /\ conn' = [conn EXCEPT ![d].last_rxd_sn = r.sn]
         /\ rcvd' = [rcvd EXCEPT ![Peer[d]] = @ \o r.octets]
    ELSE UNCHANGED <<conn, rcvd>>

\* ble_ll_rx_pkt_in takes PDUs off its queue until there is none; interrupts
\* may add to it meanwhile.
ble_ll_rx_pkt_in(d) ==
    /\ \/ task[d] = "idle" /\ evq[d] # <<>> /\ Head(evq[d]) = "rx"
       \/ task[d] = "rx"
    /\ evq' = IF task[d] = "idle" THEN [evq EXCEPT ![d] = Tail(@)] ELSE evq
    /\ task' = [task EXCEPT ![d] = IF Len(rxq[d]) > 1 THEN "rx" ELSE "idle"]
    /\ IF rxq[d] = <<>> THEN UNCHANGED <<conn, rcvd, rxq>>
       ELSE /\ ble_ll_conn_rx_data_pdu(d, Head(rxq[d]))
            /\ rxq' = [rxq EXCEPT ![d] = Tail(@)]
    /\ UNCHANGED <<radio, sched, air, nsent, reported>>

\* ble_ll_conn_spvn_timeout: ble_ll_conn_timeout switches the radio off in a
\* critical section and ends the connection after it.
ble_ll_conn_timeout(d) ==
    /\ \/ task[d] = "idle" /\ evq[d] # <<>> /\ Head(evq[d]) = "spvn"
       \/ task[d] = "timeout"
    /\ IF task[d] = "idle" THEN SwitchOff(d) ELSE UNCHANGED <<radio, air>>
    /\ IF TimeoutGap /\ task[d] = "idle"
       THEN /\ task' = [task EXCEPT ![d] = "timeout"]
            /\ evq' = [evq EXCEPT ![d] = Tail(@)]
            /\ UNCHANGED <<conn, sched>>
       ELSE /\ ble_ll_conn_end(d)
            /\ task' = [task EXCEPT ![d] = "idle"]
    /\ UNCHANGED <<rxq, nsent, rcvd, reported>>

\* ble_ll_conn_tx_pkt_in: the host's next packet, dropped without a connection.
ble_ll_conn_tx_pkt_in(d) ==
    /\ task[d] = "idle" /\ conn[d].up /\ nsent[d] < Len(sc.pkts[d])
    /\ nsent' = [nsent EXCEPT ![d] = @ + 1]
    /\ conn' = [conn EXCEPT ![d].txq = Append(@, DataPkt(nsent'[d], sc.pkts[d][nsent'[d]]))]
    /\ UNCHANGED <<radio, sched, air, evq, rxq, task, rcvd, reported>>

\* ble_ll_conn_hci_disconnect_cmd
ble_ll_conn_hci_disconnect_cmd(d) ==
    /\ task[d] = "idle" /\ conn[d].up /\ ~conn[d].disconnect_reason /\ d \in sc.disconnects
    /\ \E c \in ble_ll_ctrl_terminate_start([conn[d] EXCEPT !.disconnect_reason = TRUE]) :
            conn' = [conn EXCEPT ![d] = c]
    /\ UNCHANGED <<radio, sched, air, evq, rxq, task, nsent, rcvd, reported>>

\* ble_ll_conn_datalen_update, called by the data length procedure
ble_ll_conn_datalen_update(d) ==
    /\ task[d] = "idle" /\ conn[d].up /\ d \in sc.updates
    /\ \E n \in TxOctets \ {conn[d].eff_max_tx_octets} :
            conn' = [conn EXCEPT ![d].eff_max_tx_octets = n]
    /\ UNCHANGED <<radio, sched, air, evq, rxq, task, nsent, rcvd, reported>>

TaskStep(d) ==
    \/ ble_ll_conn_event_end(d) \/ ReportRead(d) \/ ReportClear(d)
    \/ ble_ll_rx_pkt_in(d) \/ ble_ll_conn_timeout(d)

Step ==
    \/ \E crcok \in BOOLEAN : Receive(crcok)
    \/ Lose
    \/ \E d \in Dev :
        \/ ble_ll_conn_event_start_cb(d) \/ ble_ll_conn_wfr_timer_exp(d)
        \/ ble_ll_conn_event_halt(d) \/ ble_ll_conn_spvn_timer_cb(d)
        \/ TaskStep(d)
        \/ ble_ll_conn_tx_pkt_in(d) \/ ble_ll_conn_hci_disconnect_cmd(d)
        \/ ble_ll_conn_datalen_update(d)

Do(A) == A /\ UNCHANGED sc

Next == Do(Step)

Spec == Init /\ [][Next]_vars

\* Interrupts that are due happen and the link-layer task runs.  The radio
\* does not damage or lose every PDU, nor does it fail to send the answer to
\* every one of the master's.  While both ends have the connection they go on
\* meeting: the slave listens when the master sends.
Meet == air # NONE /\ air.from = Master /\ radio[Slave] = "rx"

FairSpec ==
    /\ Spec
    /\ \A d \in Dev :
        /\ WF_vars(Do(TaskStep(d)))
        /\ WF_vars(Do(ble_ll_conn_event_start_cb(d)))
        /\ WF_vars(Do(ble_ll_conn_wfr_timer_exp(d)))
    /\ WF_vars(Do(Lose \/ \E crcok \in BOOLEAN : Receive(crcok)))
    /\ SF_vars(Do(air # NONE /\ air.from = Master /\ Receive(TRUE) /\ air' # NONE))
    /\ SF_vars(Do(air # NONE /\ air.from = Slave /\ Receive(TRUE)))
    /\ []<>(Meet \/ ~conn[Master].up \/ ~conn[Slave].up)

-----------------------------------------------------------------------------
(* Properties                                                              *)

PduKind == {"data", "empty", "term"}

\* The state machine's fields keep their ranges: of the transmit queue, at
\* most one entry is the empty PDU, whose mbuf belongs to the connection.
TypeOK ==
    \A d \in Dev :
        /\ \A i \in DOMAIN conn[d].txq :
            LET p == conn[d].txq[i]
            IN  /\ p.kind \in PduKind /\ p.id \in 0 .. nsent[d]
                /\ p.off <= p.len /\ p.sn \in {0, 1}
                /\ p.kind = "empty" => i = 1 /\ p.txd
        /\ conn[d].tx_seqnum \in {0, 1} /\ conn[d].next_exp_seqnum \in {0, 1}
        /\ conn[d].cons_rxd_bad_crc \in 0 .. 2
        /\ conn[d].last_rxd_sn \in 0 .. 2
        /\ radio[d] \in {"off", "rx", "txend"}
        /\ task[d] \in {"idle", "rx", "report", "clear", "timeout"}
        /\ Len(evq[d]) <= 3

\* The LL task has processed the PDUs of a connection event before it ends
\* the event: what ble_ll_rx_end's comment calls "connection event end
\* ordering".
EndAfterRx ==
    \A d \in Dev :
        task[d] = "idle" /\ evq[d] # <<>> /\ Head(evq[d]) = "end" => rxq[d] = <<>>

\* The host is not told of more completed packets than the peer has
\* acknowledged, whatever falls between the reading and the clearing of
\* completed_pkts: those it was told of are the first ones it sent, and none
\* of them is still in conn_txq.
NeverOverReported ==
    \A d \in Dev : conn[d].up =>
        /\ reported[d] <= nsent[d]
        /\ \A i \in DOMAIN conn[d].txq :
                conn[d].txq[i].kind = "data" => reported[d] < conn[d].txq[i].id

\* An end that takes its TERMINATE_IND for acknowledged does not leave its
\* peer waiting for the supervision time-out.
TerminateHeard ==
    \A d \in Dev : conn[d].terminate_ind_txd =>
                        conn[Peer[d]].terminate_ind_rxd \/ ~conn[Peer[d]].up

\* "If reached, we end the connection": a connection that has ended takes part
\* in no connection event, and none is scheduled for it.
EndedIsOver == \A d \in Dev : ~conn[d].up => radio[d] = "off" /\ ~sched[d]
=============================================================================
