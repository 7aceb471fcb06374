------------------------------ MODULE OsMqueue ------------------------------
(***************************************************************************)
(* Packet queues (os_mqueue, os_mbuf.c) as newtmgr, the shell and the BLE  *)
(* host use them: tasks put packets in and post the queue's event; one     *)
(* task waits for the event and then takes packets until there are none.   *)
(* Putting a packet in and posting the event are two critical sections.    *)
(* The event queue is OsEventq's, seen through the event's flag alone: a   *)
(* posted event is not posted again, and getting it clears the flag.       *)
(***************************************************************************)
EXTENDS Sequences

CONSTANTS Task, Pkt     \* the tasks that put packets in, and the packets

VARIABLES
    mq_head,    \* the packets in the queue
    ev_queued,  \* the flag of the queue's event
    putter,     \* of each task: "post" between the two parts of os_mqueue_put
    getter      \* the task that takes: "wait" in os_eventq_get, or "drain"

mqVars == <<mq_head, ev_queued, putter, getter>>

MqTypeOK ==
    /\ mq_head \in Seq(Pkt)
    /\ ev_queued \in BOOLEAN
    /\ putter \in [Task -> {"app", "post"}]
    /\ getter \in {"wait", "drain"}

MqInit ==
    /\ mq_head = <<>>
    /\ ev_queued = FALSE
    /\ putter = [t \in Task |-> "app"]
    /\ getter = "wait"

\* os_mqueue_put, first the critical section that inserts the packet,
os_mqueue_put(t, p) ==
    /\ putter[t] = "app"
    /\ mq_head' = Append(mq_head, p)
    /\ putter' = [putter EXCEPT ![t] = "post"]
    /\ UNCHANGED <<ev_queued, getter>>

\* then os_eventq_put.
os_mqueue_put_post(t) ==
    /\ putter[t] = "post"
    /\ ev_queued' = TRUE
    /\ putter' = [putter EXCEPT ![t] = "app"]
    /\ UNCHANGED <<mq_head, getter>>

\* The task that waits gets the event.
nmgr_task ==
    /\ getter = "wait" /\ ev_queued
    /\ ev_queued' = FALSE
    /\ getter' = "drain"
    /\ UNCHANGED <<mq_head, putter>>

\* os_mqueue_get returns the first packet,
os_mqueue_get ==
    /\ getter = "drain" /\ mq_head # <<>>
    /\ mq_head' = Tail(mq_head)
    /\ UNCHANGED <<ev_queued, putter, getter>>

\* Bug: the task takes one packet for each event.
nmgr_process_end_early ==
    /\ getter = "drain"
    /\ getter' = "wait"
    /\ UNCHANGED <<mq_head, ev_queued, putter>>

\* or NULL, and the task waits for the next event.
nmgr_process_end ==
    /\ getter = "drain" /\ mq_head = <<>>
    /\ getter' = "wait"
    /\ UNCHANGED <<mq_head, ev_queued, putter>>

MqNext ==
    \/ \E t \in Task : (\E p \in Pkt : os_mqueue_put(t, p)) \/ os_mqueue_put_post(t)
    \/ nmgr_task \/ os_mqueue_get \/ nmgr_process_end

MqSpec == MqInit /\ [][MqNext]_mqVars

\* No packet is stranded: while the queue holds one, the task that takes
\* packets is taking them, or its event is posted, or a task is about to post
\* it (os_mqueue_put inserts before it posts; the event's flag is cleared
\* before the queue is emptied).
NotStranded ==
    mq_head # <<>> =>
        getter = "drain" \/ ev_queued \/ \E t \in Task : putter[t] = "post"
=============================================================================
