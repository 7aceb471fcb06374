--------------------------- MODULE OsMqueueProofs ---------------------------
(***************************************************************************)
(* For any number of tasks and packets, no packet is stranded in a queue.  *)
(***************************************************************************)
EXTENDS OsMqueue, TLAPS

\* The inductive invariant: with the types, the property itself.
MqInv == MqTypeOK /\ NotStranded

LEMMA MqInit_MqInv == MqInit => MqInv
<1> SUFFICES ASSUME MqInit PROVE MqInv
    OBVIOUS
<1>1. mq_head \in Seq(Pkt) /\ NotStranded
    BY DEF MqInit, NotStranded
<1>2. ev_queued \in BOOLEAN
    BY Zenon DEF MqInit
<1>3. putter \in [Task -> {"app", "post"}] /\ getter \in {"wait", "drain"}
    BY DEF MqInit
<1> QED BY <1>1, <1>2, <1>3 DEF MqInv, MqTypeOK

LEMMA MqNext_MqInv == MqInv /\ [MqNext]_mqVars => MqInv'
<1> SUFFICES ASSUME MqInv, [MqNext]_mqVars PROVE MqInv'
    OBVIOUS
<1> USE DEF MqInv, MqTypeOK, NotStranded
<1>1. ASSUME NEW t \in Task, NEW p \in Pkt, os_mqueue_put(t, p) PROVE MqInv'
    <2>1. putter'[t] = "post"
        BY <1>1 DEF os_mqueue_put
    <2>2. mq_head' \in Seq(Pkt)
        BY <1>1 DEF os_mqueue_put
    <2> QED BY <1>1, <2>1, <2>2 DEF os_mqueue_put
<1>2. ASSUME NEW t \in Task, os_mqueue_put_post(t) PROVE MqInv'
    BY <1>2 DEF os_mqueue_put_post
<1>3. ASSUME nmgr_task PROVE MqInv'
    BY <1>3 DEF nmgr_task
<1>4. ASSUME os_mqueue_get PROVE MqInv'
    BY <1>4 DEF os_mqueue_get
<1>5. ASSUME nmgr_process_end PROVE MqInv'
    BY <1>5 DEF nmgr_process_end
<1>6. ASSUME UNCHANGED mqVars PROVE MqInv'
    BY <1>6 DEF mqVars
<1> QED BY <1>1, <1>2, <1>3, <1>4, <1>5, <1>6 DEF MqNext

\* However many tasks put packets into the queue, and wherever they are in
\* os_mqueue_put: a packet in the queue is one that the queue's task is taking
\* or will be woken for.
THEOREM MqNotStranded == MqSpec => []NotStranded
<1>1. MqSpec => []MqInv
    BY MqInit_MqInv, MqNext_MqInv, PTL DEF MqSpec
<1>2. MqInv => NotStranded
    BY DEF MqInv
<1> QED BY <1>1, <1>2, PTL
=============================================================================
