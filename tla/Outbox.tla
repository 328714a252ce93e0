------------------------------- MODULE Outbox -------------------------------
(***************************************************************************)
(* The one bundle a process collects its messages in (src/network.c): a    *)
(* caller says where to (mpr_net_use_bus ...), adds messages, and leaves   *)
(* the bundle open for the next one, who sends it first if it wants another*)
(* destination.  A bundle for the process itself is handled while it is    *)
(* being sent, by handlers that use the same bundle.                       *)
(*                                                                         *)
(* A message stands for its destination.  What callers do is a list of     *)
(* steps; what is left of the calls that are under way is obTodo.          *)
(***************************************************************************)
EXTENDS Integers, Sequences

CONSTANTS
  ObPeer,        \* peers the process is linked to
  ObKind,        \* what subscribers may have asked for
  ObFull,        \* messages in a full bundle
  ObMay,         \* "bus_first": a local map is released while messages for the bus wait;
                 \* "answers": the handlers of local messages tell subscribers;
                 \* "reacts": handlers of the program, called within a call, call in turn
  ObMaxCalls     \* bound on calls

VARIABLES
  obOpen, obMsgs, \* net->bundle: whether there is one, and what is in it
  obDst,          \* net->addr.dst, mesh, dev and msg_type
  obTodo,
  obSent,         \* what was sent last: for whom each message was, and where it went
  obLost,         \* messages put into no bundle
  obCalls
obVars == <<obOpen, obMsgs, obDst, obTodo, obSent, obLost, obCalls>>
obNet == <<obOpen, obMsgs, obDst>>

ObBus == <<"bus">>
ObLocal == <<"local">>
ObMesh(p) == <<"mesh", p>>
ObSubs(k) == <<"subscribers", k>>

ObUse(d) == <<[do |-> "use", to |-> d]>>
ObUseAt(d) == <<[do |-> "use_at", to |-> d]>>    \* with a time of its own
ObAdd(d) == <<[do |-> "add", to |-> d]>>
ObDo(what) == <<[do |-> what, to |-> ObBus]>>
ObTell(d) == ObUse(d) \o ObAdd(d)
ObTellEach(D) == <<[do |-> "tell_each", to |-> D]>>    \* in the order of some list

(* What uses the bundle: mpr_net_send_name_probe, mpr_net_sync, mpr_map_refresh, *)
ObProbe == ObTell(ObBus)
(* mpr_obj_push, send_subscribe_msg, *)
ObPush == ObTell(ObBus) \o ObDo("send")
(* inform_device_subscribers, *)
ObInform(k) == ObTell(ObSubs(k))
(* mpr_net_handle_map, *)
ObAnswer(p) == ObTell(ObMesh(p)) \o ObAdd(ObMesh(p))
(* send_ping, *)
ObPing(p) == ObUseAt(ObMesh(p)) \o ObAdd(ObMesh(p)) \o ObDo("send")
(* mpr_dev_manage_subscriber, *)
ObSubscribed(p) ==
  ObTell(ObMesh(p)) \o ObAdd(ObMesh(p)) \o ObAdd(ObMesh(p)) \o ObDo("send")
(* mpr_sig_free, which tells the linked devices P with a map of the signal, *)
ObFreeSig(k, P) == ObTell(ObSubs(k)) \o ObTellEach({ObMesh(p) : p \in P})
(* mpr_link_housekeeping, which lets mpr_graph_remove_link call the program, *)
ObGiveUp(k) == ObUse(ObSubs(k)) \o ObDo("handler") \o ObAdd(ObSubs(k))
(* and mpr_net_housekeeping and mpr_net_maybe_send_ping. *)
ObHousekeep(k) == ObDo("send") \o ObTell(ObSubs(k)) \o ObTell(ObBus)
ObCall ==
  {ObProbe, ObPush}
  \cup (UNION {{ObInform(k), ObGiveUp(k), ObHousekeep(k)} : k \in ObKind})
  \cup {ObFreeSig(k, P) : k \in ObKind, P \in SUBSET ObPeer}
  \cup (UNION {{ObAnswer(p), ObPing(p), ObSubscribed(p)} : p \in ObPeer})
(* mpr_map_release of a map between two signals of the process *)
ObReleaseLocal == ObTell(ObLocal)
(* mpr_dev_free with a graph of its own: mpr_net_free_msgs *)
ObLeave == ObDo("drop") \o ObTell(ObBus) \o ObDo("send")
-----------------------------------------------------------------------------
ObIs(what) == obTodo # <<>> /\ Head(obTodo).do = what
ObTo == Head(obTodo).to
ObThen(steps) == obTodo' = steps \o Tail(obTodo)

(* mpr_net_use_local, use_bus, use_mesh, use_subscribers: is the bundle for another one? *)
ObOtherSameDev(d) ==                     \* mistake: the type is not looked at
  CASE d = ObLocal -> obDst # ObBus
    [] d[1] = "subscribers" -> obDst[1] # "subscribers"
    [] OTHER -> obDst # d
ObOther(d) == IF d = ObLocal THEN obDst # ObBus ELSE obDst # d
ObStepUse ==
  /\ ObIs("use") \/ ObIs("use_at")
  /\ ObThen((IF obOpen /\ (ObOther(ObTo) \/ ObIs("use_at")) THEN ObDo("send") ELSE <<>>)
            \o <<[do |-> "set", to |-> ObTo]>>)
  /\ UNCHANGED <<obNet, obSent, obLost, obCalls>>
ObStepSet ==
  /\ ObIs("set") /\ obDst' = ObTo
  /\ ObThen(IF obOpen THEN <<>> ELSE ObDo("init"))
  /\ UNCHANGED <<obOpen, obMsgs, obSent, obLost, obCalls>>

(* mpr_net_send *)
ObStepSend ==
  /\ ObIs("send") /\ obOpen' = FALSE /\ obMsgs' = <<>>
  /\ ObThen(IF obOpen /\ obDst = ObLocal
            THEN [i \in DOMAIN obMsgs |-> [do |-> "receive", to |-> obMsgs[i]]] ELSE <<>>)
  /\ obSent' = {<<obMsgs[i], obDst>> : i \in DOMAIN obMsgs}
  /\ UNCHANGED <<obDst, obLost, obCalls>>
(* handler_unmap in the process itself *)
ObStepReceive ==
  /\ ObIs("receive")
  /\ ObThen(IF "answers" \in ObMay THEN ObTellEach({ObSubs(k) : k \in ObKind}) ELSE <<>>)
  /\ UNCHANGED <<obNet, obSent, obLost, obCalls>>
(* init_bundle *)
ObStepInit ==
  /\ ObIs("init")
  /\ IF obOpen THEN ObThen(ObDo("send") \o ObDo("init")) /\ UNCHANGED obOpen
     ELSE ObThen(<<>>) /\ obOpen' = TRUE
  /\ UNCHANGED <<obMsgs, obDst, obSent, obLost, obCalls>>

(* mpr_net_add_msg *)
ObStepAdd ==
  /\ ObIs("add")
  /\ ObThen((IF Len(obMsgs) >= ObFull THEN ObDo("send") \o ObDo("init") ELSE <<>>)
            \o <<[do |-> "put", to |-> ObTo]>>)
  /\ UNCHANGED <<obNet, obSent, obLost, obCalls>>
ObStepPut ==
  /\ ObIs("put") /\ ObThen(<<>>)
  /\ IF obOpen THEN obMsgs' = Append(obMsgs, ObTo) /\ UNCHANGED obLost
     ELSE obLost' = obLost \cup {ObTo} /\ UNCHANGED obMsgs
  /\ UNCHANGED <<obOpen, obDst, obSent, obCalls>>

ObStepTellEach ==
  /\ ObIs("tell_each")
  /\ IF ObTo = {} THEN ObThen(<<>>)
     ELSE \E d \in ObTo : ObThen(ObTell(d) \o ObTellEach(ObTo \ {d}))
  /\ UNCHANGED <<obNet, obSent, obLost, obCalls>>

(* mpr_net_free_msgs *)
ObStepDrop ==
  /\ ObIs("drop") /\ ObThen(<<>>) /\ obOpen' = FALSE /\ obMsgs' = <<>>
  /\ UNCHANGED <<obDst, obSent, obLost, obCalls>>
(* a handler of the program, in the middle of a call *)
ObStepHandler ==
  /\ ObIs("handler")
  /\ \E call \in IF "reacts" \in ObMay THEN ObCall \cup {<<>>} ELSE {<<>>} : ObThen(call)
  /\ UNCHANGED <<obNet, obSent, obLost, obCalls>>

ObStep == ObStepUse \/ ObStepSet \/ ObStepSend \/ ObStepReceive \/ ObStepInit \/ ObStepAdd
          \/ ObStepPut \/ ObStepTellEach \/ ObStepDrop \/ ObStepHandler

ObBegin(call) ==
  /\ obTodo = <<>> /\ obCalls < ObMaxCalls /\ obCalls' = obCalls + 1 /\ obTodo' = call
  /\ UNCHANGED <<obNet, obSent, obLost>>

ObInit ==
  /\ obOpen = FALSE /\ obMsgs = <<>> /\ obDst = ObBus /\ obTodo = <<>>
  /\ obSent = {} /\ obLost = {} /\ obCalls = 0
ObNext ==
  \/ ObStep
  \/ \E call \in ObCall : ObBegin(call)
  \/ /\ "bus_first" \in ObMay \/ ~(obOpen /\ obDst = ObBus)
     /\ ObBegin(ObReleaseLocal)
  \/ obTodo = <<>> /\ obCalls < ObMaxCalls /\ obCalls' = ObMaxCalls /\ obTodo' = ObLeave
     /\ UNCHANGED <<obNet, obSent, obLost>>

-----------------------------------------------------------------------------
(* A message goes where its caller said, whatever was waiting in the bundle, *)
(* whoever had it before, and however full it was; and what waits between    *)
(* two calls waits for the destination it was meant for.                     *)
ObArrives ==
  /\ obLost = {} /\ \A x \in obSent : x[1] = x[2]
  /\ obTodo = <<>> => \A i \in DOMAIN obMsgs : obMsgs[i] = obDst
=============================================================================
