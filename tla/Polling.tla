------------------------------ MODULE Polling ------------------------------
(***************************************************************************)
(* Who polls (src/network.c): the program calls mpr_graph_poll, or has a   *)
(* thread do it in a loop, and handlers run in the middle of a poll.  The  *)
(* only thing that keeps two polls apart is a plain counter, polling, and  *)
(* whether there is thread data.                                           *)
(*                                                                         *)
(* What a thread is doing is a stack of places in calls, innermost last: a *)
(* handler that polls is a place above the one of the poll that called it. *)
(***************************************************************************)
EXTENDS Integers, Sequences, SequencesExt

CONSTANTS
  PlWorker,      \* threads that may be created
  PlMay,         \* "starts inside", "stops inside": what handlers may do besides polling
  PlMaxSpin,     \* bound on polling, which refused polls of a thread count up
  PlMaxCalls     \* bound on what the program calls
PlThread == {"program"} \cup PlWorker

VARIABLES
  plPolling,     \* net->polling
  plData,        \* net->thread_data: the thread it is about
  plActive,      \* td->is_active of each thread
  plAlive,       \* the threads that were created and have not returned
  plStack,
  plCalls
plVars == <<plPolling, plData, plActive, plAlive, plStack, plCalls>>

PlNone == "none"
ASSUME PlAssumption == "program" \notin PlWorker /\ PlNone \notin PlWorker
PlPlace(at) == [at |-> at, read |-> 0, whom |-> PlNone]
PlAt(t, place) == plStack[t] # <<>> /\ Last(plStack[t]).at = place
PlGoto(t, place) == plStack' = [plStack EXCEPT ![t] = Append(Front(@), place)]
PlEnter(t, place) == plStack' = [plStack EXCEPT ![t] = Append(@, place)]
PlReturn(t) == plStack' = [plStack EXCEPT ![t] = Front(@)]
(* a call may come from the program between two others, or from a handler *)
PlInside(t) == PlAt(t, "polling")
PlMayCall(t) ==
  /\ (t = "program" /\ plStack[t] = <<>>) \/ PlInside(t)
  /\ plCalls < PlMaxCalls /\ plCalls' = plCalls + 1

-----------------------------------------------------------------------------
(* mpr_net_poll *)
PlFreeUnlessPolling == plPolling = 0      \* mistake: the thread is not asked about
PlFree == plData = PlNone /\ plPolling = 0
PlPoll(t) ==
  /\ PlMayCall(t) /\ PlEnter(t, PlPlace("called"))
  /\ UNCHANGED <<plPolling, plData, plActive, plAlive>>
PlCheck(t) ==
  /\ PlAt(t, "called") /\ IF PlFree THEN PlGoto(t, PlPlace("load")) ELSE PlReturn(t)
  /\ UNCHANGED <<plPolling, plData, plActive, plAlive, plCalls>>

(* mpr_net_poll_internal: the counter is read, and written, *)
PlLoad(t) ==
  /\ PlAt(t, "load") /\ PlGoto(t, [PlPlace("store") EXCEPT !.read = plPolling])
  /\ UNCHANGED <<plPolling, plData, plActive, plAlive, plCalls>>
PlStore(t) ==
  /\ PlAt(t, "store")
  /\ LET count == Last(plStack[t]).read + 1 IN
     /\ count <= PlMaxSpin /\ plPolling' = count
     /\ IF count > 1 THEN PlReturn(t) ELSE PlGoto(t, PlPlace("polling"))
  /\ UNCHANGED <<plData, plActive, plAlive, plCalls>>
(* and set to zero at the end of what is done once a time *)
PlLeave(t) ==
  /\ PlInside(t) /\ plPolling' = 0 /\ PlReturn(t)
  /\ UNCHANGED <<plData, plActive, plAlive, plCalls>>

(* net_thread_func *)
PlLoop(w) ==
  /\ w \in plAlive /\ plStack[w] = <<>>
  /\ IF plActive[w] THEN PlEnter(w, PlPlace("load")) /\ UNCHANGED plAlive
     ELSE plAlive' = plAlive \ {w} /\ UNCHANGED plStack
  /\ UNCHANGED <<plPolling, plData, plActive, plCalls>>

(* mpr_net_start_polling: the thread runs before its data are noted *)
PlStart(t) ==
  /\ PlMayCall(t) /\ (PlInside(t) => "starts inside" \in PlMay)
  /\ IF plData # PlNone THEN UNCHANGED <<plActive, plAlive, plStack>>
     ELSE \E w \in PlWorker \ plAlive :
            /\ \A u \in DOMAIN plStack : \A i \in DOMAIN plStack[u] : plStack[u][i].whom # w
            /\ plActive' = [plActive EXCEPT ![w] = TRUE] /\ plAlive' = plAlive \cup {w}
            /\ PlEnter(t, [PlPlace("created") EXCEPT !.whom = w])
  /\ UNCHANGED <<plPolling, plData>>
PlNote(t) ==
  /\ PlAt(t, "created") /\ plData' = Last(plStack[t]).whom /\ PlReturn(t)
  /\ UNCHANGED <<plPolling, plActive, plAlive, plCalls>>

(* mpr_net_stop_polling: a thread cannot wait for itself, and the data stay *)
PlStop(t) ==
  /\ PlMayCall(t) /\ (PlInside(t) => "stops inside" \in PlMay)
  /\ IF plData = PlNone \/ ~plActive[plData] THEN UNCHANGED <<plActive, plStack>>
     ELSE /\ plActive' = [plActive EXCEPT ![plData] = FALSE]
          /\ IF t = plData THEN UNCHANGED plStack
             ELSE PlEnter(t, [PlPlace("join") EXCEPT !.whom = plData])
  /\ UNCHANGED <<plPolling, plData, plAlive>>
PlAwaits(t) == Last(plStack[t]).whom \notin plAlive
PlJoin(t) ==
  /\ PlAt(t, "join") /\ PlAwaits(t)
  /\ plData' = PlNone /\ PlReturn(t)
  /\ UNCHANGED <<plPolling, plActive, plAlive, plCalls>>

PlInit ==
  /\ plPolling = 0 /\ plData = PlNone /\ plCalls = 0 /\ plAlive = {}
  /\ plActive = [w \in PlWorker |-> FALSE] /\ plStack = [t \in PlThread |-> <<>>]
PlNext ==
  \/ \E t \in PlThread : PlPoll(t) \/ PlCheck(t) \/ PlLoad(t) \/ PlStore(t) \/ PlLeave(t)
                         \/ PlStart(t) \/ PlNote(t) \/ PlStop(t) \/ PlJoin(t)
  \/ \E w \in PlWorker : PlLoop(w)
PlSpec == PlInit /\ [][PlNext]_plVars

-----------------------------------------------------------------------------
(* No two polls are under way at once, in one thread or in two: the records, the   *)
(* bundle and the maps are nobody's but the poll's.  When a call to stop has       *)
(* returned, no thread polls any more; and a poll is not refused when nobody polls *)
(* (thread_data and polling are as they were before).                              *)
PlAlone ==
  /\ \A t, u \in PlThread : \A i \in DOMAIN plStack[t], j \in DOMAIN plStack[u] :
       plStack[t][i].at = "polling" /\ plStack[u][j].at = "polling" => t = u /\ i = j
  /\ plStack["program"] = <<>> =>
       /\ plData = PlNone => plAlive = {}
       /\ plAlive = {} => PlFree
=============================================================================
