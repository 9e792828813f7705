---------------------------- MODULE SerialQueue ----------------------------
(***************************************************************************)
(* What Executor (src/runtime/executor.cpp) promises those who post tasks: *)
(* tasks run one at a time in the order in which they were taken, until    *)
(* stop() is called, and none begins after that, for ever.                 *)
(***************************************************************************)
EXTENDS Integers, Sequences

CONSTANTS Jobs, None

VARIABLES queue,    (* the jobs taken, the next first                      *)
          task,     (* the job that is executing                           *)
          open      (* stop has not been called yet                        *)

Init == queue = <<>> /\ task = None /\ open = TRUE

Accept(j) == queue' = Append(queue, j) /\ UNCHANGED <<task, open>>

Begin ==
    /\ open
    /\ task = None
    /\ queue # <<>>
    /\ task' = Head(queue)
    /\ queue' = Tail(queue)
    /\ UNCHANGED open

End == task # None /\ task' = None /\ UNCHANGED <<queue, open>>

Close == open' = FALSE /\ UNCHANGED <<queue, task>>

(* The timers that stop cancels join the queue, to be skipped *)
Abort ==
    /\ ~open
    /\ Len(queue) <= Len(queue')
    /\ SubSeq(queue', 1, Len(queue)) = queue
    /\ UNCHANGED <<task, open>>

Skip ==
    /\ ~open
    /\ queue # <<>>
    /\ queue' = Tail(queue)
    /\ UNCHANGED <<task, open>>

Next ==
    \/ \E j \in Jobs : Accept(j)
    \/ Begin \/ End \/ Close \/ Abort \/ Skip

Spec == Init /\ [][Next]_<<queue, task, open>>
=============================================================================
