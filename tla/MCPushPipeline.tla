--------------------------- MODULE MCPushPipeline ---------------------------
(* Small instances of PushPipeline: activities that end while reminders go  *)
(* out, starts that are checked by overlapping ticks, and one reminder to    *)
(* the end.                                                                  *)
EXTENDS PushPipeline, TLC

CONSTANTS d1, d2, t1, t2, w1, ending, reminder, start, s1, u1, u2, b1, b2

Devs == (s1 :> d1) @@ (u1 :> d1) @@ (u2 :> d1) @@ (b1 :> d1) @@ (b2 :> d2)
Kinds1 == (s1 :> "standard") @@ (u1 :> "live_activity_update") @@ (u2 :> "live_activity_update")
            @@ (b1 :> "push_to_start") @@ (b2 :> "push_to_start")
JobKinds == (ending :> "end") @@ (reminder :> "reminder") @@ (start :> "start")
Urgency == (ending :> 1) @@ (reminder :> 2) @@ (start :> 1)
Addressee == (ending :> d1) @@ (reminder :> AnyDevice) @@ (start :> d1)

DeviceOfTokens == [tok \in Tokens |-> Devs[tok]]
KindOfTokens == [tok \in Tokens |-> Kinds1[tok]]
KindOfJobs == [k \in Jobs |-> JobKinds[k]]
PriorityOfJobs == [k \in Jobs |-> Urgency[k]]
TargetOfJobs == [k \in Jobs |-> Addressee[k]]
OneWorker == [t \in Ticks |-> w1]

OneRow == [k \in Jobs |-> 1]
TwoLiveActivities == [k \in Jobs |-> IF Kind[k] \in {"start", "end"} THEN 2 ELSE 1]

\* Any of the ticks, so that the mixes keep the symmetry.
Ending == {[jobs |-> {reminder, ending}, tokens |-> {u1, u2}, ticks |-> {t}, tries |-> 1,
            events |-> {"register", "submit"}, ids |-> TwoLiveActivities, window |-> FALSE] : t \in Ticks}
\* A token that rests between two tries, and its app registering ahead meanwhile.
Resting == {[jobs |-> {ending}, tokens |-> {u1, u2}, ticks |-> {t}, tries |-> 2,
             events |-> {"register"}, ids |-> TwoLiveActivities, window |-> FALSE] : t \in Ticks}
Starting(events) == [jobs |-> {start}, tokens |-> {b1, b2}, ticks |-> Ticks, tries |-> 2,
                     events |-> events, ids |-> TwoLiveActivities, window |-> FALSE]
\* The reminder and the start of one moment, the app registering the activity,
\* and a process that dies while one of them goes out.
Deduped(jobs, tokens, events) ==
    {[jobs |-> jobs, tokens |-> tokens, ticks |-> {t}, tries |-> 1, events |-> events,
      ids |-> OneRow, window |-> TRUE] : t \in Ticks}
EndsAndStarts == Ending \cup Resting \cup {Starting({"mark", "submit", "crash", "raise"}),
                              Starting({"mark", "crash", "delete_device", "schedule"})}
                 \cup Deduped({start, reminder, ending}, {s1, b1, u1}, {"register"})
                 \cup Deduped({start, reminder}, {s1, b1}, {"crash"})
Reminder(events) == [jobs |-> {reminder}, tokens |-> {s1}, ticks |-> Ticks, tries |-> 2,
                     events |-> events, ids |-> OneRow, window |-> FALSE]
Reminding == {Reminder({"mark", "crash"}), Reminder({"crash", "raise"}),
              Reminder({"mark", "full_sync", "clear"})}

TickSymmetry == Permutations(Ticks)
=============================================================================
