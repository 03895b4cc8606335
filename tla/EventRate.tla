------------------------------ MODULE EventRate ------------------------------
(***************************************************************************)
(* EventRateMeter of event_rate.rs: a ring of buckets that several threads   *)
(* fill without a lock, each bucket an epoch and a count in one word.  An     *)
(* event is recorded under the epoch it was captured in, which may have       *)
(* passed by then.                                                            *)
(***************************************************************************)
EXTENDS Naturals, FiniteSets, FiniteSetsExt

CONSTANTS Threads,     \* threads that record
          Buckets,     \* bucket_count
          MaxEpoch,    \* bound: the clock
          MaxRecords,  \* bound: events
          MaxCount     \* the largest count of a bucket (u32::MAX)

VARIABLES epoch,   \* now_ms / bucket_ms
          slot,    \* slot[i]: the packed word of bucket i
          total,
          rec,     \* rec[t]: the call of record thread t is in
          recorded,  \* for the properties: events recorded, by epoch
          late,    \* for the properties: an event found its bucket reused, or full
          budget

meterVars == <<epoch, slot, total, rec, recorded, late, budget>>

pack(e, n) == [epoch |-> e, count |-> n]
NotRecording == [at |-> "idle", epoch |-> 0, current |-> pack(0, 0)]

MeterInit ==
    /\ epoch = 0 /\ slot = [i \in 0 .. Buckets - 1 |-> pack(0, 0)] /\ total = 0
    /\ rec = [t \in Threads |-> NotRecording]
    /\ recorded = [e \in 0 .. MaxEpoch |-> 0] /\ late = FALSE /\ budget = MaxRecords

\* record, up to the first load.
RecordLoads(t) ==
    /\ rec[t].at = "idle" /\ budget > 0 /\ budget' = budget - 1
    /\ rec' = [rec EXCEPT ![t] = [at |-> "exchange", epoch |-> epoch, current |-> slot[epoch % Buckets]]]
    /\ UNCHANGED <<epoch, slot, total, recorded, late>>

Saturated(r) == r.current.epoch = r.epoch /\ r.current.count = MaxCount
Counted(r) == IF r.current.epoch = r.epoch THEN pack(r.epoch, r.current.count + 1) ELSE pack(r.epoch, 1)

exchange(t) == slot[rec[t].epoch % Buckets] = rec[t].current

\* compare_exchange_weak: on failure the word found is the one to try next.
RecordExchanges(t) ==
    /\ rec[t].at = "exchange" /\ UNCHANGED <<epoch, total, budget>>
    /\ IF Saturated(rec[t])
       THEN rec' = [rec EXCEPT ![t] = NotRecording] /\ late' = TRUE /\ UNCHANGED <<slot, recorded>>
       ELSE IF exchange(t)
       THEN /\ slot' = [slot EXCEPT ![rec[t].epoch % Buckets] = Counted(rec[t])]
            /\ recorded' = [recorded EXCEPT ![rec[t].epoch] = @ + 1]
            /\ late' = (late \/ rec[t].current.epoch > rec[t].epoch)
            /\ rec' = [rec EXCEPT ![t].at = "total"]
       ELSE /\ rec' = [rec EXCEPT ![t].current = slot[rec[t].epoch % Buckets]]
            /\ UNCHANGED <<slot, recorded, late>>

RecordAdds(t) ==
    /\ rec[t].at = "total" /\ total' = total + 1
    /\ rec' = [rec EXCEPT ![t] = NotRecording]
    /\ UNCHANGED <<epoch, slot, recorded, late, budget>>

EpochPasses == /\ epoch < MaxEpoch /\ epoch' = epoch + 1
               /\ UNCHANGED <<slot, total, rec, recorded, late, budget>>

\* now_epoch.wrapping_sub(epoch) < span; a bucket of a later epoch wraps around.
InWindow(e) == e <= epoch /\ epoch - e < Buckets

events_in_window == MapThenSumSet(LAMBDA i : IF InWindow(slot[i].epoch) THEN slot[i].count ELSE 0,
                                  0 .. Buckets - 1)

MeterNext == EpochPasses \/ \E t \in Threads : RecordLoads(t) \/ RecordExchanges(t) \/ RecordAdds(t)

MeterTypeOK ==
    /\ slot \in [0 .. Buckets - 1 -> [epoch : 0 .. MaxEpoch, count : 0 .. MaxCount]]
    /\ total \in 0 .. MaxRecords

-----------------------------------------------------------------------------
InWindowRecorded == MapThenSumSet(LAMBDA e : IF InWindow(e) THEN recorded[e] ELSE 0, 0 .. MaxEpoch)

\* The window holds each event of the last bucket_count epochs once, whichever
\* threads recorded them and in whatever order.  An event that comes a whole
\* ring late, or finds its bucket full, may take others out of the count, but
\* the count is never too large (record, events_in_window).
WindowCounts ==
    /\ events_in_window <= InWindowRecorded
    /\ ~late => events_in_window = InWindowRecorded
=============================================================================
