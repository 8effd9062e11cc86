---------------------------- MODULE ReminderBucket ----------------------------
(* The JetStream key-value bucket "ticket_reminders" and its WatchAll, an    *)
(* external service modelled from how clients/nats.go uses it.  The bucket   *)
(* keeps one value per key (no history is configured); each write gets the   *)
(* next sequence number of the stream as its revision.  A watcher first gets *)
(* the last value of every key, then every write, in revision order; a value *)
(* overwritten before it is sent is gone from the stream and never sent.     *)
EXTENDS ReminderData, Sequences

VARIABLES kv,        \* the last value of each key
          seq,       \* the last sequence number of the stream
          sentSeq,   \* the last sequence number sent to the watcher
          inbox      \* sent to the watcher and not yet received by it

Entries == [status : Statuses, time : Times, of : Nat, rev : Nat]
Updates == [key : Keys, status : Statuses, time : Times, rev : Nat]

NoEntry == [status |-> "none", time |-> 0, of |-> 0, rev |-> 0]

(* status, time and "of" are the fields Status, RemindTime and Revision of   *)
(* the stored data.Reminder; rev is the revision the bucket gives the write. *)
Write(k, s, t, of) ==
  /\ seq' = seq + 1
  /\ kv' = [kv EXCEPT ![k] = [status |-> s, time |-> t, of |-> of, rev |-> seq + 1]]

Unsent == {k \in Keys : kv[k].rev > sentSeq}

(* The server sends the oldest value the watcher has not been sent yet.      *)
Transmit(k) ==
  /\ k \in Unsent
  /\ \A j \in Unsent : kv[k].rev <= kv[j].rev
  /\ inbox' = Append(inbox, [key |-> k, status |-> kv[k].status,
                             time |-> kv[k].time, rev |-> kv[k].rev])
  /\ sentSeq' = kv[k].rev
  /\ UNCHANGED <<kv, seq>>

==============================================================================
