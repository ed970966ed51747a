----------------------------- MODULE EventStream -----------------------------
(***************************************************************************)
(* The published snapshot and those who watch it: mutateSnapshot, which    *)
(* changes it under one lock and notifies under another; subscriberSet,    *)
(* whose channels hold one notification; and handleEvents, which turns     *)
(* notifications into a throttled stream.  A snapshot is its number, and   *)
(* the one part of it that is a reference: Gluetun's selection, a map that *)
(* copies of the snapshot share.  The map is named by the number of the    *)
(* snapshot that brought it, its contents by the one that last wrote it.   *)
(***************************************************************************)
EXTENDS Integers

CONSTANTS
    Streams,      \* connections to /api/events
    MaxVersion    \* BOUND on the changes of the snapshot

ASSUME EventStreamAssumption == MaxVersion \in Nat

VARIABLES
    version,      \* number of the published snapshot
    map,          \* which map it holds
    written,      \* what is in that map
    changed,      \* history: how often a published map was written in place
    due,          \* changed, and subscribers not yet notified
    subs,         \* subscribers of the set
    closed,       \* streams whose channel was closed
    slot,         \* streams with a notification in their channel
    pending,      \* streams whose pending is set
    at,           \* where handleEvents is
    copy,         \* the snapshot it is encoding
    shown         \* the snapshot it last wrote

streamVars == <<version, map, written, changed, due, subs, closed, slot, pending, at, copy, shown>>
published  == <<version, map, written, changed, due>>

Nothing == [number |-> 0, map |-> 0, written |-> 0, changed |-> 0]

StreamInit ==
    /\ version = 0 /\ map = 0 /\ written = 0 /\ changed = 0 /\ due = FALSE
    /\ subs = {} /\ closed = {} /\ slot = {} /\ pending = {}
    /\ at = [s \in Streams |-> "none"]
    /\ copy = [s \in Streams |-> Nothing] /\ shown = [s \in Streams |-> Nothing]

-----------------------------------------------------------------------------
(* mutateSnapshot, in the run loop                                          *)

\* Encoders that hold the published map; before the first there is none.
Shared == {s \in Streams : map # 0 /\ at[s] = "encode" /\ copy[s].map = map}

\* Most changes replace what they change.
Change ==
    /\ ~due /\ version < MaxVersion /\ version' = version + 1 /\ due' = TRUE
    /\ UNCHANGED <<map, written, changed, subs, closed, slot, pending, at, copy, shown>>

\* checkGluetun publishes a map of its own making.
ChangeSelection ==
    /\ ~due /\ version < MaxVersion /\ version' = version + 1 /\ due' = TRUE
    /\ map' = version' /\ written' = version'
    /\ UNCHANGED <<changed, subs, closed, slot, pending, at, copy, shown>>

\* tryCandidates writes its target into the map that is there, under the lock
\* but in sight of everybody who copied the snapshot before: who is encoding
\* it sees what was there or what is there now.
ConfirmTarget ==
    /\ ~due /\ version < MaxVersion /\ version' = version + 1 /\ due' = TRUE
    /\ map' = IF map = 0 THEN version' ELSE map
    /\ written' = version'
    /\ changed' = IF map = 0 THEN changed ELSE changed + 1
    /\ \E torn \in SUBSET Shared :
          copy' = [s \in Streams |->
                      IF s \in torn THEN [copy[s] EXCEPT !.written = version'] ELSE copy[s]]
    /\ UNCHANGED <<subs, closed, slot, pending, at, shown>>

\* subscriberSet.notify: a slot that is taken already says what there is to say.
Notify ==
    /\ due /\ due' = FALSE /\ slot' = slot \cup subs
    /\ UNCHANGED <<version, map, written, changed, subs, closed, pending, at, copy, shown>>

-----------------------------------------------------------------------------
(* handleEvents                                                             *)

\* Faulty variant: the first snapshot is sent before there is a subscription.
ConnectLate(s) ==
    /\ at[s] = "none" /\ at' = [at EXCEPT ![s] = "send"]
    /\ UNCHANGED published /\ UNCHANGED <<subs, closed, slot, pending, copy, shown>>

\* Subscribe, then the first send.
Connect(s) ==
    /\ at[s] = "none" /\ at' = [at EXCEPT ![s] = "send"]
    /\ subs' = subs \cup {s} /\ closed' = closed \ {s} /\ slot' = slot \ {s}
    /\ UNCHANGED published /\ UNCHANGED <<pending, copy, shown>>

\* Engine.Snapshot copies the snapshot under its lock.
Read(s) ==
    /\ at[s] = "send" /\ at' = [at EXCEPT ![s] = "encode"]
    /\ copy' = [copy EXCEPT ![s] = [number |-> version, map |-> map, written |-> written,
                                    changed |-> changed]]
    /\ UNCHANGED published /\ UNCHANGED <<subs, closed, slot, pending, shown>>

\* Faulty variant: the snapshot is a pointer, read again while it is encoded.
SentByReference(s) ==
    /\ at[s] = "encode" /\ at' = [at EXCEPT ![s] = "wait"]
    /\ shown' = [shown EXCEPT ![s] = [copy[s] EXCEPT !.written = written]]
    /\ UNCHANGED published /\ UNCHANGED <<subs, closed, slot, pending, copy>>

\* Encoded and written to a client that reads.
Sent(s) ==
    /\ at[s] = "encode" /\ at' = [at EXCEPT ![s] = "wait"]
    /\ shown' = [shown EXCEPT ![s] = copy[s]]
    /\ UNCHANGED published /\ UNCHANGED <<subs, closed, slot, pending, copy>>

SendFails(s) ==
    /\ at[s] = "encode" /\ at' = [at EXCEPT ![s] = "return"]
    /\ UNCHANGED published /\ UNCHANGED <<subs, closed, slot, pending, copy, shown>>

\* A case of the select: a notification, the throttle, the end of the request.
Receive(s) ==
    /\ at[s] = "wait" /\ s \in slot
    /\ slot' = slot \ {s} /\ pending' = pending \cup {s}
    /\ UNCHANGED published /\ UNCHANGED <<subs, closed, at, copy, shown>>

Throttle(s) ==
    /\ at[s] = "wait" /\ s \in pending
    /\ pending' = pending \ {s} /\ at' = [at EXCEPT ![s] = "send"]
    /\ UNCHANGED published /\ UNCHANGED <<subs, closed, slot, copy, shown>>

Disconnect(s) ==
    /\ at[s] = "wait" /\ at' = [at EXCEPT ![s] = "return"]
    /\ UNCHANGED published /\ UNCHANGED <<subs, closed, slot, pending, copy, shown>>

\* The deferred cancel takes the channel out of the set and closes it.
Cancel(s) ==
    /\ at[s] = "return" /\ at' = [at EXCEPT ![s] = "none"]
    /\ subs' = subs \ {s} /\ closed' = closed \cup {s}
    /\ slot' = slot \ {s} /\ pending' = pending \ {s}
    /\ copy' = [copy EXCEPT ![s] = Nothing] /\ shown' = [shown EXCEPT ![s] = Nothing]
    /\ UNCHANGED published
=============================================================================
