------------------------------ MODULE Tracking ------------------------------
(***************************************************************************)
(* TrackingService, ShipmentsService and ReviewsService: where a shipment  *)
(* is.  A public lookup answers from the Redis cache, or asks the carrier, *)
(* stores the scans it has not seen, announces the new status, invites     *)
(* feedback on a delivery and caches its answer.  Staff map a shipment to  *)
(* a carrier's number (AWB) and overrule the carrier's status.             *)
(*                                                                         *)
(* A call is a chain of awaited statements, one action each; those of      *)
(* other calls come in between.  The notification rows and jobs that an    *)
(* announcement makes are the state of Notifications: here it goes through *)
(* or throws.  Logs and the carrier's latency are left out.                *)
(***************************************************************************)
EXTENDS Integers

CONSTANTS
  Shipments,
  Providers,     \* carriers and resellers
  AWBs,          \* the numbers carriers give parcels
  Statuses,      \* TrackingStatusCode
  PickedUp,      \* PICKED_UP, the status of a booking
  Delivered,     \* DELIVERED, the terminal one
  Null,          \* null column, cache miss, no shipment
  Emailable,     \* shipments whose customer has an e-mail address
  Scanned,       \* carriers that may answer with a parcel's history
  Summarised,    \* carriers that may answer with its current status only
  Dated,         \* those whose summary may date a delivery
  Offset,        \* the time of day a status without one is given (hash of its raw text)
  DayLength,     \* ticks per day
  Calls,         \* the requests the server can have in flight at once
  Followed,      \* bound: the shipments anybody looks up
  MaxTime,       \* bound: the clock
  MaxScans,      \* bound: events the carriers record in a behaviour
  MaxStaffCalls  \* bound: mappings and overrides in a behaviour

ASSUME TrackingAssumption ==
  /\ Delivered \in Statuses /\ PickedUp \in Statuses
  /\ Null \notin Shipments \cup AWBs \cup Statuses \cup Providers
  /\ Emailable \subseteq Shipments /\ Followed \subseteq Shipments
  /\ Scanned \cup Summarised = Providers /\ Dated \subseteq Providers
  /\ DayLength \in Nat \ {0}
  /\ Offset \in [Statuses -> 0 .. DayLength - 1]
  /\ MaxTime \in Nat /\ MaxScans \in Nat /\ MaxStaffCalls \in Nat

VARIABLES
  apart,     \* never changes: calls on one shipment, and mappings, do not overlap
  sound,     \* never changes: Redis answers and no handler dies
  clock,
  parcel,    \* per carrier and number: what the carrier knows of the parcel now
  scans,     \* the dated events in the carriers' histories
  recorded,  \* how many events the carriers have recorded
  shipment,  \* the Shipment rows
  awb,       \* the ExternalTrackingNumber rows: unique per shipment and provider
  events,    \* the TrackingEvent rows of each shipment
  cache,     \* the Redis entry of each shipment
  invited,   \* shipments with a Review row
  mails,     \* history: feedback invitations mailed
  calls,     \* per slot: the call in flight
  staffCalls \* how many staff calls have arrived

regime == <<apart, sound>>
world == <<clock, parcel, scans, recorded>>
rows == <<shipment, awb, events>>
feedback == <<invited, mails>>
vars == <<regime, world, rows, cache, feedback, calls, staffCalls>>

Scan == [provider : Providers, awb : AWBs, time : Nat, status : Statuses]

\* BookingDate (a day), DeliveryDate and Status.
Parcel == [booked : Nat, delivered : Nat, status : Statuses]

\* awb: Null on a manual override, else the number whose carrier reported it (the
\* row only keeps the mapping's id).  A row stored twice counts once.
EventRow == [provider : Providers, awb : AWBs \cup {Null}, time : Nat, status : Statuses]

ShipmentRow == [provider : Providers, status : Statuses \cup {Null}]

\* The part of TrackingResultDto that the database decides.
Answer == [status : Statuses \cup {Null}, events : SUBSET EventRow]

\* at: the statement the call is about to run.
\* lookup: reply compare store announce check invite read remember
\* override: override forget announce check invite     mapping: map
Statements == {"idle", "reply", "compare", "store", "announce", "check", "invite",
               "read", "remember", "override", "forget", "map"}

\* provider, awb: read or to be mapped.  scans: the reply, then what is new in it.
\* status: of the last event of the reply or of the override.  time: of the override.
\* changing: a mapping that differs from the one read.  told (history): until staff
\* step in and calls apart, the parcel's status at the carrier when it replied.
CallRow == [op : {"none", "lookup", "override", "map"}, at : Statements,
            on : Shipments \cup {Null}, provider : Providers \cup {Null},
            awb : AWBs \cup {Null}, scans : SUBSET Scan,
            status : Statuses \cup {Null}, time : Nat, changing : BOOLEAN,
            told : Statuses \cup {Null}, answer : Answer]

NoAnswer == [status |-> Null, events |-> {}]

Idle == [op |-> "none", at |-> "idle", on |-> Null, provider |-> Null, awb |-> Null,
         scans |-> {}, status |-> Null, time |-> 0, changing |-> FALSE,
         told |-> Null, answer |-> NoAnswer]

Busy(s) == \E c \in Calls : calls[c].on = s

\* The mapping the shipment is tracked by.
LiveAwb(s) == awb[s][shipment[s].provider]

Taken(s, p, a) == \E other \in Shipments \ {s} : awb[other][p] = a

Init ==
  /\ apart \in BOOLEAN /\ sound \in BOOLEAN
  /\ clock = 0
  /\ parcel = [p \in Providers |-> [a \in AWBs |-> Null]]
  /\ scans = {}
  /\ recorded = 0
  /\ shipment \in [Shipments -> [provider : Providers, status : {Null}]]
  /\ awb \in [Shipments -> [Providers -> AWBs \cup {Null}]]
  /\ \A s \in Shipments, p \in Providers, a \in AWBs : awb[s][p] = a => ~Taken(s, p, a)
  /\ events = [s \in Shipments |-> {}]
  /\ cache = [s \in Shipments |-> Null]
  /\ invited = {}
  /\ mails = [s \in Shipments |-> 0]
  /\ calls = [c \in Calls |-> Idle]
  /\ staffCalls = 0

-----------------------------------------------------------------------------
(* The carriers *)

Tick ==
  /\ clock < MaxTime
  /\ clock' = clock + 1
  /\ UNCHANGED <<regime, parcel, scans, recorded, rows, cache, feedback, calls, staffCalls>>

ScansOf(p, a) == {x \in scans : x.provider = p /\ x.awb = a}

DayStart(t) == (t \div DayLength) * DayLength

Report(p, a, t, st) == [provider |-> p, awb |-> a, time |-> t, status |-> st]

Record == recorded < MaxScans /\ recorded' = recorded + 1

\* The event is in the history.  Its time need not be later than that of the others:
\* it is given to the minute, or not at all and then is midnight, and depots enter
\* their scans in any order.
EnterScan(p, a, t, st) == scans' = scans \cup {Report(p, a, t, st)}

\* The parcel's status changes.  The event may have no readable date: the history is
\* read without it.
ScanParcel(p, a) ==
  /\ Record
  /\ \E t \in 0 .. clock, st \in Statuses :
       /\ parcel[p][a] # Null => parcel[p][a].booked <= t
       /\ parcel' = [parcel EXCEPT ![p][a] =
            [booked |-> IF @ = Null THEN DayStart(t) ELSE @.booked,
             delivered |-> IF st = Delivered THEN t ELSE 0,
             status |-> st]]
       /\ EnterScan(p, a, t, st) \/ UNCHANGED scans
  /\ UNCHANGED <<regime, clock, rows, cache, feedback, calls, staffCalls>>

\* An event is entered when the status has moved on from it already.
ScanLate(p, a) ==
  /\ Record
  /\ parcel[p][a] # Null
  /\ \E t \in 0 .. clock, st \in Statuses : EnterScan(p, a, t, st)
  /\ UNCHANGED <<regime, clock, parcel, rows, cache, feedback, calls, staffCalls>>

Latest(xs) == {x \in xs : \A y \in xs : y.time <= x.time}

\* buildEventsFromHistory, in ascending order: any of the latest events is the last.
Histories(p, a) ==
  LET history == ScansOf(p, a) IN
  IF history = {} THEN {[events |-> {}, last |-> Null]}
  ELSE {[events |-> history, last |-> x.status] : x \in Latest(history)}

\* dayAnchoredEventTime
AnchoredTime(st) == DayStart(clock) + Offset[st]

\* buildEventsFromSummary: the booking, unless it is undated, and the current status,
\* unless that is the booking.  Only a delivery may have a time of its own.
Summaries(p, a) ==
  LET now == parcel[p][a]
      booking == Report(p, a, now.booked, PickedUp)
      times == {AnchoredTime(now.status)}
                 \cup {t \in {now.delivered} : now.status = Delivered /\ p \in Dated}
      current == {Report(p, a, t, now.status) : t \in times}
      sequences == {{x} : x \in current}
                     \cup IF now.status = PickedUp THEN {{booking}} ELSE {{booking, x} : x \in current}
  IN {[events |-> sequence, last |-> now.status] : sequence \in sequences}

\* trackShipment: the history, or a summary of a parcel that has none.
Replies(p, a) ==
  {reply \in Histories(p, a) : p \in Scanned}
    \cup {reply \in Summaries(p, a) : p \in Summarised /\ (p \in Scanned => ScansOf(p, a) = {})}

-----------------------------------------------------------------------------
(* Calls in flight *)

Begin(c, call) ==
  /\ calls[c] = Idle
  /\ apart => /\ ~Busy(call.on)
              /\ call.op = "map" => \A d \in Calls : calls[d].op # "map"
  /\ calls' = [calls EXCEPT ![c] = call]

BeginStaff(c, call) == Begin(c, call) /\ staffCalls < MaxStaffCalls /\ staffCalls' = staffCalls + 1

At(c, statement) == calls[c].at = statement

End(c) == calls' = [calls EXCEPT ![c] = Idle]

Goto(c, statement) == calls' = [calls EXCEPT ![c].at = statement]

\* The announcement is made: a delivery is asked about, a lookup goes on to its answer.
Proceed(c) ==
  IF calls[c].op = "lookup"
  THEN calls' = [calls EXCEPT ![c].at = "read", ![c].status = Null]
  ELSE End(c)

-----------------------------------------------------------------------------
(* TrackingService.getStatus.  A cache hit and a shipment without a mapping  *)
(* are answered at once and change nothing.                                  *)

BeginLookup(c, s) ==
  /\ s \in Followed
  /\ cache[s] = Null
  /\ LiveAwb(s) # Null
  /\ Begin(c, [Idle EXCEPT !.op = "lookup", !.at = "reply", !.on = s,
                           !.provider = shipment[s].provider, !.awb = LiveAwb(s)])
  /\ UNCHANGED <<regime, world, rows, cache, feedback, staffCalls>>

CarrierReplies(c) ==
  LET p == calls[c].provider
      a == calls[c].awb
  IN
  /\ At(c, "reply")
  /\ parcel[p][a] # Null
  /\ \E reply \in Replies(p, a) :
       calls' = [calls EXCEPT
         ![c].at = IF reply.events = {} THEN "read" ELSE "compare",
         ![c].scans = reply.events,
         ![c].status = reply.last,
         ![c].told = IF apart /\ staffCalls = 0 THEN parcel[p][a].status ELSE Null]
  /\ UNCHANGED <<regime, world, rows, cache, feedback, staffCalls>>

\* The carrier fails, times out or has no record of the number: the answer comes from
\* the database, uncached.
CarrierFails(c) ==
  /\ At(c, "reply")
  /\ End(c)
  /\ UNCHANGED <<regime, world, rows, cache, feedback, staffCalls>>

Newer(x, s) == \A e \in events[s] : x.time > e.time

\* persistNewEvents reads the newest row: an event of an equal time is not new.
CompareEvents(c) ==
  LET new == {x \in calls[c].scans : Newer(x, calls[c].on)} IN
  /\ At(c, "compare")
  /\ calls' = [calls EXCEPT ![c].at = IF new = {} THEN "read" ELSE "store",
                            ![c].scans = new,
                            ![c].status = IF new = {} THEN Null ELSE @]
  /\ UNCHANGED <<regime, world, rows, cache, feedback, staffCalls>>

\* Mutant: the first of the new events becomes the status.
StoreOldest(c) ==
  LET s == calls[c].on
      new == calls[c].scans
      status == (CHOOSE x \in new : \A y \in new : x.time <= y.time).status
  IN
  /\ At(c, "store")
  /\ events' = [events EXCEPT ![s] = @ \cup new]
  /\ shipment' = [shipment EXCEPT ![s].status = status]
  /\ calls' = [calls EXCEPT ![c].at = "announce", ![c].scans = {}, ![c].status = status]
  /\ UNCHANGED <<regime, world, awb, cache, feedback, staffCalls>>

\* Its transaction: the new rows, and the last of them, which is the last of the reply,
\* as the shipment's status.
StoreEvents(c) ==
  LET s == calls[c].on IN
  /\ At(c, "store")
  /\ events' = [events EXCEPT ![s] = @ \cup calls[c].scans]
  /\ shipment' = [shipment EXCEPT ![s].status = calls[c].status]
  /\ calls' = [calls EXCEPT ![c].at = "announce", ![c].scans = {}]
  /\ UNCHANGED <<regime, world, awb, cache, feedback, staffCalls>>

\* Mutant: only staff's deliveries are asked about.
AnnounceQuietly(c) ==
  /\ At(c, "announce")
  /\ IF calls[c].status = Delivered /\ calls[c].op = "override"
     THEN Goto(c, "check") ELSE Proceed(c)
  /\ UNCHANGED <<regime, world, rows, cache, feedback, staffCalls>>

Announce(c) ==
  /\ At(c, "announce")
  /\ IF calls[c].status = Delivered THEN Goto(c, "check") ELSE Proceed(c)
  /\ UNCHANGED <<regime, world, rows, cache, feedback, staffCalls>>

\* buildDtoFromDb
ReadAnswer(c) ==
  LET s == calls[c].on IN
  /\ At(c, "read")
  /\ calls' = [calls EXCEPT ![c].at = "remember",
       ![c].answer = [status |-> shipment[s].status, events |-> events[s]]]
  /\ UNCHANGED <<regime, world, rows, cache, feedback, staffCalls>>

\* cacheResult
CacheAnswer(c) ==
  /\ At(c, "remember")
  /\ cache' = [cache EXCEPT ![calls[c].on] = calls[c].answer]
  /\ End(c)
  /\ UNCHANGED <<regime, world, rows, feedback, staffCalls>>

\* The entry's time to live, five minutes or a day, is over.
Expire(s) ==
  /\ cache[s] # Null
  /\ cache' = [cache EXCEPT ![s] = Null]
  /\ UNCHANGED <<regime, world, rows, feedback, calls, staffCalls>>

-----------------------------------------------------------------------------
(* ReviewsService.requestFeedback *)

CheckInvited(c) ==
  LET s == calls[c].on IN
  /\ At(c, "check")
  /\ IF s \in Emailable \ invited THEN Goto(c, "invite") ELSE Proceed(c)
  /\ UNCHANGED <<regime, world, rows, cache, feedback, staffCalls>>

\* Mutant: no unique constraint on Review.shipmentId.
InviteAgain(c) ==
  LET s == calls[c].on IN
  /\ At(c, "invite")
  /\ invited' = invited \cup {s}
  /\ mails' = [mails EXCEPT ![s] = @ + 1]
  /\ Proceed(c)
  /\ UNCHANGED <<regime, world, rows, cache, staffCalls>>

\* The insert and the mail it is followed by.  Review.shipmentId is unique: a second
\* insert throws, which ends the call without an answer of its own to cache.
Invite(c) ==
  LET s == calls[c].on IN
  /\ At(c, "invite")
  /\ IF s \in invited
     THEN End(c) /\ UNCHANGED feedback
     ELSE /\ invited' = invited \cup {s}
          /\ mails' = [mails EXCEPT ![s] = @ + 1]
          /\ Proceed(c)
  /\ UNCHANGED <<regime, world, rows, cache, staffCalls>>

-----------------------------------------------------------------------------
(* ShipmentsService *)

\* Mutant: the status is not looked for among the canonical ones.
BeginOverrideUnchecked(c, s, st) ==
  /\ BeginStaff(c, [Idle EXCEPT !.op = "override", !.at = "override", !.on = s,
                                !.provider = shipment[s].provider,
                                !.status = Null, !.time = clock])
  /\ UNCHANGED <<regime, world, rows, cache, feedback>>

BeginOverride(c, s, st) ==
  /\ BeginStaff(c, [Idle EXCEPT !.op = "override", !.at = "override", !.on = s,
                                !.provider = shipment[s].provider,
                                !.status = st, !.time = clock])
  /\ UNCHANGED <<regime, world, rows, cache, feedback>>

Override(c) ==
  LET s == calls[c].on IN
  /\ At(c, "override")
  /\ events' = [events EXCEPT ![s] = @ \cup
       {[provider |-> calls[c].provider, awb |-> Null, time |-> calls[c].time,
         status |-> calls[c].status]}]
  /\ shipment' = [shipment EXCEPT ![s].status = calls[c].status]
  /\ Goto(c, "forget")
  /\ UNCHANGED <<regime, world, awb, cache, feedback, staffCalls>>

\* Mutant: the cached answer is kept.
ForgetNothing(c) ==
  /\ At(c, "forget")
  /\ Goto(c, "announce")
  /\ UNCHANGED <<regime, world, rows, cache, feedback, staffCalls>>

\* cacheDel: best effort.
Forget(c) ==
  /\ At(c, "forget")
  /\ \/ cache' = [cache EXCEPT ![calls[c].on] = Null]
     \/ ~sound /\ UNCHANGED cache
  /\ Goto(c, "announce")
  /\ UNCHANGED <<regime, world, rows, feedback, staffCalls>>

BeginMap(c, s, p, a) ==
  /\ ~Taken(s, p, a)
  /\ BeginStaff(c, [Idle EXCEPT !.op = "map", !.at = "map", !.on = s, !.provider = p,
                                !.awb = a,
                                !.changing = p # shipment[s].provider \/ a # LiveAwb(s)])
  /\ UNCHANGED <<regime, world, rows, cache, feedback>>

\* mapExternalTrackingNumber's transaction.  It leaves the cache alone.
Map(c) ==
  LET s == calls[c].on
      p == calls[c].provider
  IN
  /\ At(c, "map")
  /\ awb' = [awb EXCEPT ![s][p] = calls[c].awb]
  /\ shipment' = [shipment EXCEPT ![s] =
       [provider |-> p, status |-> IF calls[c].changing THEN Null ELSE @.status]]
  /\ End(c)
  /\ UNCHANGED <<regime, world, events, cache, feedback, staffCalls>>

\* A statement throws (an announcement without Redis does) or the process restarts.
Die(c) ==
  /\ ~sound
  /\ calls[c] # Idle
  /\ End(c)
  /\ UNCHANGED <<regime, world, rows, cache, feedback, staffCalls>>

-----------------------------------------------------------------------------
StartCall(c, s) ==
  \/ BeginLookup(c, s)
  \/ \E st \in Statuses : BeginOverride(c, s, st)
  \/ \E p \in Providers, a \in AWBs : BeginMap(c, s, p, a)

RunCall(c) ==
  \/ CarrierReplies(c) \/ CarrierFails(c)
  \/ CompareEvents(c)
  \/ StoreEvents(c)
  \/ Announce(c)
  \/ CheckInvited(c)
  \/ Invite(c)
  \/ ReadAnswer(c)
  \/ CacheAnswer(c)
  \/ Override(c)
  \/ Forget(c)
  \/ Map(c)

Next ==
  \/ Tick
  \/ \E p \in Providers, a \in AWBs : ScanParcel(p, a) \/ ScanLate(p, a)
  \/ \E c \in Calls, s \in Shipments : StartCall(c, s)
  \/ \E c \in Calls : RunCall(c) \/ Die(c)
  \/ \E s \in Followed : Expire(s)

Spec == Init /\ [][Next]_vars

\* Node runs every pending continuation.
FairSpec == Spec /\ \A c \in Calls : WF_vars(RunCall(c))

-----------------------------------------------------------------------------
\* Rows, cache entries and calls in flight have the types the code gives them.
TypeOK ==
  /\ apart \in BOOLEAN /\ sound \in BOOLEAN
  /\ clock \in Nat
  /\ parcel \in [Providers -> [AWBs -> Parcel \cup {Null}]]
  /\ scans \subseteq Scan
  /\ shipment \in [Shipments -> ShipmentRow]
  /\ awb \in [Shipments -> [Providers -> AWBs \cup {Null}]]
  /\ events \in [Shipments -> SUBSET EventRow]
  /\ cache \in [Shipments -> Answer \cup {Null}]
  /\ recorded \in Nat
  /\ invited \subseteq Shipments
  /\ mails \in [Shipments -> Nat]
  /\ calls \in [Calls -> CallRow]
  /\ staffCalls \in Nat

\* A delivery is asked about once: whatever lookups and overrides find it delivered
\* at the same time, "a status that flaps or a re-sync cannot mail the same customer
\* twice" (requestFeedback).
InvitedOnce == \A s \in Shipments : mails[s] <= 1

\* With Redis up, a shipment that becomes DELIVERED has its customer invited, whoever
\* delivered it and whatever its status becomes while the call is on its way.
DeliveryIsAskedAbout ==
  \A s \in Emailable : (sound /\ shipment[s].status = Delivered) ~> s \in invited

\* Calls apart, the status is that of the newest event: neither a late scan nor a
\* re-mapping puts an older one in its place (persistNewEvents, overrideTrackingStatus).
StatusIsNewest ==
  apart => \A s \in Shipments :
    shipment[s].status # Null =>
      \E e \in events[s] : /\ e.status = shipment[s].status
                           /\ \A other \in events[s] : other.time <= e.time

\* Calls apart and Redis up, no cached answer hides a correction: customers "see the
\* correction immediately rather than waiting out the TTL" (overrideTrackingStatus).
CorrectionsShow ==
  apart /\ sound => \A s \in Shipments :
    (cache[s] # Null /\ ~Busy(s)) => {e \in events[s] : e.awb = Null} \subseteq cache[s].events

\* Calls apart and Redis up, until staff step in a lookup answers with the carrier's
\* status: even for a carrier that gives no times a "genuine same-day status change is
\* still seen as new" (dayAnchoredEventTime).
CarrierStatusShown ==
  \A c \in Calls :
    apart /\ sound /\ staffCalls = 0 /\ At(c, "remember") /\ calls[c].told # Null
      => calls[c].answer.status = calls[c].told
=============================================================================
