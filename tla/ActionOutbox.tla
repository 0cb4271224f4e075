---------------------------- MODULE ActionOutbox ----------------------------
(***************************************************************************)
(* ActionService of the action outbox, with the rate limit of              *)
(* SafeWebhookTransport and the receivers behind it, for the deliveries of *)
(* one event to one destination.                                           *)
(*                                                                         *)
(* deliver is cut where it awaits the store, the resolver and the          *)
(* receiver. It writes the record it read back without looking at the      *)
(* stored one again, so Workers says how many deliveries may be under way  *)
(* at a time. A worker may be cancelled at any await: cancellation is no   *)
(* Exception, and the record stays as it was written last.                 *)
(***************************************************************************)
EXTENDS OutboxRecords, FiniteSetsExt

CONSTANTS
  Workers,       \* tasks that call deliver
  NoDelivery,    \* the delivery of an idle worker
  MaxRequests    \* max_requests_per_destination

ASSUME OutboxAssumption ==
  /\ Revisions \subseteq Nat
  /\ NoDelivery \notin Deliveries
  /\ MaxAttempts \in Nat \ {0}
  /\ MaxRequests \in Nat

VARIABLES
  counted,    \* the requests the transport counted for the destination
  frame       \* the pending deliver of each worker

vars == <<records, counted, sent, accepted, frame>>

States == {"pending", "delivering", "delivered", "suppressed", "exhausted"}

Record == [state : States, attempts : 0..MaxAttempts]
NoRecord == [state |-> "absent", attempts |-> 0]
Exists(d) == records[d] # NoRecord

Labels == {"suppress", "mark", "send", "resolve", "request", "succeed", "fail"}

\* record and count are what the call read or wrote itself.
Frame == [at : Labels, delivery : Deliveries, record : Record, count : Nat]
Idle == [at |-> "idle", delivery |-> NoDelivery, record |-> NoRecord, count |-> 0]

At(w, label) == frame[w].at = label
Goto(w, label) == frame' = [frame EXCEPT ![w].at = label]
Put(w, record) == records' = [records EXCEPT ![frame[w].delivery] = record]

-----------------------------------------------------------------------------
(* What callers pass: an event as they know it, and a permission. fit stands *)
(* for the conditions that no property tells apart: selected and finalized,  *)
(* supported, a normal run, enabled, neither deleted nor cancelled, within   *)
(* the budget, and matching references.                                      *)

Context == [revision : Revisions, fit : BOOLEAN,
            review : {"unreviewed", "confirmed_by_user", "dismissed_by_user"}]
Permission == [version : Versions, enabled : BOOLEAN, preapproved : BOOLEAN]

Key(context, permission) == <<context.revision, permission.version>>

Eligible(context, permission) ==
  /\ context.fit /\ permission.enabled
  /\ \/ context.review = "confirmed_by_user"
     \/ context.review = "unreviewed" /\ permission.preapproved

-----------------------------------------------------------------------------
Init ==
  /\ records = [d \in Deliveries |-> NoRecord]
  /\ counted = 0
  /\ sent = [d \in Deliveries |-> 0]
  /\ accepted = {}
  /\ frame = [w \in Workers |-> Idle]

\* enqueue: create_once keeps a record that is there.
Enqueue(context, permission, reviewed) ==
  LET d == Key(context, permission) IN
  /\ Eligible(context, permission) /\ reviewed \in {-1, context.revision}
  /\ ~Exists(d)
  /\ records' = [records EXCEPT ![d] = [state |-> "pending", attempts |-> 0]]
  /\ UNCHANGED <<counted, sent, accepted, frame>>

\* deliver decides on the record it read and on what its caller passed. A record
\* that was delivered or suppressed is returned as it is, and an exhausted one
\* raises: neither changes anything.
Deliver(w, d, context, permission) ==
  LET record == records[d]
      allowed == Eligible(context, permission) /\ Key(context, permission) = d IN
  /\ At(w, "idle") /\ Exists(d)
  /\ record.state \notin {"delivered", "suppressed"}
  /\ allowed => record.attempts < MaxAttempts /\ record.state # "exhausted"
  /\ frame' = [frame EXCEPT ![w] = [at |-> IF allowed THEN "mark" ELSE "suppress",
                                    delivery |-> d, record |-> record, count |-> 0]]
  /\ UNCHANGED <<records, counted, sent, accepted>>

Suppress(w) ==
  /\ At(w, "suppress")
  /\ Put(w, [frame[w].record EXCEPT !.state = "suppressed"])
  /\ frame' = [frame EXCEPT ![w] = Idle]
  /\ UNCHANGED <<counted, sent, accepted>>

\* Mutant: the attempt is sent without being written first.
MarkUnwritten(w) ==
  LET attempt == [state |-> "delivering", attempts |-> frame[w].record.attempts + 1] IN
  /\ At(w, "mark")
  /\ frame' = [frame EXCEPT ![w].at = "send", ![w].record = attempt]
  /\ UNCHANGED <<records, counted, sent, accepted>>

\* The attempt is written before anything is sent.
Mark(w) ==
  LET attempt == [state |-> "delivering", attempts |-> frame[w].record.attempts + 1] IN
  /\ At(w, "mark")
  /\ Put(w, attempt)
  /\ frame' = [frame EXCEPT ![w].at = "send", ![w].record = attempt]
  /\ UNCHANGED <<counted, sent, accepted>>

\* The transport looks at its count before it resolves the destination.
Send(w) ==
  /\ At(w, "send")
  /\ frame' = [frame EXCEPT ![w].at = IF counted < MaxRequests THEN "resolve" ELSE "fail",
                            ![w].count = counted]
  /\ UNCHANGED <<records, counted, sent, accepted>>

\* The count is written from what was read before the await.
Resolve(w) ==
  /\ At(w, "resolve")
  /\ \/ counted' = frame[w].count + 1 /\ Goto(w, "request")
     \/ UNCHANGED counted /\ Goto(w, "fail")
  /\ UNCHANGED <<records, sent, accepted>>

\* The request may be lost or refused, or accepted with an answer that is lost.
Request(w) ==
  LET d == frame[w].delivery
      Arrives == sent' = [sent EXCEPT ![d] = @ + 1] IN
  /\ At(w, "request")
  /\ \/ Arrives /\ accepted' = accepted \cup {d} /\ (Goto(w, "succeed") \/ Goto(w, "fail"))
     \/ Arrives /\ UNCHANGED accepted /\ Goto(w, "fail")
     \/ UNCHANGED <<sent, accepted>> /\ Goto(w, "fail")
  /\ UNCHANGED <<records, counted>>

Succeed(w) ==
  /\ At(w, "succeed")
  /\ Put(w, [frame[w].record EXCEPT !.state = "delivered"])
  /\ frame' = [frame EXCEPT ![w] = Idle]
  /\ UNCHANGED <<counted, sent, accepted>>

\* Mutant: a failed request counts as delivered.
FailDelivered(w) ==
  /\ At(w, "fail")
  /\ Put(w, [frame[w].record EXCEPT !.state = "delivered"])
  /\ frame' = [frame EXCEPT ![w] = Idle]
  /\ UNCHANGED <<counted, sent, accepted>>

Fail(w) ==
  LET attempt == frame[w].record IN
  /\ At(w, "fail")
  /\ Put(w, [attempt EXCEPT !.state =
               IF attempt.attempts >= MaxAttempts THEN "exhausted" ELSE "pending"])
  /\ frame' = [frame EXCEPT ![w] = Idle]
  /\ UNCHANGED <<counted, sent, accepted>>

\* The task is cancelled, or its process dies.
Crash(w) ==
  /\ ~At(w, "idle")
  /\ frame' = [frame EXCEPT ![w] = Idle]
  /\ UNCHANGED <<records, counted, sent, accepted>>

-----------------------------------------------------------------------------
Continue(w) ==
  \/ Suppress(w) \/ Mark(w) \/ Send(w) \/ Resolve(w) \/ Request(w) \/ Succeed(w) \/ Fail(w)

Next ==
  \/ \E context \in Context, permission \in Permission :
       \/ \E reviewed \in Revisions \cup {-1} : Enqueue(context, permission, reviewed)
       \/ \E w \in Workers, d \in Deliveries : Deliver(w, d, context, permission)
  \/ \E w \in Workers : Continue(w) \/ Crash(w)

Spec == Init /\ [][Next]_vars

-----------------------------------------------------------------------------
TypeOK ==
  /\ records \in [Deliveries -> Record \cup {NoRecord}]
  /\ counted \in Nat
  /\ sent \in [Deliveries -> Nat]
  /\ accepted \subseteq Deliveries
  /\ frame \in [Workers -> Frame \cup {Idle}]

\* No request is made of a delivery that ended, whoever ended it; and what ended
\* as delivered or suppressed stays so (deliver).
EndsStand ==
  [][\A d \in Deliveries :
       /\ sent'[d] # sent[d] => records[d].state = "delivering"
       /\ records[d].state \in {"delivered", "suppressed"} => records'[d] = records[d]]_vars

=============================================================================
