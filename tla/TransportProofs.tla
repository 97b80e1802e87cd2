---------------------------- MODULE TransportProofs ----------------------------
(***************************************************************************)
(* Proofs about the two transports of jobs, for any jobs, any number of    *)
(* slots and of attempts, and any number of mishaps and stops.             *)
(*                                                                         *)
(* PubSubConsumer: NoJobIsLost is not inductive: an acknowledgement takes  *)
(* a message of a job away, and nothing in it says what else there is of   *)
(* the job.  What is there may be the message of the next attempt, which   *)
(* another slot may be about to acknowledge too, on the ground of the one  *)
(* after it.  So SettledBeforeAcked speaks of the messages ever published, *)
(* done with or not, and the latest attempt of a job, which no other       *)
(* follows, is what is waiting if the job is neither answered nor buried.  *)
(*                                                                         *)
(* InMemoryQueue: that a job is in exactly one place is proved from its    *)
(* status: each says where the job is and that it is nowhere else          *)
(* (HasPlace).  It needs that whatever holds an envelope holds one of a    *)
(* job that is tracked, so that a job published for the first time is      *)
(* nowhere yet.                                                            *)
(*                                                                         *)
(* Both are the JobQueue of the module of that name.  From the invariant   *)
(* of the one follows the stage of each of its jobs, never lost, and that  *)
(* attempts fail in their order; from the place that a job has in the      *)
(* other, which of its attempts have failed.                               *)
(***************************************************************************)
EXTENDS PubSubConsumer, InMemoryQueue, FiniteSetTheorems, WellFoundedInduction, TLAPS

-------------------------------------------------------------------------------
(* PubSubConsumer.                                                             *)

Message == [job : Jobs \cup {MalformedJob}, attempt : Nat \ {0}]
Stages == {"handle", "republish", "bury", "ack"}
SlotStates == {IdleSlot} \cup [at : Stages, msg : Nat, current : BOOLEAN]

SlotsAreTyped == slot \in [Slots -> SlotStates]

AttemptsInRange ==
    \A i \in DOMAIN messages :
        messages[i].job \in Jobs => messages[i].attempt \in AttemptsAt(messages[i].job)

\* A message that will be delivered may be.
ReadyIsAllowed == \A i \in DOMAIN messages : delivery[i] = "ready" => delivered[i] < MaxDeliveries

\* A message is published for an attempt when those before have failed.
EarlierAttemptsFailed ==
    \A i \in DOMAIN messages : messages[i].job # MalformedJob =>
        \A n \in AttemptsAt(messages[i].job) :
            n < messages[i].attempt => n \in failed[messages[i].job]

\* A message that is no longer needed: its job is answered or buried, or the next
\* attempt was published.
Succeeded(i) ==
    \/ messages[i].job \in answered \cup buried
    \/ \E k \in DOMAIN messages : /\ messages[k].job = messages[i].job
                                  /\ messages[k].attempt = messages[i].attempt + 1

\* What a slot does with its message is what the handler's answers call for.
FollowsAnswer(s) ==
    slot[s] # IdleSlot =>
        /\ InHand(s).job = MalformedJob => slot[s].at = "ack"
        /\ slot[s].at = "republish" => /\ InHand(s).attempt < LastAttempt[InHand(s).job]
                                       /\ InHand(s).attempt \in failed[InHand(s).job]
        /\ slot[s].at = "bury" =>
              \/ InHand(s).job \in refused
              \/ /\ InHand(s).attempt = LastAttempt[InHand(s).job]
                 /\ InHand(s).attempt \in failed[InHand(s).job]
        /\ slot[s].at = "ack" /\ InHand(s).job # MalformedJob => Succeeded(slot[s].msg)

SlotsFollowAnswers == \A s \in Slots : FollowsAnswer(s)

\* Nothing is acknowledged or expires before it is no longer needed.
SettledBeforeAcked ==
    \A i \in DOMAIN messages :
        messages[i].job # MalformedJob /\ delivery[i] \in {"acked", "expired"} => Succeeded(i)

\* A job is buried after all its attempts, one for good, or all the deliveries of one.
MayBeBuried(j) ==
    \/ j \in refused
    \/ failed[j] = AttemptsAt(j)
    \/ \E i \in MessagesOf(j) : delivered[i] = MaxDeliveries

BuriedLast == \A j \in buried : MayBeBuried(j)

AcceptedIsSent == \A j \in accepted : \E i \in DOMAIN messages : messages[i].job = j

ConsumerInv ==
    /\ ConsumerTypeOK /\ SlotsAreTyped /\ SlotsFollowAnswers /\ ReadyIsAllowed
    /\ EarlierAttemptsFailed /\ SettledBeforeAcked /\ BuriedLast /\ AcceptedIsSent

-------------------------------------------------------------------------------
LEMMA MessagesType ==
    ASSUME ConsumerTypeOK
    PROVE  /\ messages \in Seq(Message)
           /\ DOMAIN messages = 1..Len(messages) /\ Len(messages) \in Nat
           /\ \A i \in DOMAIN messages : messages[i] \in Message
<1>1. messages \in Seq(Message)
  BY DEF ConsumerTypeOK, Message
<1> QED
  BY <1>1

\* The attempts of a job.
LEMMA AttemptsType ==
    ASSUME TransportConstants, NEW j \in Jobs
    PROVE  /\ FirstAttempt[j] \in Nat \ {0} /\ LastAttempt[j] \in Nat
           /\ FirstAttempt[j] \in AttemptsAt(j) /\ LastAttempt[j] \in AttemptsAt(j)
           /\ \A n : n \in AttemptsAt(j) <=> /\ n \in Nat \ {0}
                                           /\ FirstAttempt[j] =< n /\ n =< LastAttempt[j]
  BY DEF TransportConstants, AttemptsAt

\* Of the messages of a job, one is of its latest attempt.
LEMMA LatestMessage ==
    ASSUME TransportConstants, ConsumerTypeOK,
           NEW i \in DOMAIN messages, messages[i].job \in Jobs
    PROVE  \E k \in DOMAIN messages :
              /\ messages[k].job = messages[i].job
              /\ \A m \in DOMAIN messages :
                    messages[m].job = messages[i].job
                        => messages[m].attempt =< messages[k].attempt
<1> DEFINE left(m) == LastAttempt[messages[i].job] - messages[m].attempt
           T == {left(m) : m \in {m \in DOMAIN messages : messages[m].job = messages[i].job}}
<1>1. \A m \in DOMAIN messages : messages[m].job = messages[i].job =>
          /\ messages[m].attempt \in Nat /\ LastAttempt[messages[i].job] \in Nat
          /\ left(m) \in Nat
  BY MessagesType, AttemptsType DEF ConsumerTypeOK
<1>2. T \subseteq Nat /\ T # {}
  BY <1>1
<1>3. PICK n \in T : \A m \in T : ~(<<m, n>> \in OpToRel(<, Nat))
  <2> HIDE DEF T
  <2> QED
    BY <1>2, WFMin, NatLessThanWellFounded
<1>4. \A m \in T : ~(m < n)
  BY <1>2, <1>3 DEF OpToRel
<1>5. PICK k \in DOMAIN messages : messages[k].job = messages[i].job /\ n = left(k)
  OBVIOUS
<1>6. ASSUME NEW m \in DOMAIN messages, messages[m].job = messages[i].job
      PROVE  messages[m].attempt =< messages[k].attempt
  <2>1. ~(left(m) < left(k))
    BY <1>4, <1>5, <1>6
  <2> QED
    BY <2>1, <1>1, <1>5, <1>6
<1> QED
  BY <1>5, <1>6

\* A job that was published, or may have been when the call raised.
Published(j) == \E i \in DOMAIN messages : messages[i].job = j

\* A job whose messages were all acknowledged is answered or buried.
LEMMA PublishedIsKept ==
    ASSUME TransportConstants, ConsumerInv, NEW j \in Jobs, Published(j)
    PROVE  j \in answered \/ j \in buried \/ Waiting(j)
<1>1. PICK i \in DOMAIN messages : messages[i].job = j
  BY DEF Published
<1>2. PICK k \in DOMAIN messages :
          /\ messages[k].job = j
          /\ \A m \in DOMAIN messages :
                messages[m].job = j => messages[m].attempt =< messages[k].attempt
  BY <1>1, LatestMessage DEF ConsumerInv
<1>3. CASE delivery[k] \in {"ready", "out"}
  BY <1>2, <1>3 DEF Waiting, MessagesOf
<1>4. CASE delivery[k] \in {"acked", "expired"}
  <2>1. j # MalformedJob
    BY DEF TransportConstants
  <2>2. Succeeded(k)
    BY <1>2, <1>4, <2>1 DEF ConsumerInv, SettledBeforeAcked
  <2>3. messages[k].attempt \in Nat
    BY MessagesType DEF ConsumerInv, Message
  <2>4. ~\E m \in DOMAIN messages : /\ messages[m].job = messages[k].job
                                    /\ messages[m].attempt = messages[k].attempt + 1
    BY <1>2, <2>3
  <2> QED
    BY <1>2, <2>2, <2>4 DEF Succeeded
<1>5. delivery[k] \in {"ready", "out", "acked", "expired"}
  BY <1>2 DEF ConsumerInv, ConsumerTypeOK
<1> QED
  BY <1>3, <1>4, <1>5

LEMMA NoJobIsLostFollows == TransportConstants /\ ConsumerInv => NoJobIsLost
<1> SUFFICES ASSUME TransportConstants, ConsumerInv PROVE NoJobIsLost
  OBVIOUS
<1>1. ASSUME NEW j \in accepted
      PROVE  j \in answered \/ j \in buried \/ Waiting(j)
  BY <1>1, PublishedIsKept DEF ConsumerInv, ConsumerTypeOK, AcceptedIsSent, Published
<1>2. \A j \in buried : MayBeBuried(j)
  BY DEF ConsumerInv, BuriedLast
<1> QED
  BY <1>1, <1>2 DEF NoJobIsLost, MayBeBuried

\* The initial state satisfies the invariant.
LEMMA InitConsumerInv == TransportConstants /\ ConsumerInit => ConsumerInv
<1> SUFFICES ASSUME TransportConstants, ConsumerInit PROVE ConsumerInv
  OBVIOUS
<1>1. DOMAIN messages = {} /\ \A s \in Slots : slot[s] = IdleSlot /\ slot[s].at = "idle"
  BY DEF ConsumerInit, IdleSlot
<1>2. ConsumerTypeOK
  <2>1. messages \in Seq([job : Jobs \cup {MalformedJob}, attempt : Nat \ {0}])
    BY DEF ConsumerInit
  <2>2. delivery \in [DOMAIN messages -> {"ready", "out", "acked", "expired"}]
    BY <1>1 DEF ConsumerInit
  <2>3. /\ failed \in [Jobs -> SUBSET (Nat \ {0})]
        /\ \A j \in Jobs : failed[j] \subseteq AttemptsAt(j)
    BY DEF ConsumerInit
  <2>4. delivered \in [DOMAIN messages -> 0..MaxDeliveries]
    BY <1>1 DEF ConsumerInit
  <2>5. mishaps \in 0..MaxMishaps
    BY DEF TransportConstants, ConsumerInit
  <2>6. pulling \in BOOLEAN /\ accepted \cup answered \cup refused \cup buried \subseteq Jobs
    BY DEF ConsumerInit
  <2> QED
    BY <1>1, <2>1, <2>2, <2>3, <2>5, <2>6, <2>4 DEF ConsumerTypeOK
<1>3. SlotsAreTyped
  BY DEF ConsumerInit, SlotsAreTyped, SlotStates
<1> QED
  BY <1>1, <1>2, <1>3
  DEF ConsumerInit, ConsumerInv, SlotsFollowAnswers, FollowsAnswer, EarlierAttemptsFailed,
      SettledBeforeAcked, BuriedLast, AcceptedIsSent, ReadyIsAllowed

\* What a publication leaves behind: the messages of before and one that is ready.
LEMMA Sent ==
    ASSUME TransportConstants, ConsumerTypeOK,
           NEW job \in Jobs \cup {MalformedJob}, NEW attempt \in Nat \ {0},
           Send(job, attempt)
    PROVE  LET new == Len(messages) + 1
           IN  /\ messages' \in Seq(Message)
               /\ delivery' \in [DOMAIN messages' -> {"ready", "out", "acked", "expired"}]
               /\ delivered' \in [DOMAIN messages' -> 0..MaxDeliveries]
               /\ DOMAIN messages' = DOMAIN messages \cup {new}
               /\ DOMAIN messages' \subseteq Nat /\ new \notin DOMAIN messages
               /\ \A i \in DOMAIN messages : /\ messages'[i] = messages[i]
                                             /\ delivery'[i] = delivery[i]
                                             /\ delivered'[i] = delivered[i]
               /\ messages'[new] = [job |-> job, attempt |-> attempt]
               /\ delivery'[new] = "ready" /\ delivered'[new] = 0
<1> DEFINE m == [job |-> job, attempt |-> attempt]
           D == {"ready", "out", "acked", "expired"}
           N == 0..MaxDeliveries
<1>1. m \in Message
  BY DEF Message
<1>2. /\ messages' = Append(messages, m) /\ delivery' = Append(delivery, "ready")
      /\ delivered' = Append(delivered, 0)
  BY DEF Send
<1>3. /\ "ready" \in D /\ delivery \in [1..Len(messages) -> D]
      /\ 0 \in N /\ delivered \in [1..Len(messages) -> N]
  BY MessagesType DEF ConsumerTypeOK, TransportConstants
<1> HIDE DEF m, D, N
<1>4. /\ delivery \in Seq(D) /\ Len(delivery) = Len(messages)
      /\ delivered \in Seq(N) /\ Len(delivered) = Len(messages)
  BY <1>3, MessagesType
<1>5. /\ messages' \in Seq(Message) /\ Len(messages') = Len(messages) + 1
      /\ \A i \in 1..Len(messages) : messages'[i] = messages[i]
      /\ messages'[Len(messages) + 1] = m
  BY <1>1, <1>2, MessagesType
<1>6. /\ delivery' \in Seq(D) /\ Len(delivery') = Len(messages) + 1
      /\ \A i \in 1..Len(messages) : delivery'[i] = delivery[i]
      /\ delivery'[Len(messages) + 1] = "ready"
  BY <1>2, <1>3, <1>4, MessagesType
<1>7. /\ delivered' \in Seq(N) /\ Len(delivered') = Len(messages) + 1
      /\ \A i \in 1..Len(messages) : delivered'[i] = delivered[i]
      /\ delivered'[Len(messages) + 1] = 0
  BY <1>2, <1>3, <1>4, MessagesType
<1>8. /\ DOMAIN messages' = 1..(Len(messages) + 1) /\ delivery' \in [DOMAIN messages' -> D]
      /\ delivered' \in [DOMAIN messages' -> N]
  BY <1>5, <1>6, <1>7
<1> QED
  BY <1>5, <1>6, <1>8, <1>7, MessagesType DEF m, D, N

\* What is never taken back: publications, deliveries, answers, failures, dead letters.
Grows ==
    /\ DOMAIN messages \subseteq DOMAIN messages'
    /\ \A i \in DOMAIN messages : messages'[i] = messages[i]
    /\ \A i \in DOMAIN messages : delivered[i] = MaxDeliveries => delivered'[i] = MaxDeliveries
    /\ answered \subseteq answered' /\ buried \subseteq buried' /\ refused \subseteq refused'
    /\ \A j \in Jobs : failed[j] \subseteq failed'[j]

LEMMA StaysSucceeded ==
    ASSUME Grows, NEW i \in DOMAIN messages, Succeeded(i)
    PROVE  Succeeded(i)'
  BY DEF Grows, Succeeded

\* A job that might be buried still may be.
LEMMA BuriedLastKept ==
    ASSUME Grows, ConsumerInv,
           \A j \in Jobs : failed'[j] \subseteq AttemptsAt(j),
           buried' \subseteq Jobs,
           \A j \in buried' : j \in buried \/ MayBeBuried(j)'
    PROVE  BuriedLast'
<1>1. ASSUME NEW j \in buried
      PROVE  MayBeBuried(j)'
  <2>1. j \in Jobs /\ MayBeBuried(j)
    BY DEF ConsumerInv, ConsumerTypeOK, BuriedLast
  <2>2. CASE j \in refused
    BY <2>2 DEF Grows, MayBeBuried
  <2>3. CASE failed[j] = AttemptsAt(j)
    <3>1. failed'[j] = AttemptsAt(j)
      BY <2>1, <2>3 DEF Grows
    <3> QED
      BY <3>1 DEF MayBeBuried, AttemptsAt
  <2>4. CASE \E i \in MessagesOf(j) : delivered[i] = MaxDeliveries
    BY <2>4 DEF Grows, MayBeBuried, MessagesOf
  <2> QED
    BY <2>1, <2>2, <2>3, <2>4 DEF MayBeBuried
<1> QED
  BY <1>1 DEF BuriedLast

\* A slot that goes on with its message where it was, or lets it go.
LEMMA SlotKept ==
    ASSUME TransportConstants, ConsumerInv, Grows, NEW s \in Slots,
           \/ slot'[s] = IdleSlot
           \/ /\ slot[s] # IdleSlot
              /\ slot'[s].at = slot[s].at /\ slot'[s].msg = slot[s].msg
    PROVE  FollowsAnswer(s)'
<1>1. CASE slot'[s] = IdleSlot
  BY <1>1 DEF FollowsAnswer
<1>2. CASE slot[s] # IdleSlot /\ slot'[s].at = slot[s].at /\ slot'[s].msg = slot[s].msg
  <2>1. slot[s].msg \in DOMAIN messages /\ InHand(s)' = InHand(s)
    BY <1>2 DEF ConsumerInv, ConsumerTypeOK, Grows, InHand
  <2>2. InHand(s).job \in Jobs \cup {MalformedJob}
    BY <2>1, MessagesType DEF ConsumerInv, Message, InHand
  <2>3. FollowsAnswer(s)
    BY DEF ConsumerInv, SlotsFollowAnswers
  <2>4. Succeeded(slot[s].msg) => Succeeded(slot[s].msg)'
    <3>1. PICK i \in DOMAIN messages : i = slot[s].msg /\ i = slot'[s].msg
      BY <1>2, <2>1
    <3>2. Succeeded(i) => Succeeded(i)'
      BY StaysSucceeded
    <3> QED
      BY <3>1, <3>2 DEF Succeeded
  <2>5. InHand(s).job \in Jobs => failed[InHand(s).job] \subseteq failed'[InHand(s).job]
    BY DEF Grows
  <2> QED
    BY <1>2, <2>1, <2>2, <2>3, <2>4, <2>5 DEF FollowsAnswer, Grows
<1> QED
  BY <1>1, <1>2

\* What a step leaves alone of the messages of before.
LEMMA MessagesKept ==
    ASSUME TransportConstants, ConsumerInv, Grows, ConsumerTypeOK',
           \A i \in DOMAIN messages :
              delivery'[i] \in {"acked", "expired"} =>
                  \/ delivery[i] \in {"acked", "expired"}
                  \/ messages[i].job \in buried' \cup {MalformedJob},
           \A i \in DOMAIN messages' \ DOMAIN messages :
              /\ delivery'[i] = "ready"
              /\ messages'[i].job # MalformedJob =>
                    \A n \in AttemptsAt(messages'[i].job) :
                        n < messages'[i].attempt => n \in failed'[messages'[i].job]
    PROVE  EarlierAttemptsFailed' /\ SettledBeforeAcked'
<1>1. ASSUME NEW i \in (DOMAIN messages)', messages'[i].job # MalformedJob
      PROVE  \A n \in AttemptsAt(messages'[i].job) :
                 n < messages'[i].attempt => n \in failed'[messages'[i].job]
  <2>1. CASE i \in DOMAIN messages
    <3>1. messages[i].job \in Jobs /\ messages'[i] = messages[i]
      BY <1>1, <2>1, MessagesType DEF ConsumerInv, Message, Grows
    <3> QED
      BY <1>1, <2>1, <3>1 DEF ConsumerInv, EarlierAttemptsFailed, Grows
  <2> QED
    BY <1>1, <2>1
<1>2. ASSUME NEW i \in (DOMAIN messages)', messages'[i].job # MalformedJob,
             delivery'[i] \in {"acked", "expired"}
      PROVE  Succeeded(i)'
  <2>1. i \in DOMAIN messages /\ messages'[i] = messages[i]
    BY <1>2 DEF Grows
  <2>2. CASE delivery[i] \in {"acked", "expired"}
    <3>1. Succeeded(i)
      BY <1>2, <2>1, <2>2 DEF ConsumerInv, SettledBeforeAcked
    <3> QED
      BY <2>1, <3>1, StaysSucceeded
  <2>3. CASE messages[i].job \in buried'
    BY <2>1, <2>3 DEF Succeeded
  <2> QED
    BY <1>2, <2>1, <2>2, <2>3
<1> QED
  BY <1>1, <1>2 DEF EarlierAttemptsFailed, SettledBeforeAcked, AttemptsAt

\* The part of the type invariant that is about messages.
MessagesAreTyped ==
    /\ messages \in Seq([job : Jobs \cup {MalformedJob}, attempt : Nat \ {0}])
    /\ AttemptsInRange
    /\ delivery \in [DOMAIN messages -> {"ready", "out", "acked", "expired"}]
    /\ delivered \in [DOMAIN messages -> 0..MaxDeliveries]

\* A publication and what it does to the messages, when it is made for an attempt that
\* the ones before call for.
LEMMA SentOrNot ==
    ASSUME TransportConstants, ConsumerInv,
           NEW job \in Jobs \cup {MalformedJob}, NEW attempt \in Nat \ {0},
           job # MalformedJob =>
               /\ attempt \in AttemptsAt(job)
               /\ \A n \in AttemptsAt(job) : n < attempt => n \in failed[job],
           Send(job, attempt) \/ UNCHANGED <<messages, delivery, delivered>>,
           UNCHANGED <<outcomes, buried>>
    PROVE  /\ Grows /\ MessagesAreTyped' /\ ReadyIsAllowed'
           /\ DOMAIN messages \subseteq Nat
           /\ ConsumerTypeOK' => EarlierAttemptsFailed' /\ SettledBeforeAcked'
<1>1. CASE Send(job, attempt)
  <2> DEFINE new == Len(messages) + 1
  <2>1. /\ messages' \in Seq(Message)
        /\ delivery' \in [DOMAIN messages' -> {"ready", "out", "acked", "expired"}]
        /\ delivered' \in [DOMAIN messages' -> 0..MaxDeliveries]
        /\ DOMAIN messages' = DOMAIN messages \cup {new}
        /\ DOMAIN messages' \subseteq Nat
        /\ \A i \in DOMAIN messages : /\ messages'[i] = messages[i]
                                      /\ delivery'[i] = delivery[i]
                                      /\ delivered'[i] = delivered[i]
        /\ messages'[new] = [job |-> job, attempt |-> attempt]
        /\ delivery'[new] = "ready" /\ delivered'[new] = 0
    BY <1>1, Sent DEF ConsumerInv
  <2>2. Grows
    BY <2>1 DEF Grows, outcomes
  <2>3. \A i \in DOMAIN messages : delivery'[i] = delivery[i]
    BY <2>1
  <2>4. \A i \in DOMAIN messages' \ DOMAIN messages :
            /\ delivery'[i] = "ready"
            /\ messages'[i].job # MalformedJob =>
                  \A n \in AttemptsAt(messages'[i].job) :
                      n < messages'[i].attempt => n \in failed'[messages'[i].job]
    BY <2>1 DEF outcomes
  <2>5. ConsumerTypeOK' => EarlierAttemptsFailed' /\ SettledBeforeAcked'
    BY <2>2, <2>3, <2>4, MessagesKept
  <2>6. ReadyIsAllowed'
    <3>1. MaxDeliveries \in Nat \ {0}
      BY DEF TransportConstants
    <3>2. \A i \in DOMAIN messages : delivery[i] = "ready" => delivered[i] < MaxDeliveries
      BY DEF ConsumerInv, ReadyIsAllowed
    <3>3. \A i \in DOMAIN messages' : delivery'[i] = "ready" => delivered'[i] < MaxDeliveries
      BY <2>1, <3>1, <3>2
    <3> QED
      BY <3>3 DEF ReadyIsAllowed
  <2>7. AttemptsInRange'
    <3>1. \A i \in DOMAIN messages' :
              messages'[i].job \in Jobs => messages'[i].attempt \in AttemptsAt(messages'[i].job)
      BY <2>1 DEF ConsumerInv, ConsumerTypeOK, TransportConstants
    <3> QED
      BY <3>1 DEF AttemptsInRange, AttemptsAt
  <2> QED
    BY <2>1, <2>2, <2>5, <2>6, <2>7 DEF Message, MessagesAreTyped
<1>2. CASE UNCHANGED <<messages, delivery, delivered>>
  <2>1. Grows
    BY <1>2 DEF Grows, outcomes
  <2>2. ConsumerTypeOK' => EarlierAttemptsFailed' /\ SettledBeforeAcked'
    BY <1>2, <2>1, MessagesKept
  <2>3. DOMAIN messages \subseteq Nat
    BY MessagesType DEF ConsumerInv
  <2>4. ReadyIsAllowed'
    BY <1>2 DEF ConsumerInv, ReadyIsAllowed
  <2> QED
    BY <1>2, <2>1, <2>2, <2>3, <2>4
    DEF ConsumerInv, ConsumerTypeOK, MessagesAreTyped, AttemptsInRange, AttemptsAt
<1> QED
  BY <1>1, <1>2

\* The mishaps stay within their bound.
LEMMA MishapsType ==
    ASSUME TransportConstants, ConsumerInv, Mishap \/ UNCHANGED mishaps
    PROVE  mishaps' \in 0..MaxMishaps
  BY DEF TransportConstants, ConsumerInv, ConsumerTypeOK, Mishap

\* Publications by clients and supervisors.
LEMMA PublishStep ==
    ASSUME TransportConstants, ConsumerInv,
           \/ \E j \in Jobs : PublishJob(j)
           \/ PublishMalformed
    PROVE  ConsumerInv'
<1>1. PICK j \in Jobs \cup {MalformedJob}, first \in Nat \ {0} :
          /\ j \in Jobs => first = FirstAttempt[j]
          /\ \/ Send(j, first)
             \/ UNCHANGED <<messages, delivery, delivered>>
          /\ \/ accepted' = accepted
             \/ j \in Jobs /\ accepted' = accepted \cup {j} /\ Send(j, first)
          /\ Mishap \/ UNCHANGED mishaps
          /\ UNCHANGED <<slot, pulling, outcomes, buried>>
  <2>1. ASSUME NEW j \in Jobs, PublishJob(j)
        PROVE  /\ FirstAttempt[j] \in Nat \ {0}
               /\ \/ Send(j, FirstAttempt[j])
                  \/ UNCHANGED <<messages, delivery, delivered>>
               /\ \/ accepted' = accepted
                  \/ accepted' = accepted \cup {j} /\ Send(j, FirstAttempt[j])
               /\ Mishap \/ UNCHANGED mishaps
               /\ UNCHANGED <<slot, pulling, outcomes, buried>>
    BY <2>1, AttemptsType DEF PublishJob, SendFails
  <2>2. CASE PublishMalformed
    BY <2>2 DEF PublishMalformed, TransportConstants
  <2> QED
    BY <2>1, <2>2
<1>2. j # MalformedJob =>
          /\ first \in AttemptsAt(j)
          /\ \A n \in AttemptsAt(j) : n < first => n \in failed[j]
  BY <1>1, AttemptsType
<1>3. /\ Grows /\ MessagesAreTyped' /\ ReadyIsAllowed'
      /\ ConsumerTypeOK' => EarlierAttemptsFailed' /\ SettledBeforeAcked'
  BY <1>1, <1>2, SentOrNot
<1>4. ConsumerTypeOK'
  <2>1. accepted' \cup answered' \cup refused' \cup buried' \subseteq Jobs
    BY <1>1 DEF ConsumerInv, ConsumerTypeOK, outcomes
  <2>2. mishaps' \in 0..MaxMishaps
    BY <1>1, MishapsType
  <2>3. /\ failed' \in [Jobs -> SUBSET (Nat \ {0})]
        /\ \A i \in Jobs : failed'[i] \subseteq AttemptsAt(i)
    BY <1>1 DEF ConsumerInv, ConsumerTypeOK, outcomes
  <2> QED
    BY <1>1, <1>3, <2>1, <2>2, <2>3
    DEF ConsumerInv, ConsumerTypeOK, MessagesAreTyped, AttemptsInRange, AttemptsAt, Grows
<1>5. SlotsFollowAnswers'
  <2>1. \A s \in Slots : slot'[s] = IdleSlot \/ (slot[s] # IdleSlot /\ slot'[s] = slot[s])
    BY <1>1
  <2> QED
    BY <1>3, <2>1, SlotKept DEF SlotsFollowAnswers
<1>6. AcceptedIsSent'
  <2>1. \A i \in accepted : \E k \in DOMAIN messages' : messages'[k].job = i
    BY <1>3 DEF ConsumerInv, AcceptedIsSent, Grows
  <2>2. Send(j, first) => \E k \in DOMAIN messages' : messages'[k].job = j
    <3>1. Send(j, first) => /\ Len(messages) + 1 \in DOMAIN messages'
                            /\ messages'[Len(messages) + 1] = [job |-> j, attempt |-> first]
      BY Sent DEF ConsumerInv
    <3> QED
      BY <3>1
  <2> QED
    BY <1>1, <2>1, <2>2 DEF AcceptedIsSent
<1>7. BuriedLast'
  <2>1. buried' = buried /\ failed' = failed
    BY <1>1 DEF outcomes
  <2> QED
    BY <1>3, <2>1, BuriedLastKept DEF ConsumerInv, ConsumerTypeOK
<1> QED
  BY <1>1, <1>3, <1>4, <1>5, <1>6, <1>7 DEF ConsumerInv, SlotsAreTyped

\* What a slot with a message in hand is.
LEMMA SlotType ==
    ASSUME ConsumerInv, NEW s \in Slots, slot[s] # IdleSlot
    PROVE  /\ slot[s] \in [at : Stages, msg : Nat, current : BOOLEAN]
           /\ slot[s].msg \in DOMAIN messages
           /\ InHand(s) \in Message
  BY MessagesType DEF ConsumerInv, SlotsAreTyped, SlotStates, ConsumerTypeOK, InHand

\* Deliveries, deadlines, and the pool's start and end: slots take messages up or let
\* them go, and nothing is published, answered or acknowledged.
LEMMA DeliveryStep ==
    ASSUME TransportConstants, ConsumerInv,
           UNCHANGED <<messages, accepted, outcomes>>,
           pulling' \in BOOLEAN,
           Mishap \/ UNCHANGED mishaps,
           delivery' \in [DOMAIN messages -> {"ready", "out", "acked", "expired"}],
           delivered' \in [DOMAIN messages -> 0..MaxDeliveries],
           \A i \in DOMAIN messages : delivered[i] =< delivered'[i],
           \A i \in DOMAIN messages :
              delivery'[i] \in {"acked", "expired"} =>
                  \/ delivery[i] \in {"acked", "expired"}
                  \/ messages[i].job \in buried' \cup {MalformedJob},
           ReadyIsAllowed',
           buried \subseteq buried', buried' \subseteq Jobs,
           \A j \in buried' : \/ j \in buried
                              \/ \E i \in MessagesOf(j) : delivered'[i] = MaxDeliveries,
           SlotsAreTyped',
           \A s \in Slots :
              \/ slot'[s] = IdleSlot
              \/ slot[s] # IdleSlot /\ slot'[s].at = slot[s].at /\ slot'[s].msg = slot[s].msg
              \/ \E i \in DOMAIN messages : slot'[s] = Working(Pulled(i), i)
    PROVE  ConsumerInv'
<1>1. Grows
  <2>1. \A i \in DOMAIN messages :
            delivered[i] = MaxDeliveries => delivered'[i] = MaxDeliveries
    BY DEF TransportConstants, ConsumerInv, ConsumerTypeOK
  <2> QED
    BY <2>1 DEF Grows, outcomes
<1>2. ASSUME NEW s \in Slots
      PROVE  /\ \/ slot'[s] = IdleSlot
                \/ slot'[s].at \in Stages /\ slot'[s].msg \in DOMAIN messages
             /\ FollowsAnswer(s)'
  <2>1. CASE slot'[s] = IdleSlot
    BY <1>1, <2>1, SlotKept
  <2>2. CASE slot[s] # IdleSlot /\ slot'[s].at = slot[s].at /\ slot'[s].msg = slot[s].msg
    BY <1>1, <2>2, SlotKept, SlotType
  <2>3. CASE \E i \in DOMAIN messages : slot'[s] = Working(Pulled(i), i)
    <3>1. PICK i \in DOMAIN messages : slot'[s] = Working(Pulled(i), i)
      BY <2>3
    <3>2. /\ slot'[s].msg = i
           /\ slot'[s].at = IF messages[i].job = MalformedJob THEN "ack" ELSE "handle"
      BY <3>1 DEF Working, Pulled
    <3> QED
      BY <3>2 DEF FollowsAnswer, InHand, Stages
  <2> QED
    BY <2>1, <2>2, <2>3
<1>3. ConsumerTypeOK'
  <2>1. mishaps' \in 0..MaxMishaps
    BY MishapsType
  <2>2. accepted' \cup answered' \cup refused' \cup buried' \subseteq Jobs
    BY DEF ConsumerInv, ConsumerTypeOK, outcomes
  <2>3. /\ failed' \in [Jobs -> SUBSET (Nat \ {0})]
        /\ \A j \in Jobs : failed'[j] \subseteq AttemptsAt(j)
    BY DEF ConsumerInv, ConsumerTypeOK, outcomes
  <2>4. AttemptsInRange'
    BY DEF ConsumerInv, ConsumerTypeOK, AttemptsInRange, AttemptsAt
  <2>5. messages' \in Seq([job : Jobs \cup {MalformedJob}, attempt : Nat \ {0}])
    BY DEF ConsumerInv, ConsumerTypeOK
  <2> QED
    BY <1>2, <2>1, <2>2, <2>3, <2>4, <2>5
    DEF ConsumerTypeOK, Stages, AttemptsInRange, AttemptsAt
<1>4. EarlierAttemptsFailed' /\ SettledBeforeAcked'
  BY <1>1, <1>3, MessagesKept
<1>5. BuriedLast'
  <2>1. \A j \in buried' : j \in buried \/ MayBeBuried(j)'
    BY DEF MayBeBuried, MessagesOf
  <2>2. \A j \in Jobs : failed'[j] \subseteq AttemptsAt(j)
    BY DEF ConsumerInv, ConsumerTypeOK, outcomes
  <2> QED
    BY <1>1, <2>1, <2>2, BuriedLastKept
<1> QED
  BY <1>1, <1>2, <1>3, <1>4, <1>5
  DEF ConsumerInv, SlotsFollowAnswers, AcceptedIsSent, outcomes

\* A step of one slot that goes on with the message it has, or lets it go: what is left
\* to show is what it did to the messages and to the outcomes.
LEMMA SlotStep ==
    ASSUME TransportConstants, ConsumerInv, Grows, NEW s \in Slots, slot[s] # IdleSlot,
           NEW at \in Stages,
           slot' = [slot EXCEPT ![s].at = at] \/ slot' = [slot EXCEPT ![s] = IdleSlot],
           UNCHANGED <<pulling, accepted>>,
           Mishap \/ UNCHANGED mishaps,
           MessagesAreTyped', ReadyIsAllowed',
           answered' \cup refused' \cup buried' \subseteq Jobs,
           failed' \in [Jobs -> SUBSET (Nat \ {0})],
           \A j \in Jobs : failed'[j] \subseteq AttemptsAt(j),
           slot' = [slot EXCEPT ![s].at = at] => FollowsAnswer(s)',
           ConsumerTypeOK' => EarlierAttemptsFailed' /\ SettledBeforeAcked',
           \A j \in buried' : j \in buried \/ MayBeBuried(j)'
    PROVE  ConsumerInv'
<1>1. slot[s].msg \in DOMAIN messages
  BY SlotType
<1>2. /\ SlotsAreTyped'
      /\ \A t \in Slots : t # s => slot'[t] = slot[t]
      /\ \/ slot'[s] = IdleSlot
         \/ slot' = [slot EXCEPT ![s].at = at] /\ slot'[s].at = at /\ slot'[s].msg = slot[s].msg
  BY SlotType DEF ConsumerInv, SlotsAreTyped, SlotStates
<1>3. ConsumerTypeOK'
  <2>1. mishaps' \in 0..MaxMishaps
    BY MishapsType
  <2>2. \A t \in Slots : \/ slot'[t] = IdleSlot
                         \/ slot'[t].at \in Stages /\ slot'[t].msg \in DOMAIN messages'
    BY <1>1, <1>2 DEF ConsumerInv, ConsumerTypeOK, Stages, Grows
  <2>3. accepted' \cup answered' \cup refused' \cup buried' \subseteq Jobs /\ pulling' \in BOOLEAN
    BY DEF ConsumerInv, ConsumerTypeOK
  <2> QED
    BY <2>1, <2>2, <2>3
    DEF ConsumerTypeOK, Stages, MessagesAreTyped, AttemptsInRange, AttemptsAt
<1>4. SlotsFollowAnswers'
  <2>1. ASSUME NEW t \in Slots
        PROVE  FollowsAnswer(t)'
    <3>1. CASE t # s
      BY <1>2, <3>1, SlotKept
    <3>2. CASE t = s
      BY <1>2, <3>2, SlotKept
    <3> QED
      BY <3>1, <3>2
  <2> QED
    BY <2>1 DEF SlotsFollowAnswers
<1>5. AcceptedIsSent'
  BY DEF ConsumerInv, AcceptedIsSent, Grows
<1>6. BuriedLast'
  BY BuriedLastKept
<1> QED
  BY <1>2, <1>3, <1>4, <1>5, <1>6 DEF ConsumerInv

\* Every step keeps the invariant.
LEMMA NextConsumerInv ==
    TransportConstants /\ ConsumerInv /\ [ConsumerNext]_consumerVars => ConsumerInv'
<1> SUFFICES ASSUME TransportConstants, ConsumerInv, [ConsumerNext]_consumerVars PROVE ConsumerInv'
  OBVIOUS
<1> USE DEF outcomes
<1>1. CASE (\E j \in Jobs : PublishJob(j)) \/ PublishMalformed
  BY <1>1, PublishStep
<1>2. ASSUME pulling' \in BOOLEAN, SlotsAreTyped',
             Mishap \/ UNCHANGED mishaps,
             UNCHANGED <<messages, delivery, delivered, accepted, outcomes, buried>>,
             \A s \in Slots :
                \/ slot'[s] = IdleSlot
                \/ slot[s] # IdleSlot /\ slot'[s].at = slot[s].at /\ slot'[s].msg = slot[s].msg
      PROVE  ConsumerInv'
  <2>1. \A i \in DOMAIN messages : delivered[i] =< delivered'[i]
    BY <1>2 DEF ConsumerInv, ConsumerTypeOK, TransportConstants
  <2>2. ReadyIsAllowed'
    BY <1>2 DEF ConsumerInv, ReadyIsAllowed
  <2>3. /\ delivery' \in [DOMAIN messages -> {"ready", "out", "acked", "expired"}]
        /\ delivered' \in [DOMAIN messages -> 0..MaxDeliveries]
        /\ buried' \subseteq Jobs
    BY <1>2 DEF ConsumerInv, ConsumerTypeOK
  <2> QED
    BY <1>2, <2>1, <2>2, <2>3, DeliveryStep
<1>3. CASE StartPool
  BY <1>2, <1>3 DEF StartPool, ConsumerInv, SlotsAreTyped
<1>4. CASE StopPool
  <2>1. SlotsAreTyped'
    BY <1>4 DEF StopPool, SlotsAreTyped, SlotStates
  <2>2. \A s \in Slots : slot'[s] = IdleSlot
    BY <1>4 DEF StopPool
  <2> QED
    BY <1>2, <1>4, <2>1, <2>2 DEF StopPool
<1>5. ASSUME NEW i \in DOMAIN messages, Lapse(i)
      PROVE  ConsumerInv'
  <2> DEFINE extending == {s \in Slots : slot[s] # IdleSlot /\ slot[s].msg = i /\ slot[s].current}
  <2>1. /\ slot' = [s \in Slots |-> IF s \in extending THEN [slot[s] EXCEPT !.current = FALSE]
                                    ELSE slot[s]]
        /\ \/ /\ delivered[i] < MaxDeliveries
              /\ delivery' = [delivery EXCEPT ![i] = "ready"] /\ UNCHANGED buried
           \/ /\ delivered[i] >= MaxDeliveries
              /\ delivery' = [delivery EXCEPT ![i] = "expired"]
              /\ buried' = buried \cup ({messages[i].job} \ {MalformedJob})
        /\ Mishap \/ UNCHANGED mishaps
        /\ UNCHANGED <<messages, delivered, pulling, accepted, outcomes>>
    BY <1>5 DEF Lapse
  <2>2. ASSUME NEW s \in Slots
        PROVE  /\ slot'[s] \in SlotStates
               /\ \/ slot'[s] = IdleSlot
                  \/ slot[s] # IdleSlot /\ slot'[s].at = slot[s].at /\ slot'[s].msg = slot[s].msg
    <3>1. CASE s \in extending
      <4>1. slot'[s] = [slot[s] EXCEPT !.current = FALSE]
        BY <2>1, <3>1
      <4>2. slot[s] # IdleSlot /\ slot[s] \in [at : Stages, msg : Nat, current : BOOLEAN]
        BY <3>1, SlotType
      <4> QED
        BY <4>1, <4>2 DEF SlotStates
    <3>2. CASE s \notin extending
      BY <2>1, <3>2 DEF ConsumerInv, SlotsAreTyped
    <3> QED
      BY <3>1, <3>2
  <2>3. SlotsAreTyped'
    BY <2>1, <2>2 DEF SlotsAreTyped
  <2> HIDE DEF extending
  <2>4. /\ delivered \in [DOMAIN messages -> 0..MaxDeliveries]
        /\ MaxDeliveries \in Nat
        /\ delivery \in [DOMAIN messages -> {"ready", "out", "acked", "expired"}]
        /\ buried \subseteq Jobs /\ messages[i].job \in Jobs \cup {MalformedJob}
        /\ pulling' \in BOOLEAN
    BY <2>1, MessagesType DEF ConsumerInv, ConsumerTypeOK, TransportConstants, Message
  <2>5. /\ delivery' \in [DOMAIN messages -> {"ready", "out", "acked", "expired"}]
        /\ delivered' \in [DOMAIN messages -> 0..MaxDeliveries]
        /\ \A k \in DOMAIN messages : delivered[k] =< delivered'[k]
        /\ buried \subseteq buried' /\ buried' \subseteq Jobs
    BY <2>1, <2>4
  <2>6. \A k \in DOMAIN messages :
            delivery'[k] \in {"acked", "expired"} =>
                \/ delivery[k] \in {"acked", "expired"}
                \/ messages[k].job \in buried' \cup {MalformedJob}
    BY <2>1, <2>4
  <2>7. \A j \in buried' : \/ j \in buried
                           \/ \E k \in MessagesOf(j) : delivered'[k] = MaxDeliveries
    BY <2>1, <2>4 DEF MessagesOf
  <2>8. ReadyIsAllowed'
    <3>1. \A k \in DOMAIN messages : delivery'[k] = "ready" => delivered'[k] < MaxDeliveries
      BY <2>1, <2>4 DEF ConsumerInv, ReadyIsAllowed
    <3> QED
      BY <2>1, <3>1 DEF ReadyIsAllowed
  <2> QED
    BY <2>1, <2>2, <2>3, <2>4, <2>5, <2>6, <2>7, <2>8, DeliveryStep
<1>6. ASSUME NEW i \in DOMAIN messages, NEW s \in Slots, Pull(s, i)
      PROVE  ConsumerInv'
  <2>1. /\ delivery[i] = "ready"
        /\ delivery' = [delivery EXCEPT ![i] = "out"]
        /\ delivered' = [delivered EXCEPT ![i] = @ + 1]
        /\ slot' = [slot EXCEPT ![s] = Working(Pulled(i), i)] \/ UNCHANGED slot
        /\ Mishap \/ UNCHANGED mishaps
        /\ UNCHANGED <<messages, pulling, accepted, outcomes, buried>>
    BY <1>6 DEF Pull
  <2>2. Working(Pulled(i), i) \in SlotStates
    BY MessagesType DEF ConsumerInv, Working, Pulled, SlotStates, Stages
  <2>3. SlotsAreTyped'
    BY <2>1, <2>2 DEF ConsumerInv, SlotsAreTyped
  <2>4. ASSUME NEW t \in Slots
        PROVE  \/ slot'[t] = IdleSlot
               \/ slot[t] # IdleSlot /\ slot'[t].at = slot[t].at /\ slot'[t].msg = slot[t].msg
               \/ slot'[t] = Working(Pulled(i), i)
    <3>1. slot'[t] = slot[t] \/ slot'[t] = Working(Pulled(i), i)
      BY <2>1 DEF ConsumerInv, SlotsAreTyped
    <3> QED
      BY <3>1
  <2>5. /\ delivered \in [DOMAIN messages -> 0..MaxDeliveries]
        /\ MaxDeliveries \in Nat
        /\ delivery \in [DOMAIN messages -> {"ready", "out", "acked", "expired"}]
        /\ delivered[i] < MaxDeliveries
        /\ pulling' \in BOOLEAN /\ buried' = buried /\ buried \subseteq Jobs
    BY <2>1 DEF ConsumerInv, ConsumerTypeOK, TransportConstants, ReadyIsAllowed
  <2>6. /\ delivery' \in [DOMAIN messages -> {"ready", "out", "acked", "expired"}]
        /\ delivered' \in [DOMAIN messages -> 0..MaxDeliveries]
        /\ \A k \in DOMAIN messages : delivered[k] =< delivered'[k]
        /\ \A k \in DOMAIN messages :
              delivery'[k] \in {"acked", "expired"} => delivery[k] \in {"acked", "expired"}
    BY <2>1, <2>5
  <2>7. ReadyIsAllowed'
    <3>1. \A k \in DOMAIN messages : delivery'[k] = "ready" => delivered'[k] < MaxDeliveries
      BY <2>1, <2>5 DEF ConsumerInv, ReadyIsAllowed
    <3> QED
      BY <2>1, <3>1 DEF ReadyIsAllowed
  <2> QED
    BY <2>1, <2>3, <2>4, <2>5, <2>6, <2>7, DeliveryStep
<1>7. ASSUME NEW s \in Slots, NEW answer \in HandlerAnswers, Handled(s, answer)
      PROVE  ConsumerInv'
  <2> DEFINE job == InHand(s).job
             attempt == InHand(s).attempt
             after == AfterAnswer(answer, InHand(s))
  <2>1. /\ slot[s].at = "handle" /\ slot[s] # IdleSlot
        /\ answered' = IF answer \in {"COMPLETED", "CANCELLED"} THEN answered \cup {job}
                       ELSE answered
        /\ refused' = IF answer = "REFUSED" THEN refused \cup {job} ELSE refused
        /\ failed' = IF answer = "FAILED" THEN [failed EXCEPT ![job] = @ \cup {attempt}]
                     ELSE failed
        /\ slot' = [slot EXCEPT ![s] = IF after = "idle" THEN IdleSlot
                                       ELSE [@ EXCEPT !.at = after]]
        /\ UNCHANGED <<messages, delivery, delivered, pulling, accepted, buried, mishaps>>
    BY <1>7 DEF Handled, IdleSlot
  <2>2. /\ slot[s] \in [at : Stages, msg : Nat, current : BOOLEAN]
        /\ slot[s].msg \in DOMAIN messages
        /\ job \in Jobs /\ attempt \in Nat \ {0}
    BY <2>1, SlotType DEF ConsumerInv, SlotsFollowAnswers, FollowsAnswer, Message
  <2>3. attempt \in AttemptsAt(job)
    BY <2>2 DEF ConsumerInv, ConsumerTypeOK, InHand
  <2>4. /\ answered' \cup refused' \cup buried' \subseteq Jobs
        /\ failed' \in [Jobs -> SUBSET (Nat \ {0})]
        /\ \A j \in Jobs : failed[j] \subseteq failed'[j] /\ failed'[j] \subseteq AttemptsAt(j)
    BY <2>1, <2>2, <2>3 DEF ConsumerInv, ConsumerTypeOK
  <2>5. Grows
    BY <2>1, <2>4 DEF Grows
  <2>6. ConsumerTypeOK' => EarlierAttemptsFailed' /\ SettledBeforeAcked'
    BY <2>1, <2>5, MessagesKept
  <2>7. MessagesAreTyped' /\ ReadyIsAllowed'
    BY <2>1 DEF ConsumerInv, ConsumerTypeOK, MessagesAreTyped, AttemptsInRange, ReadyIsAllowed
  <2>8. PICK at \in Stages : at = after \/ (after = "idle" /\ at = "ack")
    BY DEF AfterAnswer, Stages
  <2>9. slot' = [slot EXCEPT ![s].at = at] \/ slot' = [slot EXCEPT ![s] = IdleSlot]
    BY <2>1, <2>8
  <2>10. ASSUME slot' = [slot EXCEPT ![s].at = at]
         PROVE  FollowsAnswer(s)'
    <3>1. slot'[s] = [slot[s] EXCEPT !.at = at] /\ slot'[s].msg = slot[s].msg /\ slot'[s].at = at
      BY <2>2, <2>10 DEF ConsumerInv, SlotsAreTyped
    <3>2. InHand(s)' = InHand(s)
      BY <2>1, <3>1 DEF InHand
    <3>3. at = after
      <4>1. after = "idle" => slot'[s] = IdleSlot
        BY <2>1 DEF ConsumerInv, SlotsAreTyped
      <4>2. slot'[s].at # "idle"
        BY <3>1 DEF Stages
      <4> QED
        BY <2>8, <4>1, <4>2 DEF IdleSlot
    <3>4. at = "republish" => attempt < LastAttempt[job] /\ attempt \in failed'[job]
      BY <2>1, <2>2, <3>3 DEF AfterAnswer, ConsumerInv, ConsumerTypeOK
    <3>5. at = "bury" => \/ job \in refused'
                         \/ attempt = LastAttempt[job] /\ attempt \in failed'[job]
      <4>1. attempt =< LastAttempt[job] /\ LastAttempt[job] \in Nat
        BY <2>2, <2>3, AttemptsType
      <4> QED
        BY <2>1, <2>2, <3>3, <4>1 DEF AfterAnswer, HandlerAnswers, ConsumerInv, ConsumerTypeOK
    <3>6. at = "ack" => Succeeded(slot[s].msg)'
      <4>1. at = "ack" => job \in answered'
        BY <2>1, <3>3 DEF AfterAnswer
      <4>2. messages'[slot'[s].msg].job = job
        BY <2>1, <3>1 DEF InHand
      <4> QED
        BY <4>1, <4>2 DEF Succeeded
    <3>7. job # MalformedJob
      BY <2>2 DEF TransportConstants
    <3> QED
      BY <3>1, <3>2, <3>4, <3>5, <3>6, <3>7 DEF FollowsAnswer
  <2> QED
    BY <2>1, <2>4, <2>5, <2>6, <2>7, <2>9, <2>10, SlotStep
<1>8. ASSUME NEW s \in Slots, Republish(s)
      PROVE  ConsumerInv'
  <2> DEFINE job == InHand(s).job
             attempt == InHand(s).attempt
  <2>1. /\ slot[s].at = "republish" /\ slot[s] # IdleSlot
        /\ \/ Send(job, attempt + 1) /\ slot' = [slot EXCEPT ![s].at = "ack"]
           \/ /\ Send(job, attempt + 1) \/ UNCHANGED <<messages, delivery, delivered>>
              /\ slot' = [slot EXCEPT ![s] = IdleSlot]
        /\ Mishap \/ UNCHANGED mishaps
        /\ UNCHANGED <<pulling, accepted, outcomes, buried>>
    BY <1>8 DEF Republish, SendFails, IdleSlot
  <2>2. /\ slot[s] \in [at : Stages, msg : Nat, current : BOOLEAN]
        /\ slot[s].msg \in DOMAIN messages
        /\ job \in Jobs /\ attempt \in Nat \ {0}
        /\ attempt < LastAttempt[job] /\ attempt \in failed[job]
    BY <2>1, SlotType DEF ConsumerInv, SlotsFollowAnswers, FollowsAnswer, Message
  <2>3. attempt \in AttemptsAt(job) /\ attempt + 1 \in AttemptsAt(job) /\ attempt + 1 \in Nat \ {0}
    <3>1. attempt \in AttemptsAt(job)
      BY <2>2 DEF ConsumerInv, ConsumerTypeOK, InHand
    <3> HIDE DEF job, attempt
    <3> QED
      BY <2>2, <3>1, AttemptsType
  <2>4. \A n \in AttemptsAt(job) : n < attempt + 1 => n \in failed[job]
    <3>1. \A n \in AttemptsAt(job) : n < attempt => n \in failed[job]
      BY <2>2 DEF ConsumerInv, EarlierAttemptsFailed, InHand, TransportConstants
    <3>2. \A n \in AttemptsAt(job) : n < attempt + 1 => n < attempt \/ n = attempt
      BY <2>2, AttemptsType
    <3> QED
      BY <2>2, <3>1, <3>2
  <2>5. Send(job, attempt + 1) \/ UNCHANGED <<messages, delivery, delivered>>
    BY <2>1
  <2>6. /\ Grows /\ MessagesAreTyped' /\ ReadyIsAllowed'
        /\ ConsumerTypeOK' => EarlierAttemptsFailed' /\ SettledBeforeAcked'
    <3> HIDE DEF job, attempt
    <3> QED
      BY <2>1, <2>2, <2>3, <2>4, <2>5, SentOrNot
  <2>7. ASSUME slot' = [slot EXCEPT ![s].at = "ack"]
        PROVE  FollowsAnswer(s)'
    <3>1. slot'[s].at = "ack" /\ slot'[s].msg = slot[s].msg
      BY <2>2, <2>7 DEF ConsumerInv, SlotsAreTyped
    <3>2. Send(job, attempt + 1)
      <4>1. slot'[s].at # "idle"
        BY <3>1
      <4>2. slot' = [slot EXCEPT ![s] = IdleSlot] => slot'[s].at = "idle"
        BY DEF ConsumerInv, SlotsAreTyped, IdleSlot
      <4> QED
        BY <2>1, <4>1, <4>2
    <3>3. InHand(s)' = InHand(s)
      BY <2>2, <2>6, <3>1 DEF Grows, InHand
    <3>4. Succeeded(slot[s].msg)'
      <4>1. /\ Len(messages) + 1 \in DOMAIN messages'
            /\ messages'[Len(messages) + 1] = [job |-> job, attempt |-> attempt + 1]
        <5> HIDE DEF job, attempt
        <5> QED
          BY <2>2, <2>3, <3>2, Sent DEF ConsumerInv
      <4>2. messages'[slot'[s].msg].job = job /\ messages'[slot'[s].msg].attempt = attempt
        BY <3>3 DEF InHand
      <4> QED
        BY <4>1, <4>2 DEF Succeeded
    <3> QED
      BY <2>2, <3>1, <3>3, <3>4 DEF FollowsAnswer, TransportConstants
  <2>8. /\ answered' \cup refused' \cup buried' \subseteq Jobs
        /\ failed' \in [Jobs -> SUBSET (Nat \ {0})]
        /\ \A j \in Jobs : failed'[j] \subseteq AttemptsAt(j)
        /\ buried' = buried
    BY <2>1 DEF ConsumerInv, ConsumerTypeOK
  <2>9. "ack" \in Stages
    BY DEF Stages
  <2> QED
    BY <2>1, <2>6, <2>7, <2>8, <2>9, SlotStep
<1>9. ASSUME NEW s \in Slots, Bury(s)
      PROVE  ConsumerInv'
  <2> DEFINE job == InHand(s).job
             attempt == InHand(s).attempt
  <2>1. /\ slot[s].at = "bury" /\ slot[s] # IdleSlot
        /\ \/ buried' = buried \cup {job} /\ slot' = [slot EXCEPT ![s].at = "ack"]
           \/ /\ buried' \in {buried, buried \cup {job}}
              /\ slot' = [slot EXCEPT ![s] = IdleSlot]
        /\ Mishap \/ UNCHANGED mishaps
        /\ UNCHANGED <<messages, delivery, delivered, pulling, accepted, outcomes>>
    BY <1>9 DEF Bury, IdleSlot
  <2>2. /\ slot[s] \in [at : Stages, msg : Nat, current : BOOLEAN]
        /\ slot[s].msg \in DOMAIN messages
        /\ job \in Jobs /\ attempt \in Nat \ {0}
        /\ job \in refused \/ (attempt = LastAttempt[job] /\ attempt \in failed[job])
    BY <2>1, SlotType DEF ConsumerInv, SlotsFollowAnswers, FollowsAnswer, Message
  <2>3. job \in refused \/ failed[job] = AttemptsAt(job)
    <3>1. ASSUME job \notin refused
          PROVE  \A n \in AttemptsAt(job) : n \in failed[job]
      <4>1. \A n \in AttemptsAt(job) : n < attempt => n \in failed[job]
        BY <2>2 DEF ConsumerInv, EarlierAttemptsFailed, InHand, TransportConstants
      <4>2. \A n \in AttemptsAt(job) : n < LastAttempt[job] \/ n = LastAttempt[job]
        BY <2>2, AttemptsType
      <4> QED
        BY <2>2, <3>1, <4>1, <4>2
    <3>2. failed[job] \subseteq AttemptsAt(job)
      BY <2>2 DEF ConsumerInv, ConsumerTypeOK
    <3> QED
      BY <2>2, <3>1, <3>2
  <2>4. Grows
    BY <2>1 DEF Grows
  <2>5. \A j \in buried' : j \in buried \/ MayBeBuried(j)'
    BY <2>1, <2>3 DEF MayBeBuried, AttemptsAt
  <2>6. ConsumerTypeOK' => EarlierAttemptsFailed' /\ SettledBeforeAcked'
    BY <2>1, <2>4, MessagesKept
  <2>7. ASSUME slot' = [slot EXCEPT ![s].at = "ack"]
        PROVE  FollowsAnswer(s)'
    <3>1. slot'[s].at = "ack" /\ slot'[s].msg = slot[s].msg
      BY <2>2, <2>7 DEF ConsumerInv, SlotsAreTyped
    <3>2. job \in buried'
      <4>1. slot' = [slot EXCEPT ![s] = IdleSlot] => slot'[s].at = "idle"
        BY DEF ConsumerInv, SlotsAreTyped, IdleSlot
      <4> QED
        BY <2>1, <3>1, <4>1
    <3>3. InHand(s)' = InHand(s)
      BY <2>1, <3>1 DEF InHand
    <3>4. Succeeded(slot[s].msg)'
      <4>1. messages'[slot'[s].msg].job = job
        BY <3>3 DEF InHand
      <4> QED
        BY <3>2, <4>1 DEF Succeeded
    <3> QED
      BY <2>2, <3>1, <3>3, <3>4 DEF FollowsAnswer, TransportConstants
  <2>8. /\ answered' \cup refused' \cup buried' \subseteq Jobs
        /\ failed' \in [Jobs -> SUBSET (Nat \ {0})]
        /\ \A j \in Jobs : failed'[j] \subseteq AttemptsAt(j)
        /\ MessagesAreTyped' /\ ReadyIsAllowed'
    BY <2>1, <2>2
    DEF ConsumerInv, ConsumerTypeOK, MessagesAreTyped, AttemptsInRange, ReadyIsAllowed
  <2>9. "ack" \in Stages
    BY DEF Stages
  <2> QED
    BY <2>1, <2>4, <2>5, <2>6, <2>7, <2>8, <2>9, SlotStep
<1>10. ASSUME NEW s \in Slots, Ack(s)
       PROVE  ConsumerInv'
  <2>1. /\ slot[s].at = "ack" /\ slot[s] # IdleSlot
        /\ delivery' \in {delivery, [delivery EXCEPT ![slot[s].msg] =
                                         IF @ = "expired" THEN @ ELSE "acked"]}
        /\ slot' = [slot EXCEPT ![s] = IdleSlot]
        /\ Mishap \/ UNCHANGED mishaps
        /\ UNCHANGED <<messages, delivered, pulling, accepted, outcomes, buried>>
    BY <1>10 DEF Ack, IdleSlot
  <2>2. /\ slot[s].msg \in DOMAIN messages
        /\ InHand(s).job # MalformedJob => Succeeded(slot[s].msg)
    BY <2>1, SlotType DEF ConsumerInv, SlotsFollowAnswers, FollowsAnswer
  <2>3. Grows
    BY <2>1 DEF Grows
  <2>4. EarlierAttemptsFailed'
    BY <2>1 DEF ConsumerInv, EarlierAttemptsFailed, AttemptsAt
  <2>5. SettledBeforeAcked'
    <3>1. ASSUME NEW i \in DOMAIN messages, messages[i].job # MalformedJob,
                 delivery'[i] \in {"acked", "expired"}
          PROVE  Succeeded(i)
      <4>1. delivery[i] \in {"acked", "expired"} \/ i = slot[s].msg
        BY <2>1, <2>2, <3>1 DEF ConsumerInv, ConsumerTypeOK
      <4> QED
        BY <2>2, <3>1, <4>1 DEF ConsumerInv, SettledBeforeAcked, InHand
    <3>2. \A i \in DOMAIN messages : Succeeded(i) => Succeeded(i)'
      BY <2>3, StaysSucceeded
    <3> QED
      BY <2>1, <3>1, <3>2 DEF SettledBeforeAcked
  <2>6. /\ answered' \cup refused' \cup buried' \subseteq Jobs
        /\ failed' \in [Jobs -> SUBSET (Nat \ {0})]
        /\ \A j \in Jobs : failed'[j] \subseteq AttemptsAt(j)
        /\ buried' = buried
    BY <2>1, <2>2 DEF ConsumerInv, ConsumerTypeOK
  <2>7. MessagesAreTyped'
    BY <2>1, <2>2 DEF ConsumerInv, ConsumerTypeOK, MessagesAreTyped, AttemptsInRange
  <2>8. ReadyIsAllowed'
    <3>1. \A k \in DOMAIN messages : delivery'[k] = "ready" => delivery[k] = "ready"
      BY <2>1, <2>2 DEF ConsumerInv, ConsumerTypeOK
    <3> QED
      BY <2>1, <3>1 DEF ConsumerInv, ReadyIsAllowed
  <2>9. slot' = [slot EXCEPT ![s].at = "ack"] => FollowsAnswer(s)'
    <3>1. slot'[s] = IdleSlot
      BY <2>1 DEF ConsumerInv, SlotsAreTyped
    <3> QED
      BY <3>1 DEF FollowsAnswer
  <2>10. "ack" \in Stages
    BY DEF Stages
  <2> QED
    BY <2>1, <2>3, <2>4, <2>5, <2>6, <2>9, <2>10, <2>7, <2>8, SlotStep
<1>11. CASE UNCHANGED consumerVars
  BY <1>2, <1>11 DEF consumerVars, ConsumerInv, ConsumerTypeOK, SlotsAreTyped
<1> QED
  BY <1>1, <1>3, <1>4, <1>5, <1>6, <1>7, <1>8, <1>9, <1>10, <1>11 DEF ConsumerNext

\* Whatever call fails and wherever the pool is stopped, the transport's variables have
\* their types (jobs/pubsub.py): no envelope exceeds its attempts, no malformed message
\* is handed to a handler, and every slot's message is one that was published.
THEOREM ConsumerTypeCorrectness == TransportConstants => (ConsumerSpec => []ConsumerTypeOK)
<1>1. SUFFICES ASSUME TransportConstants PROVE ConsumerSpec => []ConsumerTypeOK
  OBVIOUS
<1>2. ConsumerInit => ConsumerInv
  BY <1>1, InitConsumerInv
<1>3. ConsumerInv /\ [ConsumerNext]_consumerVars => ConsumerInv'
  BY <1>1, NextConsumerInv
<1>4. ConsumerInv => ConsumerTypeOK
  BY DEF ConsumerInv
<1>5. QED
  BY <1>2, <1>3, <1>4, PTL DEF ConsumerSpec

\* A job that was published is answered for good, is dead-lettered, or has a message
\* that is not done with, and is dead-lettered only after its attempts from the first that
\* was published to the last failed, or one of them for good, or a message of it was
\* delivered as often as the subscription allows (_process_message of jobs/pubsub.py).
THEOREM JobsAreNeverLost == TransportConstants => (ConsumerSpec => []NoJobIsLost)
<1>1. SUFFICES ASSUME TransportConstants PROVE ConsumerSpec => []NoJobIsLost
  OBVIOUS
<1>2. ConsumerInit => ConsumerInv
  BY <1>1, InitConsumerInv
<1>3. ConsumerInv /\ [ConsumerNext]_consumerVars => ConsumerInv'
  BY <1>1, NextConsumerInv
<1>4. ConsumerInv => NoJobIsLost
  BY <1>1, NoJobIsLostFollows
<1>5. QED
  BY <1>2, <1>3, <1>4, PTL DEF ConsumerSpec

-------------------------------------------------------------------------------
(* PubSubConsumer as a job queue.                                              *)

\* What AtLeastOnce makes of the transport's variables.
StageOf == [j \in Jobs |-> Stage(j)]
FailedOf == [j \in Jobs |-> IF j \in answered THEN {} ELSE failed[j]]
RefusedOf == refused \ answered
ReachedOf == [j \in Jobs |-> IF j \in answered THEN {} ELSE DeliveriesOf(j)]

\* The invariant tells the stage of a job from what was published, acknowledged or not.
KnownStage(j) ==
    IF j \in answered THEN "answered"
    ELSE IF j \in buried THEN "dead"
    ELSE IF Published(j) THEN "owed" ELSE "none"

StagesAreKnown == \A j \in Jobs : Stage(j) = KnownStage(j)

LEMMA StagesFollow == TransportConstants /\ ConsumerInv => StagesAreKnown
<1> SUFFICES ASSUME TransportConstants, ConsumerInv, NEW j \in Jobs
             PROVE  Stage(j) = KnownStage(j)
  BY Zenon DEF StagesAreKnown
<1>1. Published(j) => j \in answered \/ j \in buried \/ Waiting(j)
  BY PublishedIsKept
<1>2. Waiting(j) \/ j \in accepted => Published(j)
  BY DEF Waiting, MessagesOf, Published, ConsumerInv, AcceptedIsSent
<1>3. QED
  BY <1>1, <1>2 DEF Stage, KnownStage

\* How often the messages of a job were delivered, by its definition.
LEMMA DeliveriesMeans ==
    \A j, n : n \in DeliveriesOf(j) <=> \E i \in MessagesOf(j) : n \in 1..delivered[i]
  BY DEF DeliveriesOf

\* A step that delivers nothing: what it publishes was not delivered yet.
LEMMA NothingDelivered ==
    ASSUME DOMAIN messages \subseteq DOMAIN messages',
           \A i \in DOMAIN messages : messages'[i] = messages[i] /\ delivered'[i] = delivered[i],
           \A i \in DOMAIN messages' \ DOMAIN messages : delivered'[i] = 0,
           NEW j
    PROVE  DeliveriesOf(j)' = DeliveriesOf(j)
<1>1. \A n : n \in DeliveriesOf(j)' <=> \E i \in MessagesOf(j)' : n \in 1..delivered'[i]
  BY DEF DeliveriesOf
<1>2. \A n : (\E i \in MessagesOf(j)' : n \in 1..delivered'[i])
                 <=> \E i \in MessagesOf(j) : n \in 1..delivered[i]
  BY DEF MessagesOf
<1>3. QED
  BY <1>1, <1>2, DeliveriesMeans

\* A step that answers, fails, buries and delivers nothing, and publishes no job for the
\* first time.
LEMMA NothingOfJobs ==
    ASSUME StagesAreKnown, StagesAreKnown', UNCHANGED <<outcomes, buried>>,
           \A j \in Jobs : DeliveriesOf(j)' = DeliveriesOf(j),
           \A j \in Jobs : Published(j)' <=> Published(j)
    PROVE  UNCHANGED <<StageOf, FailedOf, RefusedOf, ReachedOf>>
<1>1. \A j \in Jobs : Stage(j)' = Stage(j)
  BY DEF StagesAreKnown, KnownStage, outcomes
<1>2. QED
  BY <1>1 DEF StageOf, FailedOf, RefusedOf, ReachedOf, outcomes

\* A publication adds its job to those that were published, and delivers nothing.
LEMMA SentIsPublished ==
    ASSUME TransportConstants, ConsumerInv,
           NEW job \in Jobs \cup {MalformedJob}, NEW attempt \in Nat \ {0},
           Send(job, attempt) \/ UNCHANGED <<messages, delivery, delivered>>,
           NEW j \in Jobs
    PROVE  /\ Published(j) => Published(j)'
           /\ Published(j)' => Published(j) \/ j = job
           /\ DeliveriesOf(j)' = DeliveriesOf(j)
<1>1. CASE Send(job, attempt)
  <2> DEFINE new == Len(messages) + 1
  <2>1. /\ DOMAIN messages' = DOMAIN messages \cup {new}
        /\ \A i \in DOMAIN messages : messages'[i] = messages[i]
        /\ messages'[new] = [job |-> job, attempt |-> attempt]
        /\ \A i \in DOMAIN messages : delivered'[i] = delivered[i]
        /\ delivered'[new] = 0
    BY <1>1, Sent DEF ConsumerInv
  <2> HIDE DEF new
  <2>2. DeliveriesOf(j)' = DeliveriesOf(j)
    BY <2>1, NothingDelivered
  <2>3. QED
    BY <2>1, <2>2 DEF Published
<1>2. CASE UNCHANGED <<messages, delivery, delivered>>
  BY <1>2, NothingDelivered DEF Published
<1>3. QED
  BY <1>1, <1>2

\* What a handler's answer does to the job: it is answered, or an attempt has failed.
LEMMA HandledStep ==
    ASSUME TransportConstants, ConsumerInv, StagesAreKnown, StagesAreKnown',
           NEW s \in Slots, NEW answer \in HandlerAnswers, Handled(s, answer)
    PROVE  AtLeastOnce!Next \/ UNCHANGED <<StageOf, FailedOf, RefusedOf, ReachedOf>>
<1>1. slot[s].at = "handle" /\ slot[s] # IdleSlot
  BY DEF Handled, IdleSlot
<1>2. slot[s].msg \in DOMAIN messages /\ InHand(s) \in Message /\ InHand(s).job # MalformedJob
  BY <1>1, SlotType DEF ConsumerInv, SlotsFollowAnswers, FollowsAnswer
<1>3. PICK job \in Jobs, attempt \in Nat \ {0} :
          InHand(s) = [job |-> job, attempt |-> attempt] /\ attempt \in AttemptsAt(job)
  <2>1. InHand(s).job \in Jobs
    BY <1>2 DEF Message
  <2>2. InHand(s).attempt \in AttemptsAt(InHand(s).job)
    BY <1>2, <2>1 DEF ConsumerInv, ConsumerTypeOK, InHand
  <2>3. QED
    BY <1>2, <2>1, <2>2 DEF Message
<1>4. /\ answered' = IF answer \in {"COMPLETED", "CANCELLED"} THEN answered \cup {job}
                     ELSE answered
      /\ refused' = IF answer = "REFUSED" THEN refused \cup {job} ELSE refused
      /\ failed' = IF answer = "FAILED" THEN [failed EXCEPT ![job] = @ \cup {attempt}]
                   ELSE failed
      /\ UNCHANGED <<messages, delivered, buried>>
  BY <1>3 DEF Handled
<1>5. /\ Published(job) /\ attempt \in AtLeastOnce!Attempts(job)
      /\ \A n \in FirstAttempt[job]..attempt - 1 : n \in failed[job]
  <2>1. \A n \in AttemptsAt(job) : n < attempt => n \in failed[job]
    BY <1>2, <1>3 DEF ConsumerInv, EarlierAttemptsFailed, InHand
  <2>2. /\ attempt \in AtLeastOnce!Attempts(job)
        /\ \A n \in FirstAttempt[job]..attempt - 1 : n \in AttemptsAt(job) /\ n < attempt
    <3>1. attempt \in AttemptsAt(job)
      BY <1>3
    <3>2. QED
      BY <3>1, AttemptsType DEF AttemptsAt, AtLeastOnce!Attempts
  <2>3. QED
    BY <1>2, <1>3, <2>1, <2>2 DEF Published, InHand
<1>6. failed \in [Jobs -> SUBSET (Nat \ {0})]
  BY DEF ConsumerInv, ConsumerTypeOK
<1>7. \A j \in Jobs : /\ Published(j)' <=> Published(j)
                      /\ DeliveriesOf(j)' = DeliveriesOf(j)
  BY <1>4, NothingDelivered DEF Published
<1>8. \A j \in Jobs : j # job \/ answer \notin {"COMPLETED", "CANCELLED"} => Stage(j)' = Stage(j)
  BY <1>4, <1>7 DEF StagesAreKnown, KnownStage
<1>9. Stage(job) \in {"answered", "dead", "owed"} /\ (Stage(job) = "answered" <=> job \in answered)
  BY <1>5 DEF StagesAreKnown, KnownStage
<1>10. CASE answer \in {"COMPLETED", "CANCELLED"}
  <2>1. CASE job \in answered
    BY <1>4, <1>7, <1>10, <2>1, NothingOfJobs DEF outcomes
  <2>2. CASE job \notin answered
    <3>1. Stage(job)' = "answered"
      BY <1>4, <1>5, <1>10 DEF StagesAreKnown, KnownStage
    <3>2. StageOf' = [StageOf EXCEPT ![job] = "answered"]
      BY <1>5, <1>8, <3>1 DEF StageOf
    <3>3. FailedOf' = [FailedOf EXCEPT ![job] = {}]
      BY <1>4, <1>5, <1>10 DEF FailedOf
    <3>4. RefusedOf' = RefusedOf \ {job}
      BY <1>4, <1>10 DEF RefusedOf
    <3>5. StageOf[job] \in {"owed", "dead"}
      BY <1>5, <1>9, <2>2 DEF StageOf
    <3>6. ReachedOf' = [ReachedOf EXCEPT ![job] = {}]
      BY <1>4, <1>7, <1>10 DEF ReachedOf
    <3>7. AtLeastOnce!Close(job)
      BY <3>2, <3>3, <3>4, <3>5, <3>6
      DEF AtLeastOnce!Close, AtLeastOnce!Goes, StageOf, FailedOf, RefusedOf, ReachedOf
    <3>8. QED
      BY <1>5, <3>7 DEF AtLeastOnce!Next
  <2>3. QED
    BY <2>1, <2>2
<1>11. CASE answer = "QUEUED"
  BY <1>4, <1>7, <1>11, NothingOfJobs DEF outcomes
<1>12. CASE answer \in {"FAILED", "REFUSED"}
  <2>1. StageOf' = StageOf /\ ReachedOf' = ReachedOf
    BY <1>4, <1>7, <1>8, <1>12 DEF StageOf, ReachedOf
  <2>2. CASE job \in answered
    <3>1. FailedOf' = FailedOf /\ RefusedOf' = RefusedOf
      BY <1>4, <1>5, <1>6, <1>12, <2>2 DEF FailedOf, RefusedOf
    <3>2. QED
      BY <2>1, <3>1
  <2>3. CASE job \notin answered
    <3>1. StageOf[job] \in {"owed", "dead"} /\ FailedOf[job] = failed[job]
      BY <1>5, <1>9, <2>3 DEF StageOf, FailedOf
    <3>2. CASE answer = "FAILED"
      <4>1. FailedOf' = [FailedOf EXCEPT ![job] = @ \cup {attempt}]
        BY <1>4, <1>5, <1>6, <2>3, <3>2 DEF FailedOf
      <4>2. RefusedOf' = RefusedOf
        BY <1>4, <3>2 DEF RefusedOf
      <4>3. AtLeastOnce!Failing(job)
        BY <1>5, <3>1, <4>1, <4>2 DEF AtLeastOnce!Failing, FailedOf, RefusedOf
      <4>4. QED
        BY <1>5, <2>1, <3>1, <4>3 DEF AtLeastOnce!Next, AtLeastOnce!Fail, StageOf, ReachedOf
    <3>3. CASE answer = "REFUSED"
      <4>1. FailedOf' = FailedOf
        BY <1>4, <3>3 DEF FailedOf
      <4>2. RefusedOf' = RefusedOf \cup {job}
        BY <1>4, <2>3, <3>3 DEF RefusedOf
      <4>3. AtLeastOnce!Failing(job)
        BY <4>1, <4>2 DEF AtLeastOnce!Failing, FailedOf, RefusedOf
      <4>4. QED
        BY <1>5, <2>1, <3>1, <4>3 DEF AtLeastOnce!Next, AtLeastOnce!Fail, StageOf, ReachedOf
    <3>4. QED
      BY <1>12, <3>2, <3>3
  <2>4. QED
    BY <2>2, <2>3
<1>13. QED
  BY <1>10, <1>11, <1>12 DEF HandlerAnswers

\* A job that is dead-lettered may be: it is dead, if it was owed.
LEMMA BuriedIsBury ==
    ASSUME TransportConstants, ConsumerInv, ConsumerInv', StagesAreKnown, StagesAreKnown',
           NEW job \in Jobs, Published(job),
           buried' \in {buried, buried \cup {job}},
           UNCHANGED <<messages, delivered, outcomes>>
    PROVE  AtLeastOnce!Next \/ UNCHANGED <<StageOf, FailedOf, RefusedOf, ReachedOf>>
<1>1. \A j \in Jobs : /\ Published(j)' <=> Published(j)
                      /\ DeliveriesOf(j)' = DeliveriesOf(j)
  BY NothingDelivered DEF Published
<1>2. FailedOf' = FailedOf /\ RefusedOf' = RefusedOf /\ ReachedOf' = ReachedOf
  BY <1>1 DEF FailedOf, RefusedOf, ReachedOf, outcomes
<1>3. \A j \in Jobs : j # job \/ job \in answered \cup buried => Stage(j)' = Stage(j)
  BY <1>1 DEF StagesAreKnown, KnownStage, outcomes
<1>4. CASE buried' = buried
  BY <1>1, <1>4, NothingOfJobs
<1>5. CASE job \in answered \cup buried
  BY <1>2, <1>3, <1>5 DEF StageOf
<1>6. CASE buried' = buried \cup {job} /\ job \notin answered \cup buried
  <2>1. Stage(job) = "owed" /\ Stage(job)' = "dead"
    BY <1>1, <1>6 DEF StagesAreKnown, KnownStage, outcomes
  <2>2. StageOf' = [StageOf EXCEPT ![job] = "dead"] /\ StageOf[job] = "owed"
    BY <1>3, <2>1 DEF StageOf
  <2>3. MayBeBuried(job)'
    BY <1>6 DEF ConsumerInv, BuriedLast
  <2>4. (\E i \in MessagesOf(job) : delivered[i] = MaxDeliveries)
            => DeliveriesOf(job) = 1..MaxDeliveries
    <3>1. \A i \in MessagesOf(job) : delivered[i] \in 0..MaxDeliveries
      BY DEF ConsumerInv, ConsumerTypeOK, MessagesOf
    <3>2. \A n : n \in DeliveriesOf(job) <=> \E i \in MessagesOf(job) : n \in 1..delivered[i]
      BY DeliveriesMeans
    <3>3. \A n : n \in DeliveriesOf(job) => n \in 1..MaxDeliveries
      BY <3>1, <3>2 DEF TransportConstants
    <3>4. QED
      BY <3>2, <3>3
  <2>5. \/ job \in RefusedOf'
        \/ FailedOf'[job] = AtLeastOnce!Attempts(job)
        \/ ReachedOf[job] = 1..MaxDeliveries
    BY <1>6, <2>3, <2>4
    DEF MayBeBuried, MessagesOf, RefusedOf, FailedOf, ReachedOf, outcomes, AttemptsAt,
        AtLeastOnce!Attempts
  <2>6. AtLeastOnce!Bury(job)
    BY <1>2, <2>2, <2>5
    DEF AtLeastOnce!Bury, AtLeastOnce!Goes, StageOf, FailedOf, RefusedOf, ReachedOf
  <2>7. QED
    BY <2>6 DEF AtLeastOnce!Next
<1>7. QED
  BY <1>4, <1>5, <1>6

\* A slot's dead letter.
LEMMA BuryStep ==
    ASSUME TransportConstants, ConsumerInv, ConsumerInv', StagesAreKnown, StagesAreKnown',
           NEW s \in Slots, Bury(s)
    PROVE  AtLeastOnce!Next \/ UNCHANGED <<StageOf, FailedOf, RefusedOf, ReachedOf>>
<1>1. slot[s].at = "bury" /\ slot[s] # IdleSlot
  BY DEF Bury, IdleSlot
<1>2. slot[s].msg \in DOMAIN messages /\ InHand(s) \in Message /\ InHand(s).job # MalformedJob
  BY <1>1, SlotType DEF ConsumerInv, SlotsFollowAnswers, FollowsAnswer
<1>3. PICK job \in Jobs : InHand(s).job = job
  BY <1>2 DEF Message
<1>4. buried' \in {buried, buried \cup {job}} /\ UNCHANGED <<messages, delivered, outcomes>>
  BY <1>3 DEF Bury
<1>5. Published(job)
  BY <1>2, <1>3 DEF Published, InHand
<1>6. QED
  BY <1>4, <1>5, BuriedIsBury

\* A deadline that passes delivers nothing; at the last delivery it buries the job.
LEMMA LapseStep ==
    ASSUME TransportConstants, ConsumerInv, ConsumerInv', StagesAreKnown, StagesAreKnown',
           NEW i \in DOMAIN messages, Lapse(i)
    PROVE  AtLeastOnce!Next \/ UNCHANGED <<StageOf, FailedOf, RefusedOf, ReachedOf>>
<1>1. /\ \/ buried' = buried
         \/ buried' = buried \cup ({messages[i].job} \ {MalformedJob})
      /\ UNCHANGED <<messages, delivered, outcomes>>
  BY DEF Lapse
<1>2. messages[i].job \in Jobs \cup {MalformedJob}
  BY MessagesType DEF ConsumerInv, Message
<1>3. CASE messages[i].job \in Jobs /\ buried' # buried
  <2>1. buried' \in {buried, buried \cup {messages[i].job}}
    BY <1>1, <1>3 DEF TransportConstants
  <2>2. Published(messages[i].job)
    BY DEF Published
  <2>3. QED
    BY <1>1, <1>3, <2>1, <2>2, BuriedIsBury
<1>4. CASE buried' = buried
  <2>1. \A j \in Jobs : /\ Published(j)' <=> Published(j)
                        /\ DeliveriesOf(j)' = DeliveriesOf(j)
    BY <1>1, NothingDelivered DEF Published
  <2>2. QED
    BY <1>1, <1>4, <2>1, NothingOfJobs
<1>5. messages[i].job = MalformedJob => buried' = buried
  BY <1>1
<1>6. QED
  BY <1>2, <1>3, <1>4, <1>5

\* A pull delivers a message once more: its job reaches one delivery further, if it did
\* not before.
LEMMA PullStep ==
    ASSUME TransportConstants, ConsumerInv, StagesAreKnown, StagesAreKnown',
           NEW i \in DOMAIN messages, NEW s \in Slots, Pull(s, i)
    PROVE  AtLeastOnce!Next \/ UNCHANGED <<StageOf, FailedOf, RefusedOf, ReachedOf>>
<1>1. /\ delivery[i] = "ready" /\ delivered' = [delivered EXCEPT ![i] = @ + 1]
      /\ UNCHANGED <<messages, outcomes, buried>>
  BY DEF Pull
<1>2. /\ delivered \in [DOMAIN messages -> 0..MaxDeliveries] /\ delivered[i] < MaxDeliveries
      /\ MaxDeliveries \in Nat /\ messages[i].job \in Jobs \cup {MalformedJob}
  BY <1>1, MessagesType
  DEF ConsumerInv, ConsumerTypeOK, ReadyIsAllowed, TransportConstants, Message
<1>3. \A j \in Jobs : Published(j)' <=> Published(j)
  BY <1>1 DEF Published
<1>4. StageOf' = StageOf /\ FailedOf' = FailedOf /\ RefusedOf' = RefusedOf
  BY <1>1, <1>3 DEF StagesAreKnown, KnownStage, StageOf, FailedOf, RefusedOf, outcomes
<1>5. ASSUME NEW j \in Jobs, j # messages[i].job
      PROVE  DeliveriesOf(j)' = DeliveriesOf(j)
  <2>1. \A n : n \in DeliveriesOf(j)' <=> \E k \in MessagesOf(j)' : n \in 1..delivered'[k]
    BY DEF DeliveriesOf
  <2>2. \A k \in MessagesOf(j) : delivered'[k] = delivered[k]
    BY <1>1, <1>2, <1>5 DEF MessagesOf
  <2>3. MessagesOf(j)' = MessagesOf(j)
    BY <1>1 DEF MessagesOf
  <2>4. QED
    BY <2>1, <2>2, <2>3, DeliveriesMeans
<1>6. CASE messages[i].job \in {MalformedJob} \cup answered
  <2>1. \A j \in Jobs : j \in answered \/ j # messages[i].job
    BY <1>6 DEF TransportConstants
  <2>2. ReachedOf' = ReachedOf
    BY <1>1, <1>5, <2>1 DEF ReachedOf, outcomes
  <2>3. QED
    BY <1>4, <2>2
<1>7. CASE messages[i].job \in Jobs \ answered
  <2> PICK job \in Jobs : job = messages[i].job /\ job \notin answered
    BY <1>7
  <2> DEFINE n == delivered[i] + 1
  <2>1. DeliveriesOf(job)' = DeliveriesOf(job) \cup {n}
    <3>1. \A m : m \in DeliveriesOf(job)' <=> \E k \in MessagesOf(job)' : m \in 1..delivered'[k]
      BY <1>1 DEF DeliveriesOf
    <3>2. MessagesOf(job)' = MessagesOf(job) /\ i \in MessagesOf(job)
      BY <1>1 DEF MessagesOf
    <3>3. \A k \in MessagesOf(job) : delivered'[k] = IF k = i THEN n ELSE delivered[k]
      BY <1>1, <1>2 DEF MessagesOf
    <3>4. \A m : m \in 1..n <=> m \in 1..delivered[i] \/ m = n
      BY <1>2
    <3>5. \A m : (\E k \in MessagesOf(job) : m \in 1..delivered'[k])
                     <=> (\E k \in MessagesOf(job) : m \in 1..delivered[k]) \/ m = n
      <4> HIDE DEF n
      <4>1. QED
        BY <3>2, <3>3, <3>4
    <3>6. QED
      BY <3>1, <3>2, <3>5, DeliveriesMeans
  <2>2. 1..n - 1 \subseteq DeliveriesOf(job) /\ n \in 1..MaxDeliveries
    <3>1. i \in MessagesOf(job) /\ n - 1 = delivered[i]
      BY <1>2 DEF MessagesOf
    <3>2. QED
      BY <1>2, <3>1, DeliveriesMeans
  <2>3. StageOf[job] \in {"owed", "dead"}
    <3>1. Published(job)
      BY DEF Published
    <3>2. QED
      BY <1>7, <3>1 DEF StagesAreKnown, KnownStage, StageOf
  <2>4. ReachedOf' = [ReachedOf EXCEPT ![job] = @ \cup {n}] /\ ReachedOf[job] = DeliveriesOf(job)
    BY <1>1, <1>5, <1>7, <2>1 DEF ReachedOf, outcomes
  <2>5. AtLeastOnce!Deliver(job)
    <3> HIDE DEF n
    <3>1. QED
      BY <1>4, <2>2, <2>3, <2>4 DEF AtLeastOnce!Deliver, StageOf, FailedOf, RefusedOf, ReachedOf
  <2>6. QED
    BY <2>5 DEF AtLeastOnce!Next
<1>8. QED
  BY <1>2, <1>6, <1>7

\* A publication is the job's first, and the job is owed from then on, or changes nothing.
LEMMA PublishJobStep ==
    ASSUME TransportConstants, ConsumerInv, StagesAreKnown, StagesAreKnown',
           NEW job \in Jobs, NEW attempt \in Nat \ {0},
           Send(job, attempt) \/ UNCHANGED <<messages, delivery, delivered>>,
           UNCHANGED <<outcomes, buried>>
    PROVE  AtLeastOnce!Next \/ UNCHANGED <<StageOf, FailedOf, RefusedOf, ReachedOf>>
<1>1. \A j \in Jobs : /\ Published(j) => Published(j)'
                      /\ Published(j)' => Published(j) \/ j = job
                      /\ DeliveriesOf(j)' = DeliveriesOf(j)
  BY SentIsPublished
<1>2. CASE Published(job) \/ ~Published(job)'
  <2>1. \A j \in Jobs : Published(j)' <=> Published(j)
    BY <1>1, <1>2
  <2>2. QED
    BY <1>1, <2>1, NothingOfJobs
<1>3. CASE ~Published(job) /\ Published(job)'
  <2>1. FailedOf' = FailedOf /\ RefusedOf' = RefusedOf /\ ReachedOf' = ReachedOf
    BY <1>1 DEF FailedOf, RefusedOf, ReachedOf, outcomes
  <2>2. \A j \in Jobs : j # job => Stage(j)' = Stage(j)
    BY <1>1 DEF StagesAreKnown, KnownStage, outcomes
  <2>3. CASE job \in answered \cup buried
    <3>1. Stage(job)' = Stage(job)
      BY <2>3 DEF StagesAreKnown, KnownStage, outcomes
    <3>2. QED
      BY <2>1, <2>2, <3>1 DEF StageOf
  <2>4. CASE job \notin answered \cup buried
    <3>1. Stage(job) = "none" /\ Stage(job)' = "owed"
      BY <1>3, <2>4 DEF StagesAreKnown, KnownStage, outcomes
    <3>2. StageOf' = [StageOf EXCEPT ![job] = "owed"] /\ StageOf[job] = "none"
      BY <2>2, <3>1 DEF StageOf
    <3>3. AtLeastOnce!Publish(job)
      BY <2>1, <3>2
      DEF AtLeastOnce!Publish, AtLeastOnce!Goes, StageOf, FailedOf, RefusedOf, ReachedOf
    <3>4. QED
      BY <3>3 DEF AtLeastOnce!Next
  <2>5. QED
    BY <2>3, <2>4
<1>4. QED
  BY <1>2, <1>3

\* Every step of the transport is one of the queue's, or none.
LEMMA NextIsQueueStep ==
    ASSUME TransportConstants, ConsumerInv, ConsumerInv', StagesAreKnown, StagesAreKnown',
           [ConsumerNext]_consumerVars
    PROVE  AtLeastOnce!Next \/ UNCHANGED <<StageOf, FailedOf, RefusedOf, ReachedOf>>
<1>1. ASSUME NEW j \in Jobs, PublishJob(j)
      PROVE  AtLeastOnce!Next \/ UNCHANGED <<StageOf, FailedOf, RefusedOf, ReachedOf>>
  <2>1. FirstAttempt[j] \in Nat \ {0}
    BY AttemptsType
  <2>2. Send(j, FirstAttempt[j]) \/ UNCHANGED <<messages, delivery, delivered>>
    BY <1>1 DEF PublishJob, SendFails
  <2>3. UNCHANGED <<outcomes, buried>>
    BY <1>1 DEF PublishJob
  <2>4. QED
    BY <2>1, <2>2, <2>3, PublishJobStep
<1>2. ASSUME PublishMalformed
      PROVE  UNCHANGED <<StageOf, FailedOf, RefusedOf, ReachedOf>>
  <2>1. 1 \in Nat \ {0} /\ MalformedJob \notin Jobs
    BY DEF TransportConstants
  <2>2. Send(MalformedJob, 1) /\ UNCHANGED <<outcomes, buried>>
    BY <1>2 DEF PublishMalformed
  <2>3. \A j \in Jobs : (Published(j)' <=> Published(j)) /\ DeliveriesOf(j)' = DeliveriesOf(j)
    BY <2>1, <2>2, SentIsPublished
  <2>4. QED
    BY <2>2, <2>3, NothingOfJobs
<1>3. ASSUME UNCHANGED <<messages, delivered, outcomes, buried>>
      PROVE  UNCHANGED <<StageOf, FailedOf, RefusedOf, ReachedOf>>
  <2>1. \A j \in Jobs : (Published(j)' <=> Published(j)) /\ DeliveriesOf(j)' = DeliveriesOf(j)
    BY <1>3, NothingDelivered DEF Published
  <2>2. QED
    BY <1>3, <2>1, NothingOfJobs
<1>4. ASSUME NEW s \in Slots, NEW answer \in HandlerAnswers, Handled(s, answer)
      PROVE  AtLeastOnce!Next \/ UNCHANGED <<StageOf, FailedOf, RefusedOf, ReachedOf>>
  BY <1>4, HandledStep
<1>5. ASSUME NEW s \in Slots, Republish(s)
      PROVE  AtLeastOnce!Next \/ UNCHANGED <<StageOf, FailedOf, RefusedOf, ReachedOf>>
  <2>1. slot[s].at = "republish" /\ slot[s] # IdleSlot
    BY <1>5 DEF Republish, IdleSlot
  <2>2. InHand(s) \in Message /\ InHand(s).job # MalformedJob
    BY <2>1, SlotType DEF ConsumerInv, SlotsFollowAnswers, FollowsAnswer
  <2>3. PICK job \in Jobs, attempt \in Nat \ {0} :
            /\ InHand(s).job = job /\ InHand(s).attempt = attempt
            /\ attempt + 1 \in Nat \ {0}
    BY <2>2 DEF Message
  <2>4. Send(job, attempt + 1) \/ UNCHANGED <<messages, delivery, delivered>>
    BY <1>5, <2>3 DEF Republish, SendFails
  <2>5. UNCHANGED <<outcomes, buried>>
    BY <1>5 DEF Republish
  <2>6. QED
    BY <2>3, <2>4, <2>5, PublishJobStep
<1>6. ASSUME NEW s \in Slots, Bury(s)
      PROVE  AtLeastOnce!Next \/ UNCHANGED <<StageOf, FailedOf, RefusedOf, ReachedOf>>
  BY <1>6, BuryStep
<1>7. CASE StartPool \/ StopPool
  BY <1>3, <1>7 DEF StartPool, StopPool
<1>8. ASSUME NEW i \in DOMAIN messages, Lapse(i) \/ \E s \in Slots : Pull(s, i)
      PROVE  AtLeastOnce!Next \/ UNCHANGED <<StageOf, FailedOf, RefusedOf, ReachedOf>>
  BY <1>8, LapseStep, PullStep
<1>9. CASE \E s \in Slots : Ack(s)
  BY <1>3, <1>9 DEF Ack
<1>10. CASE UNCHANGED consumerVars
  BY <1>3, <1>10 DEF consumerVars
<1>11. QED
  BY <1>1, <1>2, <1>4, <1>5, <1>6, <1>7, <1>8, <1>9, <1>10 DEF ConsumerNext

LEMMA InitIsQueueInit == TransportConstants /\ ConsumerInit => AtLeastOnce!Init
<1> SUFFICES ASSUME TransportConstants, ConsumerInit PROVE AtLeastOnce!Init
  OBVIOUS
<1>1. ASSUME NEW j \in Jobs
      PROVE  Stage(j) = "none"
  <2>1. ~Waiting(j)
    BY DEF ConsumerInit, Waiting, MessagesOf
  <2>2. QED
    BY <2>1 DEF ConsumerInit, Stage
<1>2. ASSUME NEW j \in Jobs
      PROVE  DeliveriesOf(j) = {}
  <2>1. MessagesOf(j) = {}
    BY DEF ConsumerInit, MessagesOf
  <2>2. QED
    BY <2>1 DEF DeliveriesOf
<1>3. QED
  BY <1>1, <1>2 DEF ConsumerInit, AtLeastOnce!Init

\* The Pub/Sub transport (jobs/pubsub.py) is an at-least-once job queue that loses
\* nothing: from its publication a job is owed an answer, its attempts fail in their
\* order, and it is dead-lettered only when all from the one it was published with have
\* failed, or one for good, or a message of it was delivered as often as is allowed.
THEOREM ImplementsJobQueue == TransportConstants => (ConsumerSpec => AtLeastOnceSpec)
<1>1. SUFFICES ASSUME TransportConstants PROVE ConsumerSpec => AtLeastOnceSpec
  OBVIOUS
<1>2. ConsumerInit => ConsumerInv /\ AtLeastOnce!Init
  BY <1>1, InitConsumerInv, InitIsQueueInit
<1>3. ConsumerInv => StagesAreKnown
  BY <1>1, StagesFollow
<1>4. ConsumerInv /\ [ConsumerNext]_consumerVars => ConsumerInv'
  BY <1>1, NextConsumerInv
<1>5. ConsumerInv /\ ConsumerInv' /\ StagesAreKnown /\ StagesAreKnown' /\ [ConsumerNext]_consumerVars
          => [AtLeastOnce!Next]_<<StageOf, FailedOf, RefusedOf, ReachedOf>>
  BY <1>1, NextIsQueueStep
<1>6. QED
  BY <1>2, <1>3, <1>4, <1>5, PTL
  DEF ConsumerSpec, AtLeastOnceSpec, AtLeastOnce!Spec, StageOf, FailedOf, RefusedOf, ReachedOf

-------------------------------------------------------------------------------
(* InMemoryQueue.                                                              *)

Envelopes == [job : LocalJobs, attempt : 1..MaxLocalAttempts]
Letters == [job : LocalJobs, attempt : 1..MaxLocalAttempts, answer : LocalAnswers]

QueueIsTyped ==
    /\ queue \in Seq(Envelopes) /\ letters \in Seq(Letters)
    /\ hand \in [LocalSlots -> Envelopes \cup {NoEnvelope}]
    /\ DOMAIN tracked \subseteq LocalJobs /\ dropped \subseteq DOMAIN tracked

\* Nothing is anywhere of a job that is not tracked.
EnvelopesAreTracked ==
    /\ \A i \in DOMAIN queue : queue[i].job \in DOMAIN tracked
    /\ \A s \in Holding : hand[s].job \in DOMAIN tracked
    /\ \A i \in DOMAIN letters : letters[i].job \in DOMAIN tracked

Queued(j) == \E i \in DOMAIN queue : queue[i].job = j
InHandOf(j) == \E s \in Holding : hand[s].job = j
Dead(j) == \E i \in DOMAIN letters : letters[i].job = j

QueuedOnce(j) == \A i, k \in DOMAIN queue : queue[i].job = j /\ queue[k].job = j => i = k
HandledOnce(j) == \A s, u \in Holding : hand[s].job = j /\ hand[u].job = j => s = u
DeadOnce(j) == \A i, k \in DOMAIN letters : letters[i].job = j /\ letters[k].job = j => i = k

HasPlace(j) ==
    /\ tracked[j] \in {"QUEUED", "RUNNING", "COMPLETED", "CANCELLED", "DEAD_LETTERED"}
    /\ tracked[j] = "QUEUED" <=> Queued(j)
    /\ tracked[j] = "RUNNING" <=> InHandOf(j)
    /\ tracked[j] = "DEAD_LETTERED" <=> Dead(j)
    /\ QueuedOnce(j) /\ HandledOnce(j) /\ DeadOnce(j)

LettersAreFinal ==
    \A i \in DOMAIN letters : letters[i].answer = "REFUSED" \/ letters[i].attempt = MaxLocalAttempts

QueueInv ==
    /\ QueueIsTyped
    /\ EnvelopesAreTracked
    /\ \A j \in DOMAIN tracked \ dropped : HasPlace(j)
    /\ LettersAreFinal

-------------------------------------------------------------------------------
LEMMA ElementOfQueue ==
    ASSUME NEW S, NEW s \in Seq(S), NEW i \in DOMAIN s
    PROVE  s[i] \in S
  OBVIOUS

LEMMA Appended ==
    ASSUME NEW S, NEW s \in Seq(S), NEW x \in S
    PROVE  /\ Append(s, x) \in Seq(S)
           /\ Len(s) + 1 \notin DOMAIN s
           /\ DOMAIN Append(s, x) = DOMAIN s \cup {Len(s) + 1}
           /\ \A i \in DOMAIN s : Append(s, x)[i] = s[i]
           /\ Append(s, x)[Len(s) + 1] = x
  OBVIOUS

LEMMA HeadAndTail ==
    ASSUME NEW S, NEW s \in Seq(S), s # << >>
    PROVE  /\ Head(s) \in S /\ Head(s) = s[1] /\ 1 \in DOMAIN s
           /\ Tail(s) \in Seq(S)
           /\ \A i \in DOMAIN Tail(s) :
                 i \in Nat /\ i + 1 \in DOMAIN s /\ i + 1 # 1 /\ Tail(s)[i] = s[i + 1]
           /\ \A k \in DOMAIN s : k # 1 => k \in Nat /\ k - 1 \in DOMAIN Tail(s) /\ s[k] = Tail(s)[k - 1]
  OBVIOUS

LEMMA EnvelopeIsSomething ==
    ASSUME NEW e \in Envelopes
    PROVE  e # NoEnvelope
<1>1. DOMAIN e = {"job", "attempt"} /\ DOMAIN NoEnvelope = {}
  BY DEF Envelopes, NoEnvelope
<1>2. QED
  BY <1>1

LEMMA HandType ==
    ASSUME QueueIsTyped, NEW s \in Holding
    PROVE  /\ s \in LocalSlots /\ hand[s] \in Envelopes
           /\ hand[s].job \in LocalJobs /\ hand[s].attempt \in 1..MaxLocalAttempts
<1>1. s \in LocalSlots /\ hand[s] \in Envelopes
  BY DEF QueueIsTyped, Holding
<1>2. QED
  BY <1>1 DEF Envelopes

\* Where the tracked status of one job changes.
LEMMA Tracking ==
    ASSUME NEW job, NEW status, tracked' = Track(job, status)
    PROVE  /\ DOMAIN tracked' = DOMAIN tracked \cup {job}
           /\ tracked'[job] = status
           /\ \A j \in DOMAIN tracked : j # job => tracked'[j] = tracked[j]
BY DEF Track

\* An envelope is put at the end of the queue.
LEMMA QueueGrows ==
    ASSUME QueueIsTyped, NEW e \in Envelopes, queue' = Append(queue, e)
    PROVE  /\ queue' \in Seq(Envelopes)
           /\ \A j : Queued(j)' <=> Queued(j) \/ e.job = j
           /\ \A j : QueuedOnce(j) /\ (e.job = j => ~Queued(j)) => QueuedOnce(j)'
<1>1. /\ queue' \in Seq(Envelopes)
      /\ Len(queue) + 1 \notin DOMAIN queue
      /\ DOMAIN queue' = DOMAIN queue \cup {Len(queue) + 1}
      /\ \A i \in DOMAIN queue : queue'[i] = queue[i]
      /\ queue'[Len(queue) + 1] = e
  <2> HIDE DEF Envelopes
  <2>1. queue \in Seq(Envelopes)
    BY DEF QueueIsTyped
  <2>2. QED
    BY <2>1, Appended
<1>2. \A j : Queued(j)' <=> Queued(j) \/ e.job = j
  BY <1>1 DEF Queued
<1>3. \A j : QueuedOnce(j) /\ (e.job = j => ~Queued(j)) => QueuedOnce(j)'
  BY <1>1 DEF Queued, QueuedOnce
<1>4. QED
  BY <1>1, <1>2, <1>3

\* The envelope at its head is taken.
LEMMA QueueShrinks ==
    ASSUME QueueIsTyped, queue # << >>, queue' = Tail(queue)
    PROVE  /\ queue' \in Seq(Envelopes) /\ Head(queue) \in Envelopes
           /\ Queued(Head(queue).job)
           /\ \A j : j # Head(queue).job => (Queued(j)' <=> Queued(j))
           /\ \A j : Queued(j)' => Queued(j)
           /\ \A j : QueuedOnce(j) => QueuedOnce(j)'
           /\ \A j : j = Head(queue).job /\ QueuedOnce(j) => ~Queued(j)'
<1>1. /\ Head(queue) \in Envelopes /\ Head(queue) = queue[1] /\ 1 \in DOMAIN queue
      /\ queue' \in Seq(Envelopes)
      /\ \A i \in DOMAIN queue' :
            i \in Nat /\ i + 1 \in DOMAIN queue /\ i + 1 # 1 /\ queue'[i] = queue[i + 1]
      /\ \A k \in DOMAIN queue :
            k # 1 => k \in Nat /\ k - 1 \in DOMAIN queue' /\ queue[k] = queue'[k - 1]
  <2>1. queue \in Seq(Envelopes)
    BY DEF QueueIsTyped
  <2>2. QED
    BY <2>1, HeadAndTail
<1>2. Queued(Head(queue).job)
  BY <1>1 DEF Queued
<1>3. \A j : Queued(j)' => Queued(j)
  BY <1>1 DEF Queued
<1>4. ASSUME NEW j, j # Head(queue).job, Queued(j)
      PROVE  Queued(j)'
  <2>1. PICK k \in DOMAIN queue : queue[k].job = j
    BY <1>4 DEF Queued
  <2>2. k # 1
    BY <1>1, <1>4, <2>1
  <2>3. QED
    BY <1>1, <2>1, <2>2 DEF Queued
<1>5. ASSUME NEW j, QueuedOnce(j)
      PROVE  QueuedOnce(j)'
  <2> SUFFICES ASSUME NEW i \in DOMAIN queue', NEW k \in DOMAIN queue',
                      queue'[i].job = j, queue'[k].job = j
               PROVE  i = k
    BY DEF QueuedOnce
  <2>1. i + 1 = k + 1 /\ i \in Nat /\ k \in Nat
    BY <1>1, <1>5 DEF QueuedOnce
  <2>2. QED
    BY <2>1
<1>6. \A j : j = Head(queue).job /\ QueuedOnce(j) => ~Queued(j)'
  BY <1>1 DEF Queued, QueuedOnce
<1>7. QED
  BY <1>1, <1>2, <1>3, <1>4, <1>5, <1>6

\* A free slot is given an envelope.
LEMMA HandTaken ==
    ASSUME QueueIsTyped, NEW s \in LocalSlots, hand[s] = NoEnvelope, NEW e \in Envelopes,
           hand' = [hand EXCEPT ![s] = e]
    PROVE  /\ hand' \in [LocalSlots -> Envelopes \cup {NoEnvelope}]
           /\ \A j : InHandOf(j)' <=> InHandOf(j) \/ e.job = j
           /\ \A j : HandledOnce(j) /\ (e.job = j => ~InHandOf(j)) => HandledOnce(j)'
<1>1. hand \in [LocalSlots -> Envelopes \cup {NoEnvelope}]
  BY DEF QueueIsTyped
<1>2. hand' \in [LocalSlots -> Envelopes \cup {NoEnvelope}] /\ hand'[s] = e
      /\ \A u \in LocalSlots : u # s => hand'[u] = hand[u]
  BY <1>1
<1>3. Holding' = Holding \cup {s} /\ s \notin Holding
  BY <1>2, EnvelopeIsSomething DEF Holding
<1>4. \A u \in Holding : hand'[u] = hand[u] /\ u # s
  BY <1>2, <1>3 DEF Holding
<1>5. \A j : InHandOf(j)' <=> InHandOf(j) \/ e.job = j
  BY <1>2, <1>3, <1>4 DEF InHandOf
<1>6. \A j : HandledOnce(j) /\ (e.job = j => ~InHandOf(j)) => HandledOnce(j)'
  BY <1>2, <1>3, <1>4 DEF InHandOf, HandledOnce
<1>7. QED
  BY <1>2, <1>5, <1>6

\* A slot is done with its envelope.
LEMMA HandEmptied ==
    ASSUME QueueIsTyped, NEW s \in Holding, hand' = [hand EXCEPT ![s] = NoEnvelope]
    PROVE  /\ hand' \in [LocalSlots -> Envelopes \cup {NoEnvelope}]
           /\ InHandOf(hand[s].job)
           /\ \A j : j # hand[s].job => (InHandOf(j)' <=> InHandOf(j))
           /\ \A j : InHandOf(j)' => InHandOf(j)
           /\ \A j : HandledOnce(j) => HandledOnce(j)'
           /\ \A j : j = hand[s].job /\ HandledOnce(j) => ~InHandOf(j)'
<1>1. hand \in [LocalSlots -> Envelopes \cup {NoEnvelope}] /\ s \in LocalSlots
  BY HandType DEF QueueIsTyped
<1>2. hand' \in [LocalSlots -> Envelopes \cup {NoEnvelope}] /\ hand'[s] = NoEnvelope
      /\ \A u \in LocalSlots : u # s => hand'[u] = hand[u]
  BY <1>1
<1>3. Holding' = Holding \ {s}
  BY <1>2 DEF Holding
<1>4. \A u \in Holding' : hand'[u] = hand[u]
  BY <1>2, <1>3 DEF Holding
<1>5. InHandOf(hand[s].job)
  BY DEF InHandOf
<1>6. \A j : InHandOf(j)' => InHandOf(j)
  BY <1>3, <1>4 DEF InHandOf
<1>7. \A j : j # hand[s].job => (InHandOf(j)' <=> InHandOf(j))
  BY <1>3, <1>4 DEF InHandOf
<1>8. \A j : HandledOnce(j) => HandledOnce(j)'
  BY <1>3, <1>4 DEF HandledOnce
<1>9. \A j : j = hand[s].job /\ HandledOnce(j) => ~InHandOf(j)'
  BY <1>3, <1>4 DEF InHandOf, HandledOnce
<1>10. QED
  BY <1>2, <1>5, <1>6, <1>7, <1>8, <1>9

\* A dead letter is added.
LEMMA LettersGrow ==
    ASSUME QueueIsTyped, NEW e \in Letters, letters' = Append(letters, e)
    PROVE  /\ letters' \in Seq(Letters)
           /\ \A j : Dead(j)' <=> Dead(j) \/ e.job = j
           /\ \A j : DeadOnce(j) /\ (e.job = j => ~Dead(j)) => DeadOnce(j)'
           /\ LettersAreFinal /\ (e.answer = "REFUSED" \/ e.attempt = MaxLocalAttempts)
              => LettersAreFinal'
<1>1. /\ letters' \in Seq(Letters)
      /\ Len(letters) + 1 \notin DOMAIN letters
      /\ DOMAIN letters' = DOMAIN letters \cup {Len(letters) + 1}
      /\ \A i \in DOMAIN letters : letters'[i] = letters[i]
      /\ letters'[Len(letters) + 1] = e
  <2> HIDE DEF Letters
  <2>1. letters \in Seq(Letters)
    BY DEF QueueIsTyped
  <2>2. QED
    BY <2>1, Appended
<1>2. \A j : Dead(j)' <=> Dead(j) \/ e.job = j
  BY <1>1 DEF Dead
<1>3. \A j : DeadOnce(j) /\ (e.job = j => ~Dead(j)) => DeadOnce(j)'
  BY <1>1 DEF Dead, DeadOnce
<1>4. LettersAreFinal /\ (e.answer = "REFUSED" \/ e.attempt = MaxLocalAttempts) => LettersAreFinal'
  BY <1>1 DEF LettersAreFinal
<1>5. QED
  BY <1>1, <1>2, <1>3, <1>4

LEMMA QueueUnchanged ==
    ASSUME UNCHANGED queue
    PROVE  \A j : (Queued(j)' <=> Queued(j)) /\ (QueuedOnce(j)' <=> QueuedOnce(j))
BY DEF Queued, QueuedOnce

LEMMA HandUnchanged ==
    ASSUME UNCHANGED hand
    PROVE  \A j : (InHandOf(j)' <=> InHandOf(j)) /\ (HandledOnce(j)' <=> HandledOnce(j))
BY DEF InHandOf, HandledOnce, Holding

LEMMA LettersUnchanged ==
    ASSUME UNCHANGED letters
    PROVE  /\ \A j : (Dead(j)' <=> Dead(j)) /\ (DeadOnce(j)' <=> DeadOnce(j))
           /\ LettersAreFinal' <=> LettersAreFinal
BY DEF Dead, DeadOnce, LettersAreFinal

\* EnvelopesAreTracked, job by job.
LEMMA TrackedJobs ==
    EnvelopesAreTracked <=> \A j : Queued(j) \/ InHandOf(j) \/ Dead(j) => j \in DOMAIN tracked
BY DEF EnvelopesAreTracked, Queued, InHandOf, Dead

-------------------------------------------------------------------------------
\* The invariant holds initially, and every step keeps it.
LEMMA InitQueueInv ==
    ASSUME QueueConstants, QueueInit
    PROVE  QueueInv
<1>1. /\ queue = << >> /\ letters = << >> /\ tracked = << >> /\ dropped = {}
      /\ hand = [s \in LocalSlots |-> NoEnvelope]
  BY DEF QueueInit
<1>2. DOMAIN queue = {} /\ DOMAIN letters = {} /\ DOMAIN tracked = {}
  BY <1>1
<1>3. Holding = {}
  BY <1>1 DEF Holding
<1>4. QueueIsTyped
  BY <1>1, <1>2 DEF QueueIsTyped
<1>5. QED
  BY <1>2, <1>3, <1>4 DEF QueueInv, EnvelopesAreTracked, LettersAreFinal

LEMMA PublishKeeps ==
    ASSUME QueueConstants, QueueInv, NEW job \in LocalJobs, PublishLocally(job)
    PROVE  QueueInv'
<1> DEFINE e == [job |-> job, attempt |-> 1]
<1>1. /\ job \notin DOMAIN tracked /\ queue' = Append(queue, e) /\ tracked' = Track(job, "QUEUED")
      /\ UNCHANGED letters /\ UNCHANGED hand /\ UNCHANGED dropped
  BY DEF PublishLocally, Put
<1>2. e \in Envelopes /\ e.job = job
  BY DEF Envelopes, QueueConstants
<1> HIDE DEF e
<1>3. QueueIsTyped /\ EnvelopesAreTracked /\ LettersAreFinal
      /\ \A j \in DOMAIN tracked \ dropped : HasPlace(j)
  BY DEF QueueInv
<1>4. /\ DOMAIN tracked' = DOMAIN tracked \cup {job} /\ tracked'[job] = "QUEUED"
      /\ \A j \in DOMAIN tracked : j # job => tracked'[j] = tracked[j]
  BY <1>1, Tracking
<1>5. /\ queue' \in Seq(Envelopes)
      /\ \A j : Queued(j)' <=> Queued(j) \/ job = j
      /\ \A j : QueuedOnce(j) /\ (job = j => ~Queued(j)) => QueuedOnce(j)'
  BY <1>1, <1>2, <1>3, QueueGrows
<1>6. ~Queued(job) /\ ~InHandOf(job) /\ ~Dead(job)
  BY <1>1, <1>3, TrackedJobs
<1>7. QueueIsTyped'
  BY <1>1, <1>3, <1>4, <1>5 DEF QueueIsTyped
<1>8. LettersAreFinal'
  BY <1>1, <1>3, LettersUnchanged
<1>9. EnvelopesAreTracked'
  <2>1. \A j : Queued(j)' \/ InHandOf(j)' \/ Dead(j)' => j \in DOMAIN tracked'
    BY <1>1, <1>3, <1>4, <1>5, TrackedJobs, HandUnchanged, LettersUnchanged
  <2>2. QED
    BY <2>1 DEF EnvelopesAreTracked, Queued, InHandOf, Dead
<1>10. ASSUME NEW j \in DOMAIN tracked' \ dropped'
       PROVE  HasPlace(j)'
  <2>1. CASE j = job
    <3>1. QueuedOnce(j) /\ HandledOnce(j) /\ DeadOnce(j)
      BY <1>6, <2>1 DEF Queued, QueuedOnce, InHandOf, HandledOnce, Dead, DeadOnce
    <3>2. QED
      BY <1>1, <1>4, <1>5, <1>6, <2>1, <3>1, HandUnchanged, LettersUnchanged DEF HasPlace
  <2>2. CASE j # job
    <3>1. HasPlace(j) /\ tracked'[j] = tracked[j]
      BY <1>1, <1>3, <1>4, <2>2
    <3>2. QED
      BY <1>1, <1>5, <2>2, <3>1, HandUnchanged, LettersUnchanged DEF HasPlace
  <2>3. QED
    BY <2>1, <2>2
<1>11. QED
  BY <1>7, <1>8, <1>9, <1>10 DEF QueueInv

LEMMA StopKeeps ==
    ASSUME QueueConstants, QueueInv, StopConsumer
    PROVE  QueueInv'
<1>1. /\ UNCHANGED queue /\ UNCHANGED letters /\ UNCHANGED tracked
      /\ hand' = [s \in LocalSlots |-> NoEnvelope]
      /\ dropped' = dropped \cup {hand[s].job : s \in Holding}
  BY DEF StopConsumer
<1>2. QueueIsTyped /\ EnvelopesAreTracked /\ LettersAreFinal
      /\ \A j \in DOMAIN tracked \ dropped : HasPlace(j)
  BY DEF QueueInv
<1>3. Holding' = {}
  BY <1>1 DEF Holding
<1>4. QueueIsTyped'
  BY <1>1, <1>2 DEF QueueIsTyped, EnvelopesAreTracked
<1>5. EnvelopesAreTracked'
  BY <1>1, <1>2, <1>3 DEF EnvelopesAreTracked
<1>6. ASSUME NEW j \in DOMAIN tracked' \ dropped'
      PROVE  HasPlace(j)'
  <2>1. HasPlace(j) /\ ~InHandOf(j)
    BY <1>1, <1>2 DEF InHandOf
  <2>2. ~InHandOf(j)' /\ HandledOnce(j)'
    BY <1>3 DEF InHandOf, HandledOnce
  <2>3. QED
    BY <1>1, <2>1, <2>2, QueueUnchanged, LettersUnchanged DEF HasPlace
<1>7. QED
  BY <1>1, <1>2, <1>4, <1>5, <1>6, LettersUnchanged DEF QueueInv

LEMMA GetKeeps ==
    ASSUME QueueConstants, QueueInv, NEW s \in LocalSlots, Get(s)
    PROVE  QueueInv'
<1> DEFINE e == Head(queue)
<1>1. /\ hand[s] = NoEnvelope /\ queue # << >> /\ hand' = [hand EXCEPT ![s] = e]
      /\ queue' = Tail(queue) /\ tracked' = Track(e.job, "RUNNING")
      /\ UNCHANGED letters /\ UNCHANGED dropped
  BY DEF Get
<1>2. QueueIsTyped /\ EnvelopesAreTracked /\ LettersAreFinal
      /\ \A j \in DOMAIN tracked \ dropped : HasPlace(j)
  BY DEF QueueInv
<1>3. /\ queue' \in Seq(Envelopes) /\ e \in Envelopes
      /\ Queued(e.job)
      /\ \A j : j # e.job => (Queued(j)' <=> Queued(j))
      /\ \A j : Queued(j)' => Queued(j)
      /\ \A j : QueuedOnce(j) => QueuedOnce(j)'
      /\ \A j : j = e.job /\ QueuedOnce(j) => ~Queued(j)'
  BY <1>1, <1>2, QueueShrinks
<1> HIDE DEF e
<1>4. /\ hand' \in [LocalSlots -> Envelopes \cup {NoEnvelope}]
      /\ \A j : InHandOf(j)' <=> InHandOf(j) \/ e.job = j
      /\ \A j : HandledOnce(j) /\ (e.job = j => ~InHandOf(j)) => HandledOnce(j)'
  BY <1>1, <1>2, <1>3, HandTaken
<1>5. e.job \in DOMAIN tracked
  BY <1>2, <1>3, TrackedJobs
<1>6. /\ DOMAIN tracked' = DOMAIN tracked /\ tracked'[e.job] = "RUNNING"
      /\ \A j \in DOMAIN tracked : j # e.job => tracked'[j] = tracked[j]
  BY <1>1, <1>5, Tracking
<1>7. QueueIsTyped'
  BY <1>1, <1>2, <1>3, <1>4, <1>6 DEF QueueIsTyped
<1>8. EnvelopesAreTracked'
  <2>1. \A j : Queued(j)' \/ InHandOf(j)' \/ Dead(j)' => j \in DOMAIN tracked'
    BY <1>1, <1>2, <1>3, <1>4, <1>5, <1>6, TrackedJobs, LettersUnchanged
  <2>2. QED
    BY <2>1 DEF EnvelopesAreTracked, Queued, InHandOf, Dead
<1>9. ASSUME NEW j \in DOMAIN tracked' \ dropped'
      PROVE  HasPlace(j)'
  <2>1. HasPlace(j)
    BY <1>1, <1>2, <1>6
  <2>2. CASE j = e.job
    <3>1. tracked[j] = "QUEUED" /\ ~InHandOf(j) /\ ~Dead(j) /\ QueuedOnce(j) /\ HandledOnce(j)
      BY <1>3, <2>1, <2>2 DEF HasPlace
    <3>2. ~Queued(j)' /\ QueuedOnce(j)' /\ InHandOf(j)' /\ HandledOnce(j)'
      BY <1>3, <1>4, <2>2, <3>1
    <3>3. ~Dead(j)' /\ DeadOnce(j)' /\ tracked'[j] = "RUNNING"
      BY <1>1, <1>6, <2>1, <2>2, <3>1, LettersUnchanged DEF HasPlace
    <3>4. QED
      BY <3>2, <3>3 DEF HasPlace
  <2>3. CASE j # e.job
    <3>1. tracked'[j] = tracked[j]
      BY <1>6, <2>3
    <3>2. QED
      BY <1>1, <1>3, <1>4, <2>1, <2>3, <3>1, LettersUnchanged DEF HasPlace
  <2>4. QED
    BY <2>2, <2>3
<1>10. QED
  BY <1>1, <1>2, <1>7, <1>8, <1>9, LettersUnchanged DEF QueueInv

\* The handler answers: the status of its job follows from where it goes next.
LEMMA ProcessKeeps ==
    ASSUME QueueConstants, QueueInv, NEW s \in LocalSlots, NEW answer \in LocalAnswers,
           ProcessEnvelope(s, answer)
    PROVE  QueueInv'
<1> DEFINE job == hand[s].job
           attempt == hand[s].attempt
<1>1. s \in Holding /\ hand' = [hand EXCEPT ![s] = NoEnvelope]
  BY DEF ProcessEnvelope
<1>2. QueueIsTyped /\ EnvelopesAreTracked /\ LettersAreFinal
      /\ \A j \in DOMAIN tracked \ dropped : HasPlace(j)
  BY DEF QueueInv
<1>3. job \in LocalJobs /\ attempt \in 1..MaxLocalAttempts
  BY <1>1, <1>2, HandType
<1>4. /\ hand' \in [LocalSlots -> Envelopes \cup {NoEnvelope}]
      /\ InHandOf(job)
      /\ \A j : j # job => (InHandOf(j)' <=> InHandOf(j))
      /\ \A j : InHandOf(j)' => InHandOf(j)
      /\ \A j : HandledOnce(j) => HandledOnce(j)'
      /\ \A j : j = job /\ HandledOnce(j) => ~InHandOf(j)'
  BY <1>1, <1>2, HandEmptied
<1>5. \/ /\ answer \in {"COMPLETED", "CANCELLED"} /\ tracked' = Track(job, answer)
         /\ UNCHANGED queue /\ UNCHANGED letters /\ UNCHANGED dropped
      \/ /\ dropped' = dropped \cup {job}
         /\ UNCHANGED queue /\ UNCHANGED letters /\ UNCHANGED tracked
      \/ /\ Retriable(answer, attempt) /\ Put(job, attempt + 1)
         /\ UNCHANGED letters /\ UNCHANGED dropped
      \/ /\ answer \in {"FAILED", "REFUSED"} /\ ~Retriable(answer, attempt)
         /\ tracked' = Track(job, "DEAD_LETTERED")
         /\ letters' = Append(letters, [job |-> job, attempt |-> attempt, answer |-> answer])
         /\ UNCHANGED queue /\ UNCHANGED dropped
  BY DEF ProcessEnvelope
<1> HIDE DEF job, attempt
<1>6. job \in DOMAIN tracked
  BY <1>2, <1>4, TrackedJobs
\* Where the job itself was, when it is followed at all.
<1>7. ASSUME job \notin dropped
      PROVE  /\ tracked[job] = "RUNNING" /\ ~Queued(job) /\ ~Dead(job)
             /\ QueuedOnce(job) /\ HandledOnce(job) /\ DeadOnce(job)
  BY <1>2, <1>4, <1>6, <1>7 DEF HasPlace
<1>8. CASE /\ answer \in {"COMPLETED", "CANCELLED"} /\ tracked' = Track(job, answer)
           /\ UNCHANGED queue /\ UNCHANGED letters /\ UNCHANGED dropped
  <2>1. /\ DOMAIN tracked' = DOMAIN tracked /\ tracked'[job] = answer
        /\ \A j \in DOMAIN tracked : j # job => tracked'[j] = tracked[j]
    BY <1>6, <1>8, Tracking
  <2>2. QueueIsTyped'
    BY <1>2, <1>4, <1>8, <2>1 DEF QueueIsTyped
  <2>3. \A j : Queued(j)' \/ InHandOf(j)' \/ Dead(j)' => j \in DOMAIN tracked'
    BY <1>2, <1>4, <1>8, <2>1, TrackedJobs, QueueUnchanged, LettersUnchanged
  <2>4. EnvelopesAreTracked'
    BY <2>3 DEF EnvelopesAreTracked, Queued, InHandOf, Dead
  <2>5. ASSUME NEW j \in DOMAIN tracked' \ dropped'
        PROVE  HasPlace(j)'
    <3>1. HasPlace(j)
      BY <1>2, <1>8, <2>1
    <3>2. CASE j = job
      BY <1>4, <1>7, <1>8, <2>1, <2>5, <3>1, <3>2, QueueUnchanged, LettersUnchanged DEF HasPlace
    <3>3. CASE j # job
      BY <1>4, <1>8, <2>1, <3>1, <3>3, QueueUnchanged, LettersUnchanged DEF HasPlace
    <3>4. QED
      BY <3>2, <3>3
  <2>6. QED
    BY <1>2, <1>8, <2>2, <2>4, <2>5, LettersUnchanged DEF QueueInv
<1>9. CASE /\ dropped' = dropped \cup {job}
           /\ UNCHANGED queue /\ UNCHANGED letters /\ UNCHANGED tracked
  <2>1. QueueIsTyped'
    BY <1>2, <1>4, <1>6, <1>9 DEF QueueIsTyped
  <2>2. \A j : Queued(j)' \/ InHandOf(j)' \/ Dead(j)' => j \in DOMAIN tracked'
    BY <1>2, <1>4, <1>9, TrackedJobs, QueueUnchanged, LettersUnchanged
  <2>3. EnvelopesAreTracked'
    BY <2>2 DEF EnvelopesAreTracked, Queued, InHandOf, Dead
  <2>4. ASSUME NEW j \in DOMAIN tracked' \ dropped'
        PROVE  HasPlace(j)'
    <3>1. HasPlace(j) /\ j # job /\ tracked'[j] = tracked[j]
      BY <1>2, <1>9
    <3>2. QED
      BY <1>4, <1>9, <3>1, QueueUnchanged, LettersUnchanged DEF HasPlace
  <2>5. QED
    BY <1>2, <1>9, <2>1, <2>3, <2>4, LettersUnchanged DEF QueueInv
<1>10. CASE /\ Retriable(answer, attempt) /\ Put(job, attempt + 1)
            /\ UNCHANGED letters /\ UNCHANGED dropped
  <2> DEFINE e == [job |-> job, attempt |-> attempt + 1]
  <2>1. e \in Envelopes /\ e.job = job
    BY <1>3, <1>10 DEF Envelopes, QueueConstants, Retriable
  <2>2. queue' = Append(queue, e) /\ tracked' = Track(job, "QUEUED")
    BY <1>10 DEF Put
  <2> HIDE DEF e
  <2>3. /\ queue' \in Seq(Envelopes)
        /\ \A j : Queued(j)' <=> Queued(j) \/ job = j
        /\ \A j : QueuedOnce(j) /\ (job = j => ~Queued(j)) => QueuedOnce(j)'
    BY <1>2, <2>1, <2>2, QueueGrows
  <2>4. /\ DOMAIN tracked' = DOMAIN tracked /\ tracked'[job] = "QUEUED"
        /\ \A j \in DOMAIN tracked : j # job => tracked'[j] = tracked[j]
    BY <1>6, <2>2, Tracking
  <2>5. QueueIsTyped'
    BY <1>2, <1>4, <1>10, <2>3, <2>4 DEF QueueIsTyped
  <2>6. \A j : Queued(j)' \/ InHandOf(j)' \/ Dead(j)' => j \in DOMAIN tracked'
    BY <1>2, <1>4, <1>6, <1>10, <2>3, <2>4, TrackedJobs, LettersUnchanged
  <2>7. EnvelopesAreTracked'
    BY <2>6 DEF EnvelopesAreTracked, Queued, InHandOf, Dead
  <2>8. ASSUME NEW j \in DOMAIN tracked' \ dropped'
        PROVE  HasPlace(j)'
    <3>1. HasPlace(j)
      BY <1>2, <1>10, <2>4
    <3>2. CASE j = job
      BY <1>4, <1>7, <1>10, <2>3, <2>4, <2>8, <3>2, LettersUnchanged DEF HasPlace
    <3>3. CASE j # job
      BY <1>4, <1>10, <2>3, <2>4, <3>1, <3>3, LettersUnchanged DEF HasPlace
    <3>4. QED
      BY <3>2, <3>3
  <2>9. QED
    BY <1>2, <1>10, <2>5, <2>7, <2>8, LettersUnchanged DEF QueueInv
<1>11. CASE /\ answer \in {"FAILED", "REFUSED"} /\ ~Retriable(answer, attempt)
            /\ tracked' = Track(job, "DEAD_LETTERED")
            /\ letters' = Append(letters, [job |-> job, attempt |-> attempt, answer |-> answer])
            /\ UNCHANGED queue /\ UNCHANGED dropped
  <2> DEFINE l == [job |-> job, attempt |-> attempt, answer |-> answer]
  <2>1. l \in Letters /\ l.job = job
    BY <1>3 DEF Letters
  <2>2. l.answer = "REFUSED" \/ l.attempt = MaxLocalAttempts
    BY <1>3, <1>11 DEF QueueConstants, Retriable
  <2>3. letters' = Append(letters, l)
    BY <1>11
  <2> HIDE DEF l
  <2>4. /\ letters' \in Seq(Letters)
        /\ \A j : Dead(j)' <=> Dead(j) \/ job = j
        /\ \A j : DeadOnce(j) /\ (job = j => ~Dead(j)) => DeadOnce(j)'
        /\ LettersAreFinal'
    BY <1>2, <2>1, <2>2, <2>3, LettersGrow
  <2>5. /\ DOMAIN tracked' = DOMAIN tracked /\ tracked'[job] = "DEAD_LETTERED"
        /\ \A j \in DOMAIN tracked : j # job => tracked'[j] = tracked[j]
    BY <1>6, <1>11, Tracking
  <2>6. QueueIsTyped'
    BY <1>2, <1>4, <1>11, <2>4, <2>5 DEF QueueIsTyped
  <2>7. \A j : Queued(j)' \/ InHandOf(j)' \/ Dead(j)' => j \in DOMAIN tracked'
    BY <1>2, <1>4, <1>6, <1>11, <2>4, <2>5, TrackedJobs, QueueUnchanged
  <2>8. EnvelopesAreTracked'
    BY <2>7 DEF EnvelopesAreTracked, Queued, InHandOf, Dead
  <2>9. ASSUME NEW j \in DOMAIN tracked' \ dropped'
        PROVE  HasPlace(j)'
    <3>1. HasPlace(j)
      BY <1>2, <1>11, <2>5
    <3>2. CASE j = job
      BY <1>4, <1>7, <1>11, <2>4, <2>5, <2>9, <3>2, QueueUnchanged DEF HasPlace
    <3>3. CASE j # job
      BY <1>4, <1>11, <2>4, <2>5, <3>1, <3>3, QueueUnchanged DEF HasPlace
    <3>4. QED
      BY <3>2, <3>3
  <2>10. QED
    BY <2>4, <2>6, <2>8, <2>9 DEF QueueInv
<1>12. QED
  BY <1>5, <1>8, <1>9, <1>10, <1>11

\* Nothing changes that the invariant speaks of.
LEMMA StutterKeeps ==
    ASSUME QueueInv, UNCHANGED <<queue, tracked, letters, hand, dropped>>
    PROVE  QueueInv'
<1>1. \A j : HasPlace(j)' <=> HasPlace(j)
  BY QueueUnchanged, HandUnchanged, LettersUnchanged DEF HasPlace
<1>2. QueueIsTyped' /\ EnvelopesAreTracked'
  BY DEF QueueInv, QueueIsTyped, EnvelopesAreTracked, Holding
<1>3. LettersAreFinal'
  BY LettersUnchanged DEF QueueInv
<1>4. QED
  BY <1>1, <1>2, <1>3 DEF QueueInv

LEMMA StepQueueInv ==
    ASSUME QueueConstants, QueueInv, [QueueNext]_queueVars
    PROVE  QueueInv'
<1>1. ASSUME NEW j \in LocalJobs, PublishLocally(j)
      PROVE  QueueInv'
  BY <1>1, PublishKeeps
<1>2. CASE StartConsumer
  BY <1>2, StutterKeeps DEF StartConsumer
<1>3. CASE StopConsumer
  BY <1>3, StopKeeps
<1>4. ASSUME NEW s \in LocalSlots, Get(s)
      PROVE  QueueInv'
  BY <1>4, GetKeeps
<1>5. ASSUME NEW s \in LocalSlots, NEW answer \in LocalAnswers, ProcessEnvelope(s, answer)
      PROVE  QueueInv'
  BY <1>5, ProcessKeeps
<1>6. CASE UNCHANGED queueVars
  BY <1>6, StutterKeeps DEF queueVars
<1>7. QED
  BY <1>1, <1>2, <1>3, <1>4, <1>5, <1>6 DEF QueueNext

THEOREM QueueInvHolds == QueueConstants => (QueueSpec => []QueueInv)
<1> SUFFICES ASSUME QueueConstants
             PROVE  QueueSpec => []QueueInv
  OBVIOUS
<1>1. QueueInit => QueueInv
  BY InitQueueInv
<1>2. QueueInv /\ [QueueNext]_queueVars => QueueInv'
  BY StepQueueInv
<1>3. QED
  BY <1>1, <1>2, PTL DEF QueueSpec

-------------------------------------------------------------------------------
\* Every envelope is of a known job and of an attempt that the policy allows; only
\* jobs that were published are tracked (InMemoryJobQueue._jobs).
THEOREM QueueTypeCorrectness == QueueConstants => (QueueSpec => []QueueTypeOK)
<1> SUFFICES ASSUME QueueConstants
             PROVE  QueueSpec => []QueueTypeOK
  OBVIOUS
<1>1. QueueInv => QueueTypeOK
  BY HandType DEF QueueInv, QueueIsTyped, QueueTypeOK, Envelopes
<1>2. QED
  BY <1>1, QueueInvHolds, PTL

\* The positions or slots that hold one thing, counted.
LEMMA CountedOnce ==
    ASSUME NEW S, NEW x \in S, \A y \in S : y = x
    PROVE  Cardinality(S) = 1
<1>1. S = {x}
  OBVIOUS
<1>2. QED
  BY <1>1, FS_Singleton

LEMMA CountedNever ==
    ASSUME NEW S, \A y \in S : FALSE
    PROVE  Cardinality(S) = 0
<1>1. S = {}
  OBVIOUS
<1>2. QED
  BY <1>1, FS_EmptySet

\* A job that has its place is counted in it once, and nowhere else.
LEMMA PlaceIsCounted ==
    ASSUME NEW j, HasPlace(j)
    PROVE  Places(j) = 1
<1> DEFINE Q == {i \in DOMAIN queue : queue[i].job = j}
           H == {s \in Holding : hand[s].job = j}
           D == {i \in DOMAIN letters : letters[i].job = j}
           Done == IF tracked[j] \in {"COMPLETED", "CANCELLED"} THEN 1 ELSE 0
<1>1. Cardinality(Q) = IF tracked[j] = "QUEUED" THEN 1 ELSE 0
  <2>1. CASE tracked[j] = "QUEUED"
    <3>1. PICK i \in DOMAIN queue : queue[i].job = j
      BY <2>1 DEF HasPlace, Queued
    <3>2. i \in Q /\ \A k \in Q : k = i
      BY <3>1 DEF HasPlace, QueuedOnce
    <3> HIDE DEF Q
    <3>3. QED
      BY <2>1, <3>2, CountedOnce
  <2>2. CASE tracked[j] # "QUEUED"
    <3>1. \A k \in Q : FALSE
      BY <2>2 DEF HasPlace, Queued
    <3> HIDE DEF Q
    <3>2. QED
      BY <2>2, <3>1, CountedNever
  <2>3. QED
    BY <2>1, <2>2
<1>2. Cardinality(H) = IF tracked[j] = "RUNNING" THEN 1 ELSE 0
  <2>1. CASE tracked[j] = "RUNNING"
    <3>1. PICK s \in Holding : hand[s].job = j
      BY <2>1 DEF HasPlace, InHandOf
    <3>2. s \in H /\ \A u \in H : u = s
      BY <3>1 DEF HasPlace, HandledOnce
    <3> HIDE DEF H
    <3>3. QED
      BY <2>1, <3>2, CountedOnce
  <2>2. CASE tracked[j] # "RUNNING"
    <3>1. \A u \in H : FALSE
      BY <2>2 DEF HasPlace, InHandOf
    <3> HIDE DEF H
    <3>2. QED
      BY <2>2, <3>1, CountedNever
  <2>3. QED
    BY <2>1, <2>2
<1>3. Cardinality(D) = IF tracked[j] = "DEAD_LETTERED" THEN 1 ELSE 0
  <2>1. CASE tracked[j] = "DEAD_LETTERED"
    <3>1. PICK i \in DOMAIN letters : letters[i].job = j
      BY <2>1 DEF HasPlace, Dead
    <3>2. i \in D /\ \A k \in D : k = i
      BY <3>1 DEF HasPlace, DeadOnce
    <3> HIDE DEF D
    <3>3. QED
      BY <2>1, <3>2, CountedOnce
  <2>2. CASE tracked[j] # "DEAD_LETTERED"
    <3>1. \A k \in D : FALSE
      BY <2>2 DEF HasPlace, Dead
    <3> HIDE DEF D
    <3>2. QED
      BY <2>2, <3>1, CountedNever
  <2>3. QED
    BY <2>1, <2>2
<1>4. Places(j) = Cardinality(Q) + Cardinality(H) + Cardinality(D) + Done
  BY DEF Places
<1>5. tracked[j] \in {"QUEUED", "RUNNING", "COMPLETED", "CANCELLED", "DEAD_LETTERED"}
  BY DEF HasPlace
<1> HIDE DEF Q, H, D
<1>6. QED
  BY <1>1, <1>2, <1>3, <1>4, <1>5

\* A published job that was neither handed back nor in hand at a stop is in one place:
\* the queue, a handler's hand, the dead letters, or done; and it is dead-lettered only
\* after its last attempt or a failure for good (InMemoryJobQueue._process_envelope).
THEOREM JobsHaveTheirPlace == QueueConstants => (QueueSpec => []EveryJobHasItsPlace)
<1> SUFFICES ASSUME QueueConstants
             PROVE  QueueSpec => []EveryJobHasItsPlace
  OBVIOUS
<1>1. QueueInv => EveryJobHasItsPlace
  <2> SUFFICES ASSUME QueueInv
               PROVE  EveryJobHasItsPlace
    OBVIOUS
  <2>1. ASSUME NEW j \in DOMAIN tracked \ dropped
        PROVE  /\ Places(j) = 1
               /\ tracked[j] = "QUEUED" <=> \E i \in DOMAIN queue : queue[i].job = j
               /\ tracked[j] = "RUNNING" <=> \E s \in Holding : hand[s].job = j
    <3>1. HasPlace(j)
      BY DEF QueueInv
    <3>2. Places(j) = 1
      BY <3>1, PlaceIsCounted
    <3>3. QED
      BY <3>1, <3>2 DEF HasPlace, Queued, InHandOf
  <2>2. QED
    BY <2>1 DEF EveryJobHasItsPlace, QueueInv, LettersAreFinal
<1>2. QED
  BY <1>1, QueueInvHolds, PTL

-------------------------------------------------------------------------------
(* InMemoryQueue as a job queue.                                               *)

\* What Local makes of the queue's variables.
StagesThere == [j \in LocalJobs |-> LocalStage(j)]
FailedThere == [j \in LocalJobs |-> IF j \in dropped THEN {} ELSE FailedAttempts(j)]
RefusedThere == {j \in LocalJobs \ dropped : \E l \in LettersOf(j) : l.answer = "REFUSED"}
ReachedThere == [j \in LocalJobs |-> {}]

\* The failed attempts that envelopes E and letters L of a job tell of.
FailedIn(E, L) ==
    (UNION {1..(e.attempt - 1) : e \in E \cup L})
        \cup {l.attempt : l \in {k \in L : k.answer = "FAILED"}}

LEMMA FailedAre ==
    ASSUME NEW E, NEW L
    PROVE  \A n : n \in FailedIn(E, L) <=> \/ \E e \in E \cup L : n \in 1..(e.attempt - 1)
                                           \/ \E l \in L : l.answer = "FAILED" /\ n = l.attempt
BY DEF FailedIn

LEMMA NoneFailed == FailedIn({}, {}) = {}
BY FailedAre

LEMMA EnvelopeTells ==
    ASSUME NEW e
    PROVE  FailedIn({e}, {}) = 1..(e.attempt - 1)
<1>1. \A n : n \in FailedIn({e}, {}) <=> n \in 1..(e.attempt - 1)
  BY FailedAre
<1>2. QED
  BY <1>1

LEMMA LetterTells ==
    ASSUME NEW l
    PROVE  FailedIn({}, {l}) = 1..(l.attempt - 1) \cup (IF l.answer = "FAILED" THEN {l.attempt} ELSE {})
BY FailedAre

InQueue(e) == \E i \in DOMAIN queue : queue[i] = e
InHands(e) == \E s \in Holding : hand[s] = e
InLetters(l) == \E i \in DOMAIN letters : letters[i] = l

LEMMA EnvelopesAndLetters ==
    ASSUME NEW j
    PROVE  /\ \A e : e \in EnvelopesOf(j) <=> e.job = j /\ (InQueue(e) \/ InHands(e))
           /\ \A e : e \in EnvelopesOf(j)' <=> e.job = j /\ (InQueue(e)' \/ InHands(e)')
           /\ \A l : l \in LettersOf(j) <=> l.job = j /\ InLetters(l)
           /\ \A l : l \in LettersOf(j)' <=> l.job = j /\ InLetters(l)'
           /\ FailedAttempts(j) = FailedIn(EnvelopesOf(j), LettersOf(j))
           /\ FailedAttempts(j)' = FailedIn(EnvelopesOf(j)', LettersOf(j)')
<1>1. \A e : e \in EnvelopesOf(j) <=> e.job = j /\ (InQueue(e) \/ InHands(e))
  BY DEF EnvelopesOf, InQueue, InHands
<1>2. \A e : e \in EnvelopesOf(j)' <=> e.job = j /\ (InQueue(e)' \/ InHands(e)')
  BY DEF EnvelopesOf, InQueue, InHands
<1>3. /\ \A l : l \in LettersOf(j) <=> l.job = j /\ InLetters(l)
      /\ \A l : l \in LettersOf(j)' <=> l.job = j /\ InLetters(l)'
  BY DEF LettersOf, InLetters
<1>4. /\ FailedAttempts(j) = FailedIn(EnvelopesOf(j), LettersOf(j))
      /\ FailedAttempts(j)' = FailedIn(EnvelopesOf(j)', LettersOf(j)')
  BY DEF FailedAttempts, FailedIn
<1>5. QED
  BY <1>1, <1>2, <1>3, <1>4

\* Of what steps do to the queue, the hands and the letters, what jobs' envelopes see.
LEMMA PutThere ==
    ASSUME QueueIsTyped, NEW e \in Envelopes, queue' = Append(queue, e)
    PROVE  \A x : InQueue(x)' <=> InQueue(x) \/ x = e
<1>1. /\ DOMAIN queue' = DOMAIN queue \cup {Len(queue) + 1}
      /\ \A i \in DOMAIN queue : queue'[i] = queue[i]
      /\ queue'[Len(queue) + 1] = e
  <2> HIDE DEF Envelopes
  <2>1. queue \in Seq(Envelopes)
    BY DEF QueueIsTyped
  <2>2. QED
    BY <2>1, Appended
<1>2. Len(queue) + 1 \in DOMAIN queue'
  BY <1>1
<1>3. QED
  BY <1>1, <1>2 DEF InQueue

LEMMA TakenThence ==
    ASSUME QueueIsTyped, queue # << >>, queue' = Tail(queue)
    PROVE  \A x : InQueue(x) <=> InQueue(x)' \/ x = Head(queue)
<1>1. /\ Head(queue) = queue[1] /\ 1 \in DOMAIN queue
      /\ \A i \in DOMAIN queue' : i + 1 \in DOMAIN queue /\ queue'[i] = queue[i + 1]
      /\ \A k \in DOMAIN queue : k # 1 => k - 1 \in DOMAIN queue' /\ queue[k] = queue'[k - 1]
  <2>1. queue \in Seq(Envelopes)
    BY DEF QueueIsTyped
  <2>2. QED
    BY <2>1, HeadAndTail
<1>2. ASSUME NEW x, InQueue(x)
      PROVE  InQueue(x)' \/ x = Head(queue)
  BY <1>1, <1>2 DEF InQueue
<1>3. ASSUME NEW x, InQueue(x)' \/ x = Head(queue)
      PROVE  InQueue(x)
  BY <1>1, <1>3 DEF InQueue
<1>4. QED
  BY <1>2, <1>3

LEMMA GivenToHand ==
    ASSUME QueueIsTyped, NEW s \in LocalSlots, hand[s] = NoEnvelope, NEW e \in Envelopes,
           hand' = [hand EXCEPT ![s] = e]
    PROVE  \A x : InHands(x)' <=> InHands(x) \/ x = e
<1>1. hand'[s] = e /\ \A u \in LocalSlots : u # s => hand'[u] = hand[u]
  BY DEF QueueIsTyped
<1>2. Holding' = Holding \cup {s} /\ s \notin Holding
  BY <1>1, EnvelopeIsSomething DEF Holding
<1>3. \A u \in Holding : hand'[u] = hand[u]
  BY <1>1, <1>2 DEF Holding
<1>4. QED
  BY <1>1, <1>2, <1>3 DEF InHands

LEMMA LeftHand ==
    ASSUME QueueIsTyped, NEW s \in Holding, hand' = [hand EXCEPT ![s] = NoEnvelope]
    PROVE  \A x : x # hand[s] => (InHands(x)' <=> InHands(x))
<1>1. hand'[s] = NoEnvelope /\ \A u \in LocalSlots : u # s => hand'[u] = hand[u]
  BY HandType DEF QueueIsTyped
<1>2. Holding' = Holding \ {s}
  BY <1>1 DEF Holding
<1>3. \A u \in Holding' : hand'[u] = hand[u]
  BY <1>1, <1>2 DEF Holding
<1>4. QED
  BY <1>2, <1>3 DEF InHands

LEMMA LetterWritten ==
    ASSUME QueueIsTyped, NEW l \in Letters, letters' = Append(letters, l)
    PROVE  \A x : InLetters(x)' <=> InLetters(x) \/ x = l
<1>1. /\ DOMAIN letters' = DOMAIN letters \cup {Len(letters) + 1}
      /\ \A i \in DOMAIN letters : letters'[i] = letters[i]
      /\ letters'[Len(letters) + 1] = l
  <2> HIDE DEF Letters
  <2>1. letters \in Seq(Letters)
    BY DEF QueueIsTyped
  <2>2. QED
    BY <2>1, Appended
<1>2. Len(letters) + 1 \in DOMAIN letters'
  BY <1>1
<1>3. QED
  BY <1>1, <1>2 DEF InLetters

LEMMA NotThere ==
    ASSUME NEW j
    PROVE  /\ ~Queued(j) /\ ~InHandOf(j) => EnvelopesOf(j) = {}
           /\ ~Queued(j)' /\ ~InHandOf(j)' => EnvelopesOf(j)' = {}
           /\ ~Dead(j) => LettersOf(j) = {}
           /\ ~Dead(j)' => LettersOf(j)' = {}
<1>1. /\ ~Queued(j) /\ ~InHandOf(j) => EnvelopesOf(j) = {}
      /\ ~Queued(j)' /\ ~InHandOf(j)' => EnvelopesOf(j)' = {}
  BY EnvelopesAndLetters DEF InQueue, InHands, Queued, InHandOf
<1>2. /\ ~Dead(j) => LettersOf(j) = {}
      /\ ~Dead(j)' => LettersOf(j)' = {}
  BY EnvelopesAndLetters DEF InLetters, Dead
<1>3. QED
  BY <1>1, <1>2

-------------------------------------------------------------------------------
\* A step leaves a job as it is.
Kept(j) ==
    /\ j \in dropped' <=> j \in dropped
    /\ LocalStage(j)' = LocalStage(j)
    /\ j \notin dropped => EnvelopesOf(j)' = EnvelopesOf(j) /\ LettersOf(j)' = LettersOf(j)

LEMMA KeptIsSame ==
    ASSUME NEW j \in LocalJobs, Kept(j)
    PROVE  /\ StagesThere'[j] = StagesThere[j] /\ FailedThere'[j] = FailedThere[j]
           /\ j \in RefusedThere' <=> j \in RefusedThere
<1>1. StagesThere'[j] = StagesThere[j]
  BY DEF Kept, StagesThere
<1>2. j \notin dropped => FailedAttempts(j)' = FailedAttempts(j)
  BY EnvelopesAndLetters DEF Kept
<1>3. FailedThere'[j] = FailedThere[j]
  BY <1>2 DEF Kept, FailedThere
<1>4. j \in RefusedThere' <=> j \in RefusedThere
  BY DEF Kept, RefusedThere
<1>5. QED
  BY <1>1, <1>3, <1>4

LEMMA AllKept ==
    ASSUME \A j \in LocalJobs : Kept(j)
    PROVE  UNCHANGED <<StagesThere, FailedThere, RefusedThere>>
<1>1. \A j \in LocalJobs : /\ StagesThere'[j] = StagesThere[j]
                           /\ FailedThere'[j] = FailedThere[j]
                           /\ j \in RefusedThere' <=> j \in RefusedThere
  BY KeptIsSame
<1>2. StagesThere' = StagesThere
  BY <1>1 DEF StagesThere
<1>3. FailedThere' = FailedThere
  BY <1>1 DEF FailedThere
<1>4. RefusedThere' = RefusedThere
  BY <1>1 DEF RefusedThere
<1>5. QED
  BY <1>2, <1>3, <1>4

\* A step that changes one job, which is not dropped.
LEMMA OneChanges ==
    ASSUME NEW job \in LocalJobs, \A j \in LocalJobs : j # job => Kept(j),
           job \notin dropped, job \notin dropped'
    PROVE  /\ StagesThere[job] = LocalStage(job) /\ FailedThere[job] = FailedAttempts(job)
           /\ job \in RefusedThere <=> \E l \in LettersOf(job) : l.answer = "REFUSED"
           /\ StagesThere' = [StagesThere EXCEPT ![job] = LocalStage(job)']
           /\ FailedThere' = [FailedThere EXCEPT ![job] = FailedAttempts(job)']
           /\ RefusedThere' = IF \E l \in LettersOf(job)' : l.answer = "REFUSED"
                              THEN RefusedThere \cup {job} ELSE RefusedThere \ {job}
<1>1. \A j \in LocalJobs : j # job => /\ StagesThere'[j] = StagesThere[j]
                                      /\ FailedThere'[j] = FailedThere[j]
                                      /\ j \in RefusedThere' <=> j \in RefusedThere
  BY KeptIsSame
<1>2. StagesThere[job] = LocalStage(job) /\ StagesThere'[job] = LocalStage(job)'
  BY DEF StagesThere
<1>3. FailedThere[job] = FailedAttempts(job) /\ FailedThere'[job] = FailedAttempts(job)'
  BY DEF FailedThere
<1>4. /\ job \in RefusedThere <=> \E l \in LettersOf(job) : l.answer = "REFUSED"
      /\ job \in RefusedThere' <=> \E l \in LettersOf(job)' : l.answer = "REFUSED"
      /\ RefusedThere \subseteq LocalJobs /\ RefusedThere' \subseteq LocalJobs
  BY DEF RefusedThere
<1>5. StagesThere' = [StagesThere EXCEPT ![job] = LocalStage(job)']
  BY <1>1, <1>2 DEF StagesThere
<1>6. FailedThere' = [FailedThere EXCEPT ![job] = FailedAttempts(job)']
  BY <1>1, <1>3 DEF FailedThere
<1>7. RefusedThere' = IF \E l \in LettersOf(job)' : l.answer = "REFUSED"
                     THEN RefusedThere \cup {job} ELSE RefusedThere \ {job}
  BY <1>1, <1>4
<1>8. QED
  BY <1>2, <1>3, <1>4, <1>5, <1>6, <1>7

\* Jobs that the queue owed are dropped.
LEMMA JobsAreLost ==
    ASSUME QueueIsTyped', NEW S \in SUBSET LocalJobs, S \cap dropped = {}, S \subseteq dropped',
           \A j \in LocalJobs \ S : Kept(j), \A j \in S : LocalStage(j) = "owed"
    PROVE  Local!Lose(S)
<1>1. \A j \in LocalJobs \ S : /\ StagesThere'[j] = StagesThere[j]
                               /\ FailedThere'[j] = FailedThere[j]
                               /\ j \in RefusedThere' <=> j \in RefusedThere
  BY KeptIsSame
<1>2. ASSUME NEW j \in S
      PROVE  j \in LocalJobs /\ StagesThere[j] = "owed" /\ StagesThere'[j] = "lost"
  <2>1. j \in LocalJobs /\ j \in dropped' /\ LocalStage(j) = "owed"
    OBVIOUS
  <2>2. LocalStage(j)' = "lost"
    BY <2>1 DEF LocalStage, QueueIsTyped
  <2>3. QED
    BY <2>1, <2>2 DEF StagesThere
<1>3. \A j \in S : FailedThere'[j] = {} /\ j \notin RefusedThere'
  BY DEF FailedThere, RefusedThere
<1>4. RefusedThere \subseteq LocalJobs /\ RefusedThere' \subseteq LocalJobs
  BY DEF RefusedThere
<1>5. StagesThere' = [j \in LocalJobs |-> IF j \in S THEN "lost" ELSE StagesThere[j]]
  BY <1>1, <1>2 DEF StagesThere
<1>6. FailedThere' = [j \in LocalJobs |-> IF j \in S THEN {} ELSE FailedThere[j]]
  BY <1>1, <1>3 DEF FailedThere
<1>7. RefusedThere' = RefusedThere \ S
  <2>1. \A j \in LocalJobs : j \in RefusedThere' <=> j \in RefusedThere /\ j \notin S
    BY <1>1, <1>3
  <2>2. QED
    BY <1>4, <2>1
<1>8. QED
  BY <1>2, <1>5, <1>6, <1>7 DEF Local!Lose, StagesThere, FailedThere, RefusedThere

\* A job that nothing happens to is kept.
LEMMA LeftAloneIsKept ==
    ASSUME NEW j, j \in dropped' <=> j \in dropped,
           j \in DOMAIN tracked' <=> j \in DOMAIN tracked,
           j \in DOMAIN tracked => tracked'[j] = tracked[j],
           EnvelopesOf(j)' = EnvelopesOf(j), LettersOf(j)' = LettersOf(j)
    PROVE  Kept(j)
BY DEF Kept, LocalStage

\* A job that is published is owed, and nothing has failed at it.
LEMMA PublishIsPublish ==
    ASSUME QueueConstants, QueueInv, QueueInv', NEW job \in LocalJobs, PublishLocally(job)
    PROVE  Local!Publish(job)
<1> DEFINE e == [job |-> job, attempt |-> 1]
<1>1. /\ job \notin DOMAIN tracked /\ queue' = Append(queue, e) /\ tracked' = Track(job, "QUEUED")
      /\ UNCHANGED letters /\ UNCHANGED hand /\ UNCHANGED dropped
  BY DEF PublishLocally, Put
<1>2. e \in Envelopes /\ e.job = job /\ e.attempt = 1
  BY DEF Envelopes, QueueConstants
<1> HIDE DEF e
<1>3. QueueIsTyped /\ EnvelopesAreTracked /\ job \notin dropped
  BY <1>1 DEF QueueInv, QueueIsTyped
<1>4. /\ DOMAIN tracked' = DOMAIN tracked \cup {job} /\ tracked'[job] = "QUEUED"
      /\ \A j \in DOMAIN tracked : j # job => tracked'[j] = tracked[j]
  BY <1>1, Tracking
<1>5. \A x : InQueue(x)' <=> InQueue(x) \/ x = e
  BY <1>1, <1>2, <1>3, PutThere
<1>6. /\ \A x : InHands(x)' <=> InHands(x)
      /\ \A x : InLetters(x)' <=> InLetters(x)
  BY <1>1 DEF InHands, InLetters, Holding
<1>7. \A j \in LocalJobs : j # job => Kept(j)
  <2> SUFFICES ASSUME NEW j \in LocalJobs, j # job PROVE Kept(j)
    OBVIOUS
  <2>1. EnvelopesOf(j)' = EnvelopesOf(j) /\ LettersOf(j)' = LettersOf(j)
    BY <1>2, <1>5, <1>6, EnvelopesAndLetters
  <2>2. QED
    BY <1>1, <1>4, <2>1, LeftAloneIsKept
<1>8. EnvelopesOf(job) = {} /\ LettersOf(job) = {}
  BY <1>1, <1>3, TrackedJobs, NotThere
<1>9. EnvelopesOf(job)' = {e} /\ LettersOf(job)' = {}
  BY <1>2, <1>5, <1>6, <1>8, EnvelopesAndLetters
<1>10. FailedAttempts(job) = {} /\ FailedAttempts(job)' = {}
  <2>1. FailedIn({e}, {}) = {}
    BY <1>2, EnvelopeTells
  <2>2. QED
    BY <1>8, <1>9, <2>1, EnvelopesAndLetters, NoneFailed
<1>11. LocalStage(job) = "none" /\ LocalStage(job)' = "owed" /\ job \notin dropped'
  BY <1>1, <1>3, <1>4 DEF LocalStage
<1>12. /\ StagesThere[job] = "none" /\ FailedThere[job] = {} /\ job \notin RefusedThere
       /\ StagesThere' = [StagesThere EXCEPT ![job] = "owed"]
       /\ FailedThere' = [FailedThere EXCEPT ![job] = {}]
       /\ RefusedThere' = RefusedThere \ {job}
  BY <1>3, <1>7, <1>8, <1>9, <1>10, <1>11, OneChanges
<1>13. FailedThere' = FailedThere /\ RefusedThere' = RefusedThere
  BY <1>12 DEF FailedThere
<1>14. QED
  BY <1>12, <1>13 DEF Local!Publish, Local!Goes, StagesThere, FailedThere, RefusedThere

\* A stop loses the jobs in hand, those that were not lost before.
LEMMA StopIsLose ==
    ASSUME QueueConstants, QueueInv, QueueInv', StopConsumer
    PROVE  \E S \in SUBSET LocalJobs : Local!Lose(S)
<1>1. /\ UNCHANGED queue /\ UNCHANGED letters /\ UNCHANGED tracked
      /\ hand' = [s \in LocalSlots |-> NoEnvelope]
      /\ dropped' = dropped \cup {hand[s].job : s \in Holding}
  BY DEF StopConsumer
<1>2. PICK S : \A j : j \in S <=> j \notin dropped /\ InHandOf(j)
  <2>1. \A j : j \in {hand[s].job : s \in Holding} \ dropped <=> j \notin dropped /\ InHandOf(j)
    BY DEF InHandOf
  <2>2. QED
    BY <2>1
<1>3. \A j : j \in dropped' <=> j \in dropped \/ InHandOf(j)
  BY <1>1 DEF InHandOf
<1>4. QueueIsTyped /\ QueueIsTyped' /\ EnvelopesAreTracked
      /\ \A j \in DOMAIN tracked \ dropped : HasPlace(j)
  BY DEF QueueInv
<1>5. ASSUME NEW j \in S
      PROVE  j \in LocalJobs /\ LocalStage(j) = "owed"
  <2>1. j \in DOMAIN tracked \ dropped
    BY <1>2, <1>4, TrackedJobs
  <2>2. tracked[j] = "RUNNING"
    BY <1>2, <1>4, <2>1 DEF HasPlace
  <2>3. QED
    BY <1>4, <2>1, <2>2 DEF LocalStage, QueueIsTyped
<1>6. ASSUME NEW j \in LocalJobs \ S
      PROVE  Kept(j)
  <2>1. CASE j \in dropped
    BY <1>3, <1>4, <2>1 DEF Kept, LocalStage, QueueIsTyped
  <2>2. CASE j \notin dropped
    <3>1. ~InHandOf(j) /\ ~InHandOf(j)'
      BY <1>1, <1>2, <2>2 DEF InHandOf, Holding
    <3>2. EnvelopesOf(j)' = EnvelopesOf(j) /\ LettersOf(j)' = LettersOf(j)
      <4>1. \A x : x.job = j => ~InHands(x) /\ ~InHands(x)'
        BY <3>1 DEF InHandOf, InHands
      <4>2. \A x : (InQueue(x)' <=> InQueue(x)) /\ (InLetters(x)' <=> InLetters(x))
        BY <1>1 DEF InQueue, InLetters
      <4>3. QED
        BY <4>1, <4>2, EnvelopesAndLetters
    <3>3. j \in dropped' <=> j \in dropped
      BY <1>3, <3>1
    <3>4. QED
      BY <1>1, <3>2, <3>3, LeftAloneIsKept
  <2>3. QED
    BY <2>1, <2>2
<1>7. S \in SUBSET LocalJobs /\ S \cap dropped = {} /\ S \subseteq dropped'
  BY <1>2, <1>3, <1>5
<1>8. Local!Lose(S)
  BY <1>4, <1>5, <1>6, <1>7, JobsAreLost
<1>9. QED
  BY <1>7, <1>8

\* What a slot gets stays owed.
LEMMA GetIsNothing ==
    ASSUME QueueConstants, QueueInv, QueueInv', NEW s \in LocalSlots, Get(s)
    PROVE  UNCHANGED <<StagesThere, FailedThere, RefusedThere>>
<1>0. PICK e : e = Head(queue)
  OBVIOUS
<1>1. /\ hand[s] = NoEnvelope /\ queue # << >> /\ hand' = [hand EXCEPT ![s] = e]
      /\ queue' = Tail(queue) /\ tracked' = Track(e.job, "RUNNING")
      /\ UNCHANGED letters /\ UNCHANGED dropped
  BY <1>0 DEF Get
<1>2. QueueIsTyped /\ QueueIsTyped' /\ EnvelopesAreTracked
      /\ \A j \in DOMAIN tracked \ dropped : HasPlace(j)
  BY DEF QueueInv
<1>3. e \in Envelopes /\ Queued(e.job) /\ \A x : InQueue(x) <=> InQueue(x)' \/ x = e
  BY <1>0, <1>1, <1>2, QueueShrinks, TakenThence
<1>4. \A x : InHands(x)' <=> InHands(x) \/ x = e
  BY <1>1, <1>2, <1>3, GivenToHand
<1>5. e.job \in DOMAIN tracked
  BY <1>2, <1>3, TrackedJobs
<1>6. /\ DOMAIN tracked' = DOMAIN tracked /\ tracked'[e.job] = "RUNNING"
      /\ \A j \in DOMAIN tracked : j # e.job => tracked'[j] = tracked[j]
  BY <1>1, <1>5, Tracking
<1>7. ASSUME NEW j \in LocalJobs
      PROVE  Kept(j)
  <2>1. EnvelopesOf(j)' = EnvelopesOf(j) /\ LettersOf(j)' = LettersOf(j)
    <3>1. \A x : InLetters(x)' <=> InLetters(x)
      BY <1>1 DEF InLetters
    <3>2. \A x : InQueue(x)' \/ InHands(x)' <=> InQueue(x) \/ InHands(x)
      BY <1>3, <1>4
    <3>3. \A x : x \in EnvelopesOf(j)' <=> x \in EnvelopesOf(j)
      BY <3>2, EnvelopesAndLetters
    <3>4. \A x : x \in LettersOf(j)' <=> x \in LettersOf(j)
      BY <3>1, EnvelopesAndLetters
    <3>5. QED
      BY <3>3, <3>4
  <2>2. CASE j \in dropped
    BY <1>1, <1>2, <2>2 DEF Kept, LocalStage, QueueIsTyped
  <2>3. CASE j # e.job
    BY <1>1, <1>6, <2>1, <2>3, LeftAloneIsKept
  <2>4. CASE j \notin dropped /\ j = e.job
    <3>1. tracked[j] = "QUEUED" /\ j \in DOMAIN tracked
      BY <1>2, <1>3, <1>5, <2>4 DEF HasPlace
    <3>2. LocalStage(j) = "owed" /\ LocalStage(j)' = "owed"
      BY <1>1, <1>6, <2>4, <3>1 DEF LocalStage
    <3>3. QED
      BY <1>1, <2>1, <3>2 DEF Kept
  <2>5. QED
    BY <2>2, <2>3, <2>4
<1>8. QED
  BY <1>7, AllKept

\* A handler's answer changes its job, if that was not lost before, and no other: the
\* job is answered, lost, tried again, or dead.
LEMMA ProcessIsStep ==
    ASSUME QueueConstants, QueueInv, QueueInv', NEW s \in LocalSlots,
           NEW answer \in LocalAnswers, ProcessEnvelope(s, answer)
    PROVE  Local!Next \/ UNCHANGED <<StagesThere, FailedThere, RefusedThere>>
<1>1. s \in Holding /\ hand' = [hand EXCEPT ![s] = NoEnvelope]
  BY DEF ProcessEnvelope
<1>2. /\ QueueIsTyped /\ QueueIsTyped' /\ EnvelopesAreTracked
      /\ \A j \in DOMAIN tracked \ dropped : HasPlace(j)
  BY DEF QueueInv
<1>3. PICK e \in Envelopes, job \in LocalJobs, attempt \in 1..MaxLocalAttempts :
          e = hand[s] /\ e.job = job /\ e.attempt = attempt
  BY <1>1, <1>2, HandType
<1>4. \/ /\ answer \in {"COMPLETED", "CANCELLED"} /\ tracked' = Track(job, answer)
         /\ UNCHANGED queue /\ UNCHANGED letters /\ UNCHANGED dropped
      \/ /\ dropped' = dropped \cup {job}
         /\ UNCHANGED queue /\ UNCHANGED letters /\ UNCHANGED tracked
      \/ /\ Retriable(answer, attempt) /\ Put(job, attempt + 1)
         /\ UNCHANGED letters /\ UNCHANGED dropped
      \/ /\ answer \in {"FAILED", "REFUSED"} /\ ~Retriable(answer, attempt)
         /\ tracked' = Track(job, "DEAD_LETTERED")
         /\ letters' = Append(letters, [job |-> job, attempt |-> attempt, answer |-> answer])
         /\ UNCHANGED queue /\ UNCHANGED dropped
  BY <1>3 DEF ProcessEnvelope
<1>5. InHandOf(job) /\ job \in DOMAIN tracked
  BY <1>1, <1>2, <1>3, TrackedJobs DEF InHandOf
<1>6. \A x : x # e => (InHands(x)' <=> InHands(x))
  BY <1>1, <1>2, <1>3, LeftHand
\* What is queued or written is of the job in hand.
<1>7. /\ \A x : x.job # job => (InQueue(x)' <=> InQueue(x))
      /\ \A x : x.job # job => (InLetters(x)' <=> InLetters(x))
  <2>1. UNCHANGED queue => \A x : InQueue(x)' <=> InQueue(x)
    BY DEF InQueue
  <2>2. UNCHANGED letters => \A x : InLetters(x)' <=> InLetters(x)
    BY DEF InLetters
  <2>3. ASSUME Retriable(answer, attempt), Put(job, attempt + 1)
        PROVE  \A x : x.job # job => (InQueue(x)' <=> InQueue(x))
    <3>1. PICK f \in Envelopes : f.job = job /\ queue' = Append(queue, f)
      BY <1>3, <2>3 DEF Put, Envelopes, Retriable, QueueConstants
    <3>2. QED
      BY <1>2, <3>1, PutThere
  <2>4. ASSUME letters' = Append(letters, [job |-> job, attempt |-> attempt, answer |-> answer])
        PROVE  \A x : x.job # job => (InLetters(x)' <=> InLetters(x))
    <3>1. PICK l \in Letters : l.job = job /\ letters' = Append(letters, l)
      BY <1>3, <2>4 DEF Letters
    <3>2. QED
      BY <1>2, <3>1, LetterWritten
  <2>5. QED
    BY <1>4, <2>1, <2>2, <2>3, <2>4
<1>8. /\ DOMAIN tracked' = DOMAIN tracked
      /\ \A j \in DOMAIN tracked : j # job => tracked'[j] = tracked[j]
  <2>1. ASSUME NEW status, tracked' = Track(job, status)
        PROVE  /\ DOMAIN tracked' = DOMAIN tracked
               /\ \A j \in DOMAIN tracked : j # job => tracked'[j] = tracked[j]
    BY <1>5, <2>1, Tracking
  <2>2. QED
    BY <1>4, <2>1 DEF Put
<1>9. ASSUME NEW j \in LocalJobs, j # job
      PROVE  Kept(j)
  <2>1. /\ \A x : x \in EnvelopesOf(j)' <=> x \in EnvelopesOf(j)
        /\ \A x : x \in LettersOf(j)' <=> x \in LettersOf(j)
    BY <1>3, <1>6, <1>7, <1>9, EnvelopesAndLetters
  <2>2. EnvelopesOf(j)' = EnvelopesOf(j) /\ LettersOf(j)' = LettersOf(j)
    BY <2>1
  <2>3. j \in dropped' <=> j \in dropped
    BY <1>4, <1>9
  <2>4. QED
    BY <1>8, <1>9, <2>2, <2>3, LeftAloneIsKept
<1>10. CASE job \in dropped
  <2>1. job \in dropped' /\ LocalStage(job) = "lost" /\ LocalStage(job)' = "lost"
    BY <1>2, <1>4, <1>10 DEF LocalStage, QueueIsTyped
  <2>2. Kept(job)
    BY <1>10, <2>1 DEF Kept
  <2>3. QED
    BY <1>9, <2>2, AllKept
<1>11. CASE job \notin dropped
  <2>1. /\ tracked[job] = "RUNNING" /\ ~Queued(job) /\ ~Dead(job) /\ HandledOnce(job)
        /\ LocalStage(job) = "owed"
    BY <1>2, <1>5, <1>11 DEF HasPlace, LocalStage
  <2>2. LettersOf(job) = {} /\ EnvelopesOf(job) = {e}
    <3>1. \A x : x \in EnvelopesOf(job) <=> x = e
      <4>1. \A x : x.job = job => ~InQueue(x) /\ (InHands(x) => x = e)
        BY <1>1, <1>3, <2>1 DEF Queued, InQueue, HandledOnce, InHands
      <4>2. InHands(e)
        BY <1>1, <1>3 DEF InHands
      <4>3. QED
        BY <1>3, <4>1, <4>2, EnvelopesAndLetters
    <3>2. QED
      BY <2>1, <3>1, NotThere
  <2>3. FailedAttempts(job) = 1..attempt - 1
    BY <1>3, <2>2, EnvelopesAndLetters, EnvelopeTells
  <2>4. ~InHandOf(job)'
    BY <1>1, <1>2, <1>3, <2>1, HandEmptied
  <2>5. /\ StagesThere[job] = "owed" /\ FailedThere[job] = 1..attempt - 1
        /\ job \notin RefusedThere
    BY <1>11, <2>1, <2>2, <2>3 DEF StagesThere, FailedThere, RefusedThere
  <2>6. CASE dropped' = dropped \cup {job}
    <3>1. PICK S \in SUBSET LocalJobs : S = {job}
      OBVIOUS
    <3>2. Local!Lose(S)
      BY <1>2, <1>9, <1>11, <2>1, <2>6, <3>1, JobsAreLost
    <3>3. QED
      BY <3>2 DEF Local!Next
  <2>7. ASSUME UNCHANGED dropped
        PROVE  /\ StagesThere' = [StagesThere EXCEPT ![job] = LocalStage(job)']
               /\ FailedThere' = [FailedThere EXCEPT ![job] = FailedAttempts(job)']
               /\ RefusedThere' = IF \E l \in LettersOf(job)' : l.answer = "REFUSED"
                                  THEN RefusedThere \cup {job} ELSE RefusedThere \ {job}
    BY <1>9, <1>11, <2>7, OneChanges
  <2>8. CASE /\ answer \in {"COMPLETED", "CANCELLED"} /\ tracked' = Track(job, answer)
             /\ UNCHANGED queue /\ UNCHANGED letters /\ UNCHANGED dropped
    <3>1. tracked'[job] = answer
      BY <2>8, Tracking
    <3>2. LocalStage(job)' = "answered"
      BY <1>5, <1>8, <1>11, <2>8, <3>1 DEF LocalStage
    <3>3. EnvelopesOf(job)' = {} /\ LettersOf(job)' = {}
      BY <2>1, <2>4, <2>8, NotThere, QueueUnchanged, LettersUnchanged
    <3>4. FailedAttempts(job)' = {}
      BY <3>3, EnvelopesAndLetters, NoneFailed
    <3>5. /\ StagesThere' = [StagesThere EXCEPT ![job] = "answered"]
          /\ FailedThere' = [FailedThere EXCEPT ![job] = {}]
          /\ RefusedThere' = RefusedThere \ {job}
      BY <2>7, <2>8, <3>2, <3>3, <3>4
    <3>6. Local!Close(job)
      BY <2>5, <3>5 DEF Local!Close, Local!Goes, StagesThere, FailedThere, RefusedThere
    <3>7. QED
      BY <3>6 DEF Local!Next
  <2>9. CASE /\ Retriable(answer, attempt) /\ Put(job, attempt + 1)
             /\ UNCHANGED letters /\ UNCHANGED dropped
    <3>1. PICK f \in Envelopes : /\ f.job = job /\ f.attempt = attempt + 1
                                 /\ queue' = Append(queue, f)
      BY <1>3, <2>9 DEF Put, Envelopes, Retriable, QueueConstants
    <3>2. tracked'[job] = "QUEUED"
      BY <2>9, Tracking DEF Put
    <3>3. LocalStage(job)' = "owed"
      BY <1>5, <1>8, <1>11, <2>9, <3>2 DEF LocalStage
    <3>4. \A x : x \in EnvelopesOf(job)' <=> x = f
      <4>1. \A x : InQueue(x)' <=> InQueue(x) \/ x = f
        BY <1>2, <3>1, PutThere
      <4>2. \A x : x.job = job => ~InQueue(x) /\ ~InHands(x)'
        BY <2>1, <2>4 DEF Queued, InQueue, InHandOf, InHands
      <4>3. QED
        BY <3>1, <4>1, <4>2, EnvelopesAndLetters
    <3>5. EnvelopesOf(job)' = {f} /\ LettersOf(job)' = {}
      BY <2>1, <2>9, <3>4, NotThere, LettersUnchanged
    <3>6. FailedAttempts(job)' = (1..attempt - 1) \cup {attempt}
      <4>1. FailedAttempts(job)' = 1..(f.attempt - 1)
        BY <3>5, EnvelopesAndLetters, EnvelopeTells
      <4>2. QED
        BY <1>3, <3>1, <4>1 DEF QueueConstants
    <3>7. /\ StagesThere' = [StagesThere EXCEPT ![job] = "owed"]
          /\ FailedThere' = [FailedThere EXCEPT ![job] = (1..attempt - 1) \cup {attempt}]
          /\ RefusedThere' = RefusedThere \ {job}
      BY <2>7, <2>9, <3>3, <3>5, <3>6
    <3>8. UNCHANGED StagesThere /\ UNCHANGED RefusedThere
      BY <2>5, <3>7 DEF StagesThere
    <3>9. Local!Failing(job)
      <4>1. attempt \in Local!Attempts(job)
        BY <1>3 DEF Local!Attempts
      <4>2. \A m \in [j \in LocalJobs |-> 1][job]..attempt - 1 : m \in FailedThere[job]
        BY <2>5
      <4>3. QED
        BY <2>5, <3>7, <3>8, <4>1, <4>2 DEF Local!Failing, FailedThere, RefusedThere
    <3>10. Local!Fail(job)
      BY <2>5, <3>8, <3>9 DEF Local!Fail, StagesThere
    <3>11. QED
      BY <3>10 DEF Local!Next
  <2>10. CASE /\ answer \in {"FAILED", "REFUSED"} /\ ~Retriable(answer, attempt)
              /\ tracked' = Track(job, "DEAD_LETTERED")
              /\ letters' = Append(letters, [job |-> job, attempt |-> attempt, answer |-> answer])
              /\ UNCHANGED queue /\ UNCHANGED dropped
    <3>1. PICK l \in Letters : /\ l.job = job /\ l.attempt = attempt /\ l.answer = answer
                               /\ letters' = Append(letters, l)
      BY <1>3, <2>10 DEF Letters
    <3>2. tracked'[job] = "DEAD_LETTERED"
      BY <2>10, Tracking
    <3>3. LocalStage(job)' = "dead"
      BY <1>5, <1>8, <1>11, <2>10, <3>2 DEF LocalStage
    <3>4. \A x : x \in LettersOf(job)' <=> x = l
      <4>1. \A x : InLetters(x)' <=> InLetters(x) \/ x = l
        BY <1>2, <3>1, LetterWritten
      <4>2. \A x : x.job = job => ~InLetters(x)
        BY <2>1 DEF Dead, InLetters
      <4>3. QED
        BY <3>1, <4>1, <4>2, EnvelopesAndLetters
    <3>5. EnvelopesOf(job)' = {} /\ LettersOf(job)' = {l}
      BY <2>1, <2>4, <2>10, <3>4, NotThere, QueueUnchanged
    <3>6. FailedAttempts(job)' = (1..attempt - 1) \cup (IF answer = "FAILED" THEN {attempt} ELSE {})
      BY <3>1, <3>5, EnvelopesAndLetters, LetterTells
    <3>7. /\ StagesThere' = [StagesThere EXCEPT ![job] = "dead"]
          /\ FailedThere' = [FailedThere EXCEPT ![job] = FailedAttempts(job)']
          /\ RefusedThere' = IF answer = "REFUSED" THEN RefusedThere \cup {job}
                             ELSE RefusedThere \ {job}
      BY <2>7, <2>10, <3>1, <3>3, <3>5
    <3>8. CASE answer = "REFUSED"
      <4>1. UNCHANGED FailedThere /\ RefusedThere' = RefusedThere \cup {job}
        BY <2>5, <3>6, <3>7, <3>8 DEF FailedThere
      <4>2. Local!Bury(job)
        BY <2>5, <3>7, <4>1
        DEF Local!Bury, Local!Failing, Local!Goes, StagesThere, FailedThere, RefusedThere
      <4>3. QED
        BY <4>2 DEF Local!Next
    <3>9. CASE answer = "FAILED"
      <4>1. attempt = MaxLocalAttempts
        BY <1>3, <2>10, <3>9 DEF Retriable, QueueConstants
      <4>2. (1..attempt - 1) \cup {attempt} = 1..MaxLocalAttempts
        BY <4>1 DEF QueueConstants
      <4>3. /\ FailedThere' = [FailedThere EXCEPT ![job] = (1..attempt - 1) \cup {attempt}]
            /\ UNCHANGED RefusedThere
        BY <2>5, <3>6, <3>7, <3>9
      <4>4. attempt \in Local!Attempts(job)
        BY <1>3 DEF Local!Attempts
      <4>5. \A m \in [j \in LocalJobs |-> 1][job]..attempt - 1 : m \in FailedThere[job]
        BY <2>5
      <4>6. Local!Failing(job)
        BY <2>5, <4>3, <4>4, <4>5 DEF Local!Failing, FailedThere, RefusedThere
      <4>7. FailedThere'[job] = Local!Attempts(job)
        BY <4>2, <4>3 DEF FailedThere, Local!Attempts
      <4>8. Local!Bury(job)
        BY <2>5, <3>7, <4>6, <4>7
        DEF Local!Bury, Local!Goes, StagesThere, FailedThere, RefusedThere
      <4>9. QED
        BY <4>8 DEF Local!Next
    <3>10. QED
      BY <2>10, <3>8, <3>9
  <2>11. QED
    BY <1>4, <2>6, <2>8, <2>9, <2>10
<1>12. QED
  BY <1>10, <1>11

LEMMA NextIsLocalStep ==
    ASSUME QueueConstants, QueueInv, QueueInv', [QueueNext]_queueVars
    PROVE  Local!Next \/ UNCHANGED <<StagesThere, FailedThere, RefusedThere>>
<1>1. ASSUME NEW job \in LocalJobs, PublishLocally(job)
      PROVE  Local!Next
  BY <1>1, PublishIsPublish DEF Local!Next
<1>2. CASE StopConsumer
  BY <1>2, StopIsLose DEF Local!Next
<1>3. ASSUME NEW s \in LocalSlots, Get(s)
      PROVE  UNCHANGED <<StagesThere, FailedThere, RefusedThere>>
  BY <1>3, GetIsNothing
<1>4. ASSUME NEW s \in LocalSlots, NEW answer \in LocalAnswers, ProcessEnvelope(s, answer)
      PROVE  Local!Next \/ UNCHANGED <<StagesThere, FailedThere, RefusedThere>>
  BY <1>4, ProcessIsStep
<1>5. CASE UNCHANGED <<queue, tracked, letters, hand, dropped>>
  <2>1. \A j \in LocalJobs : EnvelopesOf(j)' = EnvelopesOf(j) /\ LettersOf(j)' = LettersOf(j)
    BY <1>5 DEF EnvelopesOf, LettersOf, Holding
  <2>2. \A j \in LocalJobs : Kept(j)
    BY <1>5, <2>1, LeftAloneIsKept
  <2>3. QED
    BY <2>2, AllKept
<1>6. StartConsumer \/ UNCHANGED queueVars => UNCHANGED <<queue, tracked, letters, hand, dropped>>
  BY DEF StartConsumer, queueVars
<1>7. QED
  BY <1>1, <1>2, <1>3, <1>4, <1>5, <1>6 DEF QueueNext

LEMMA InitIsLocalInit == QueueConstants /\ QueueInit => Local!Init
<1> SUFFICES ASSUME QueueConstants, QueueInit PROVE Local!Init
  OBVIOUS
<1>1. QueueInv /\ dropped = {} /\ DOMAIN tracked = {}
  <2>1. tracked = << >> /\ dropped = {}
    BY DEF QueueInit
  <2>2. DOMAIN tracked = {}
    BY <2>1
  <2>3. QED
    BY <2>1, <2>2, InitQueueInv
<1>2. \A j : ~Queued(j) /\ ~InHandOf(j) /\ ~Dead(j)
  BY <1>1, TrackedJobs DEF QueueInv
<1>3. ASSUME NEW j \in LocalJobs
      PROVE  /\ EnvelopesOf(j) = {} /\ LettersOf(j) = {} /\ FailedAttempts(j) = {}
             /\ LocalStage(j) = "none"
  <2>1. EnvelopesOf(j) = {} /\ LettersOf(j) = {}
    BY <1>2, NotThere
  <2>2. FailedAttempts(j) = {}
    BY <2>1, EnvelopesAndLetters, NoneFailed
  <2>3. LocalStage(j) = "none"
    BY <1>1 DEF LocalStage
  <2>4. QED
    BY <2>1, <2>2, <2>3
<1>4. QED
  BY <1>1, <1>3 DEF Local!Init

\* The queue in memory (jobs/in_memory.py) is a job queue that loses no job but those
\* that a handler hands back QUEUED and those in hand at a stop: any other is followed
\* from its publication through its attempts, in their order, to its answer or its letter.
THEOREM LocalQueueIsJobQueue == QueueConstants => (QueueSpec => LocalQueueSpec)
<1>1. SUFFICES ASSUME QueueConstants PROVE QueueSpec => LocalQueueSpec
  OBVIOUS
<1>2. QueueInit => QueueInv /\ Local!Init
  BY <1>1, InitQueueInv, InitIsLocalInit
<1>3. QueueInv /\ [QueueNext]_queueVars => QueueInv'
  BY <1>1, StepQueueInv
<1>4. QueueInv /\ QueueInv' /\ [QueueNext]_queueVars
          => [Local!Next]_<<StagesThere, FailedThere, RefusedThere, ReachedThere>>
  BY <1>1, NextIsLocalStep DEF ReachedThere
<1>5. QED
  BY <1>2, <1>3, <1>4, PTL
  DEF QueueSpec, LocalQueueSpec, Local!Spec, StagesThere, FailedThere, RefusedThere, ReachedThere
===============================================================================
