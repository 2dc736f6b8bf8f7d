--------------------------- MODULE RepliesProofs ----------------------------
(***************************************************************************)
(* What comes back from the mail provider, for any number of mails, of     *)
(* addresses, of deliveries of an event, and of crashes.                   *)
(***************************************************************************)
EXTENDS Replies, FiniteSetTheorems, SequenceTheorems, TLAPS

-----------------------------------------------------------------------------
(* The awaits of a webhook job *)

Places == {"start", "event", "status", "list", "mark", "dispatch", "processed"}

\* The places a run passes through, and what comes after each of them.
Planned(e, found) ==
    {"processed"}
      \cup (IF found THEN {"event"} ELSE {})
      \cup (IF found /\ StatusOf(e.kind) # "none" THEN {"status"} ELSE {})
      \cup (IF Suppresses(e.kind) THEN {"list", "mark"} ELSE {})
      \cup (IF e.kind = "reply" THEN {"dispatch"} ELSE {})

LEMMA Join11 ==
    ASSUME NEW a, NEW b
    PROVE  <<a>> \o <<b>> = <<a, b>>
<1> DEFINE S == {a, b}
           s == <<a>> \o <<b>>
<1>1. <<a>> \in Seq(S) /\ <<b>> \in Seq(S)
  OBVIOUS
<1>2. s \in Seq(S) /\ Len(s) = 2
      /\ s[1] = a /\ s[2] = b
  BY <1>1, ConcatProperties
<1> HIDE DEF S, s
<1>3. s = <<a, b>>
  BY <1>2
<1> QED
  BY <1>3 DEF s

LEMMA Join21 ==
    ASSUME NEW a, NEW b, NEW c
    PROVE  <<a, b>> \o <<c>> = <<a, b, c>>
<1> DEFINE S == {a, b, c}
           s == <<a, b>> \o <<c>>
<1>1. <<a, b>> \in Seq(S) /\ <<c>> \in Seq(S)
  OBVIOUS
<1>2. s \in Seq(S) /\ Len(s) = 3
      /\ s[1] = a /\ s[2] = b /\ s[3] = c
  BY <1>1, ConcatProperties
<1> HIDE DEF S, s
<1>3. s = <<a, b, c>>
  BY <1>2
<1> QED
  BY <1>3 DEF s

LEMMA Join22 ==
    ASSUME NEW a, NEW b, NEW c, NEW d
    PROVE  <<a, b>> \o <<c, d>> = <<a, b, c, d>>
<1> DEFINE S == {a, b, c, d}
           s == <<a, b>> \o <<c, d>>
<1>1. <<a, b>> \in Seq(S) /\ <<c, d>> \in Seq(S)
  OBVIOUS
<1>2. s \in Seq(S) /\ Len(s) = 4
      /\ s[1] = a /\ s[2] = b /\ s[3] = c /\ s[4] = d
  BY <1>1, ConcatProperties
<1> HIDE DEF S, s
<1>3. s = <<a, b, c, d>>
  BY <1>2
<1> QED
  BY <1>3 DEF s

LEMMA Join31 ==
    ASSUME NEW a, NEW b, NEW c, NEW d
    PROVE  <<a, b, c>> \o <<d>> = <<a, b, c, d>>
<1> DEFINE S == {a, b, c, d}
           s == <<a, b, c>> \o <<d>>
<1>1. <<a, b, c>> \in Seq(S) /\ <<d>> \in Seq(S)
  OBVIOUS
<1>2. s \in Seq(S) /\ Len(s) = 4
      /\ s[1] = a /\ s[2] = b /\ s[3] = c /\ s[4] = d
  BY <1>1, ConcatProperties
<1> HIDE DEF S, s
<1>3. s = <<a, b, c, d>>
  BY <1>2
<1> QED
  BY <1>3 DEF s

LEMMA Join41 ==
    ASSUME NEW a, NEW b, NEW c, NEW d, NEW e
    PROVE  <<a, b, c, d>> \o <<e>> = <<a, b, c, d, e>>
<1> DEFINE S == {a, b, c, d, e}
           s == <<a, b, c, d>> \o <<e>>
<1>1. <<a, b, c, d>> \in Seq(S) /\ <<e>> \in Seq(S)
  OBVIOUS
<1>2. s \in Seq(S) /\ Len(s) = 5
      /\ s[1] = a /\ s[2] = b /\ s[3] = c /\ s[4] = d /\ s[5] = e
  BY <1>1, ConcatProperties
<1> HIDE DEF S, s
<1>3. s = <<a, b, c, d, e>>
  BY <1>2
<1> QED
  BY <1>3 DEF s

\* The plan of a run, kind by kind.
LEMMA PlanIs ==
    ASSUME NEW e, NEW found \in BOOLEAN
    PROVE  HookPlan(e, found) =
             IF e.kind \in {"bounced", "complained"}
             THEN IF found THEN <<"event", "status", "list", "mark", "processed">>
                  ELSE <<"list", "mark", "processed">>
             ELSE IF e.kind = "reply"
             THEN IF found THEN <<"event", "status", "dispatch", "processed">>
                  ELSE <<"dispatch", "processed">>
             ELSE IF e.kind = "delivered"
             THEN IF found THEN <<"event", "status", "processed">> ELSE <<"processed">>
             ELSE IF found THEN <<"event", "processed">> ELSE <<"processed">>
<1> DEFINE A == IF ~found THEN <<>>
                ELSE <<"event">> \o (IF StatusOf(e.kind) = "none" THEN <<>> ELSE <<"status">>)
           B == IF Suppresses(e.kind) THEN <<"list", "mark">> ELSE <<>>
           C == IF e.kind = "reply" THEN <<"dispatch">> ELSE <<>>
<1>1. HookPlan(e, found) = ((A \o B) \o C) \o <<"processed">>
  BY DEF HookPlan
<1>2. A = IF ~found THEN <<>>
          ELSE IF e.kind \in {"delivered", "bounced", "complained", "reply"}
          THEN <<"event", "status">> ELSE <<"event">>
  <2>1. <<"event">> \o <<"status">> = <<"event", "status">>
    BY Join11
  <2>2. <<"event">> \o <<>> = <<"event">>
    OBVIOUS
  <2> QED
    BY <2>1, <2>2 DEF StatusOf
<1>3. B = IF e.kind \in {"bounced", "complained"} THEN <<"list", "mark">> ELSE <<>>
  BY DEF Suppresses
<1> HIDE DEF A, B
<1>4. A \o B = IF e.kind \in {"bounced", "complained"}
              THEN IF found THEN <<"event", "status", "list", "mark">> ELSE <<"list", "mark">>
              ELSE A
  <2>1. <<"event", "status">> \o <<"list", "mark">> = <<"event", "status", "list", "mark">>
    BY Join22
  <2>2. <<>> \o <<"list", "mark">> = <<"list", "mark">>
    OBVIOUS
  <2>3. <<>> \o <<>> = <<>> /\ <<"event">> \o <<>> = <<"event">>
        /\ <<"event", "status">> \o <<>> = <<"event", "status">>
    OBVIOUS
  <2> QED
    BY <1>2, <1>3, <2>1, <2>2, <2>3
<1>5. (A \o B) \o C = IF e.kind = "reply"
                     THEN IF found THEN <<"event", "status", "dispatch">> ELSE <<"dispatch">>
                     ELSE A \o B
  <2>1. <<"event", "status">> \o <<"dispatch">> = <<"event", "status", "dispatch">>
    BY Join21
  <2>2. <<>> \o <<"dispatch">> = <<"dispatch">>
    OBVIOUS
  <2>3. A \o B \in Seq(Places)
    <3>1. A \in Seq(Places)
      <4>1. <<>> \in Seq(Places) /\ <<"event">> \in Seq(Places)
            /\ <<"event", "status">> \in Seq(Places)
        BY DEF Places
      <4> QED
        BY <1>2, <4>1
    <3>2. <<"event", "status", "list", "mark">> \in Seq(Places)
          /\ <<"list", "mark">> \in Seq(Places)
      BY DEF Places
    <3> QED
      BY <1>4, <3>1, <3>2
  <2>4. (A \o B) \o <<>> = A \o B
    BY <2>3, ConcatEmptySeq
  <2> QED
    BY <1>2, <1>4, <2>1, <2>2, <2>4
<1>6. <<"event", "status", "list", "mark">> \o <<"processed">>
        = <<"event", "status", "list", "mark", "processed">>
  BY Join41
<1>7. <<"event", "status", "dispatch">> \o <<"processed">>
        = <<"event", "status", "dispatch", "processed">>
  BY Join31
<1>8. /\ <<"event", "status">> \o <<"processed">> = <<"event", "status", "processed">>
      /\ <<"list", "mark">> \o <<"processed">> = <<"list", "mark", "processed">>
  BY Join21
<1>9. /\ <<"event">> \o <<"processed">> = <<"event", "processed">>
      /\ <<"dispatch">> \o <<"processed">> = <<"dispatch", "processed">>
  BY Join11
<1>10. <<>> \o <<"processed">> = <<"processed">>
  OBVIOUS
<1> HIDE DEF C
<1> QED
  BY <1>1, <1>2, <1>4, <1>5, <1>6, <1>7, <1>8, <1>9, <1>10

\* What follows a place of the plan.
PlaceAfter(e, at) ==
    IF at = "event" /\ StatusOf(e.kind) # "none" THEN "status"
    ELSE IF at = "status" /\ Suppresses(e.kind) THEN "list"
    ELSE IF at = "status" /\ e.kind = "reply" THEN "dispatch"
    ELSE IF at = "list" THEN "mark"
    ELSE "processed"

LEMMA PlanGoesOn ==
    ASSUME NEW e, NEW found \in BOOLEAN, NEW at \in Planned(e, found)
    PROVE  /\ \A i \in 1 .. Len(HookPlan(e, found)) :
                 i > 1 /\ HookPlan(e, found)[i - 1] = at => HookPlan(e, found)[i] = PlaceAfter(e, at)
           /\ at # "processed" =>
                 \E i \in 1 .. Len(HookPlan(e, found)) : i > 1 /\ HookPlan(e, found)[i - 1] = at
           /\ HookPlan(e, found)[1] \in Planned(e, found)
           /\ HookPlan(e, found)[1] = "mark" => FALSE
           /\ HookPlan(e, found)[1] = "processed" => ~Suppresses(e.kind) /\ e.kind # "reply"
<1> DEFINE plan == HookPlan(e, found)
<1> USE DEF PlaceAfter, Planned, StatusOf, Suppresses
<1>1. CASE e.kind \in {"bounced", "complained"} /\ found
  <2>1. plan = <<"event", "status", "list", "mark", "processed">>
    BY <1>1, PlanIs
  <2>2. Len(plan) = 5 /\ plan[1] = "event" /\ plan[2] = "status" /\ plan[3] = "list" /\ plan[4] = "mark" /\ plan[5] = "processed"
    BY <2>1
  <2> HIDE DEF plan
  <2>3. \A i \in 1 .. Len(plan) : i > 1 /\ plan[i - 1] = at => plan[i] = PlaceAfter(e, at)
    BY <1>1, <2>2
  <2>4. at # "processed" => \E i \in 1 .. Len(plan) : i > 1 /\ plan[i - 1] = at
    <3>1. \A i \in 2 .. 5 : i \in 1 .. Len(plan) /\ i > 1
      BY <2>2
    <3> QED
      BY <1>1, <2>2, <3>1
  <2> QED
    BY <1>1, <2>2, <2>3, <2>4 DEF plan
<1>2. CASE e.kind \in {"bounced", "complained"} /\ ~found
  <2>1. plan = <<"list", "mark", "processed">>
    BY <1>2, PlanIs
  <2>2. Len(plan) = 3 /\ plan[1] = "list" /\ plan[2] = "mark" /\ plan[3] = "processed"
    BY <2>1
  <2> HIDE DEF plan
  <2>3. \A i \in 1 .. Len(plan) : i > 1 /\ plan[i - 1] = at => plan[i] = PlaceAfter(e, at)
    BY <1>2, <2>2
  <2>4. at # "processed" => \E i \in 1 .. Len(plan) : i > 1 /\ plan[i - 1] = at
    <3>1. \A i \in 2 .. 3 : i \in 1 .. Len(plan) /\ i > 1
      BY <2>2
    <3> QED
      BY <1>2, <2>2, <3>1
  <2> QED
    BY <1>2, <2>2, <2>3, <2>4 DEF plan
<1>3. CASE e.kind = "reply" /\ found
  <2>1. plan = <<"event", "status", "dispatch", "processed">>
    BY <1>3, PlanIs
  <2>2. Len(plan) = 4 /\ plan[1] = "event" /\ plan[2] = "status" /\ plan[3] = "dispatch" /\ plan[4] = "processed"
    BY <2>1
  <2> HIDE DEF plan
  <2>3. \A i \in 1 .. Len(plan) : i > 1 /\ plan[i - 1] = at => plan[i] = PlaceAfter(e, at)
    BY <1>3, <2>2
  <2>4. at # "processed" => \E i \in 1 .. Len(plan) : i > 1 /\ plan[i - 1] = at
    <3>1. \A i \in 2 .. 4 : i \in 1 .. Len(plan) /\ i > 1
      BY <2>2
    <3> QED
      BY <1>3, <2>2, <3>1
  <2> QED
    BY <1>3, <2>2, <2>3, <2>4 DEF plan
<1>4. CASE e.kind = "reply" /\ ~found
  <2>1. plan = <<"dispatch", "processed">>
    BY <1>4, PlanIs
  <2>2. Len(plan) = 2 /\ plan[1] = "dispatch" /\ plan[2] = "processed"
    BY <2>1
  <2> HIDE DEF plan
  <2>3. \A i \in 1 .. Len(plan) : i > 1 /\ plan[i - 1] = at => plan[i] = PlaceAfter(e, at)
    BY <1>4, <2>2
  <2>4. at # "processed" => \E i \in 1 .. Len(plan) : i > 1 /\ plan[i - 1] = at
    <3>1. \A i \in 2 .. 2 : i \in 1 .. Len(plan) /\ i > 1
      BY <2>2
    <3> QED
      BY <1>4, <2>2, <3>1
  <2> QED
    BY <1>4, <2>2, <2>3, <2>4 DEF plan
<1>5. CASE e.kind = "delivered" /\ found
  <2>1. plan = <<"event", "status", "processed">>
    BY <1>5, PlanIs
  <2>2. Len(plan) = 3 /\ plan[1] = "event" /\ plan[2] = "status" /\ plan[3] = "processed"
    BY <2>1
  <2> HIDE DEF plan
  <2>3. \A i \in 1 .. Len(plan) : i > 1 /\ plan[i - 1] = at => plan[i] = PlaceAfter(e, at)
    BY <1>5, <2>2
  <2>4. at # "processed" => \E i \in 1 .. Len(plan) : i > 1 /\ plan[i - 1] = at
    <3>1. \A i \in 2 .. 3 : i \in 1 .. Len(plan) /\ i > 1
      BY <2>2
    <3> QED
      BY <1>5, <2>2, <3>1
  <2> QED
    BY <1>5, <2>2, <2>3, <2>4 DEF plan
<1>6. CASE e.kind \notin {"bounced", "complained", "reply", "delivered"} /\ found
  <2>1. plan = <<"event", "processed">>
    BY <1>6, PlanIs
  <2>2. Len(plan) = 2 /\ plan[1] = "event" /\ plan[2] = "processed"
    BY <2>1
  <2> HIDE DEF plan
  <2>3. \A i \in 1 .. Len(plan) : i > 1 /\ plan[i - 1] = at => plan[i] = PlaceAfter(e, at)
    BY <1>6, <2>2
  <2>4. at # "processed" => \E i \in 1 .. Len(plan) : i > 1 /\ plan[i - 1] = at
    <3>1. \A i \in 2 .. 2 : i \in 1 .. Len(plan) /\ i > 1
      BY <2>2
    <3> QED
      BY <1>6, <2>2, <3>1
  <2> QED
    BY <1>6, <2>2, <2>3, <2>4 DEF plan
<1>7. CASE e.kind \notin {"bounced", "complained", "reply"} /\ ~found
  <2>1. plan = <<"processed">>
    BY <1>7, PlanIs
  <2>2. Len(plan) = 1 /\ plan[1] = "processed"
    BY <2>1
  <2> HIDE DEF plan
  <2>3. \A i \in 1 .. Len(plan) : i > 1 /\ plan[i - 1] = at => plan[i] = PlaceAfter(e, at)
    BY <1>7, <2>2
  <2>4. at # "processed" => \E i \in 1 .. Len(plan) : i > 1 /\ plan[i - 1] = at
    <3>1. \A i \in 2 .. 1 : i \in 1 .. Len(plan) /\ i > 1
      BY <2>2
    <3> QED
      BY <1>7, <2>2, <3>1
  <2> QED
    BY <1>7, <2>2, <2>3, <2>4 DEF plan
<1> QED
  BY <1>1, <1>2, <1>3, <1>4, <1>5, <1>6, <1>7

LEMMA AdvanceMoves ==
    ASSUME NEW e \in Events, hookJob[e].found \in BOOLEAN,
           hookJob[e].at \in Planned(e, hookJob[e].found), hookJob[e].at # "processed",
           HookAdvance(e)
    PROVE  hookJob' = [hookJob EXCEPT ![e].at = PlaceAfter(e, hookJob[e].at)]
<1> DEFINE plan == HookPlan(e, hookJob[e].found)
           next == CHOOSE i \in 1 .. Len(plan) : i > 1 /\ plan[i - 1] = hookJob[e].at
<1>1. \E i \in 1 .. Len(plan) : i > 1 /\ plan[i - 1] = hookJob[e].at
  BY PlanGoesOn
<1>2. next \in 1 .. Len(plan) /\ next > 1 /\ plan[next - 1] = hookJob[e].at
  BY <1>1
<1>3. plan[next] = PlaceAfter(e, hookJob[e].at)
  BY <1>2, PlanGoesOn
<1> QED
  BY <1>3 DEF HookAdvance

-----------------------------------------------------------------------------
(* Rows, jobs and requests have the shape their steps read *)

Row == [crm : Stages \cup {"none"}, valid : {"VALID", "SUPPRESSED", "none"}]
MailRow ==
    [status : {"none", "APPROVED", "SENT", "FAILED", "DELIVERED", "BOUNCED", "COMPLAINED",
               "REPLIED"},
     recorded : BOOLEAN, to : Addresses \cup {NoAddress},
     send : {"idle", "waiting", "record", "attribute", "ended"}, stalls : Nat]
HookRun ==
    [state : {"absent", "waiting", "active", "failed"}, at : Places, found : BOOLEAN,
     class : {"none"}, stalls : Nat]
InboundRun ==
    [state : {"absent", "waiting", "active", "failed", "completed"},
     at : {"start", "newLead", "talk", "newTalk", "classify", "list", "mark", "draft"},
     found : BOOLEAN, class : ReplyClasses \cup {"none"}, stalls : Nat]

RepliesShape ==
    /\ prospect \in [Addresses -> Row]
    /\ mail \in [Mails -> MailRow]
    /\ blocked \subseteq Addresses
    /\ \A t \in talks : t[1] \in Addresses
    /\ hooks \subseteq [event : Events, no : Nat, at : {"store", "enqueue"}]
    /\ stored \subseteq Events
    /\ processed \subseteq Events
    /\ hookJob \in [Events -> HookRun]
    /\ \A e \in Events : hookJob[e].state = "active" =>
                            hookJob[e].at \in Planned(e, hookJob[e].found)
    /\ inboundJob \in [InboundIds -> InboundRun]
    /\ replies \subseteq [mail : ReplyMails, to : Addresses, stage : {"none", "INTERESTED"},
                          at : {"create", "enqueue"}]
    /\ eventRows \in [Events -> Nat]
    /\ deliveries \in Nat

LEMMA EventFields ==
    ASSUME NEW e \in Events
    PROVE  e.mail \in Mails /\ e.about \in Addresses
BY DEF Events

LEMMA InboundFields ==
    ASSUME NEW i \in InboundIds
    PROVE  /\ i[1] \in Events /\ i[1].kind = "reply"
           /\ i[2] \in 1 .. MaxStalls + 1 /\ i = <<i[1], i[2]>>
           /\ Sender(i) \in Addresses
BY EventFields DEF InboundIds, Sender

LEMMA ShapeStarts == RepliesInit => RepliesShape
<1> SUFFICES ASSUME RepliesInit PROVE RepliesShape
  OBVIOUS
<1>1. prospect \in [Addresses -> Row]
  BY DEF RepliesInit, Row, NoRow, Stages
<1>2. mail \in [Mails -> MailRow]
  <2>1. mail \in [Mails -> [status : {"none", "APPROVED"}, recorded : {FALSE},
                           to : Prospects \cup {NoAddress}, send : {"idle", "waiting"},
                           stalls : {0}]]
    BY DEF RepliesInit
  <2>2. ASSUME NEW m \in Mails
        PROVE  mail[m] \in MailRow
    <3>1. mail[m] \in [status : {"none", "APPROVED"}, recorded : {FALSE},
                       to : Prospects \cup {NoAddress}, send : {"idle", "waiting"},
                       stalls : {0}]
      BY <2>1
    <3>2. mail[m].to \in Addresses \cup {NoAddress}
      BY <3>1 DEF Addresses
    <3>3. mail[m].stalls \in Nat
      <4>1. mail[m].stalls = 0
        BY <3>1
      <4> QED
        BY <4>1
    <3>4. mail[m].recorded \in BOOLEAN
      <4>1. mail[m].recorded \in {FALSE}
        BY <3>1
      <4> QED
        BY <4>1
    <3>5. mail[m] = [status |-> mail[m].status, recorded |-> mail[m].recorded, to |-> mail[m].to,
                     send |-> mail[m].send, stalls |-> mail[m].stalls]
      BY <3>1
    <3>6. /\ mail[m].status \in {"none", "APPROVED"}
          /\ mail[m].send \in {"idle", "waiting"}
      BY <3>1
    <3> QED
      BY <3>2, <3>3, <3>4, <3>5, <3>6 DEF MailRow
  <2> QED
    BY <2>1, <2>2
<1> QED
  BY <1>1, <1>2 DEF RepliesInit, RepliesShape, NoRun, HookRun, InboundRun, Places

\* A run of a webhook job that takes its next place keeps its plan.
LEMMA AdvanceKeepsShape ==
    ASSUME RepliesShape, NEW e \in Events, hookJob[e].state = "active",
           hookJob[e].at # "processed", HookAdvance(e)
    PROVE  /\ hookJob' = [hookJob EXCEPT ![e].at = PlaceAfter(e, hookJob[e].at)]
           /\ hookJob' \in [Events -> HookRun]
           /\ \A d \in Events : hookJob'[d].state = "active" =>
                                    hookJob'[d].at \in Planned(d, hookJob'[d].found)
<1>1. hookJob[e].found \in BOOLEAN /\ hookJob[e].at \in Planned(e, hookJob[e].found)
  BY DEF RepliesShape, HookRun
<1>2. hookJob' = [hookJob EXCEPT ![e].at = PlaceAfter(e, hookJob[e].at)]
  BY <1>1, AdvanceMoves
<1>3. hookJob' \in [Events -> HookRun]
  BY <1>2 DEF RepliesShape, HookRun, PlaceAfter, Places
<1>4. PlaceAfter(e, hookJob[e].at) \in Planned(e, hookJob[e].found)
  BY <1>1 DEF PlaceAfter, Planned, Suppresses, StatusOf
<1> QED
  BY <1>2, <1>3, <1>4 DEF RepliesShape, HookRun

LEMMA SendKeepsShape ==
    ASSUME RepliesShape, NEW m \in Mails, RepliesSendStep(m)
    PROVE  RepliesShape'
<1> USE DEF RepliesShape, NoSendChange
<1>1. CASE CheckAndHand(m)
  <2>1. mail' \in [Mails -> MailRow]
    BY <1>1 DEF CheckAndHand, MailRow
  <2> QED
    BY <1>1, <2>1 DEF CheckAndHand
<1>2. CASE CommitSent(m)
  <2>1. mail' \in [Mails -> MailRow]
    <3>1. mail[m] \in MailRow
      OBVIOUS
    <3>2. [mail[m] EXCEPT !.status = "SENT", !.recorded = TRUE, !.send = "attribute"] \in MailRow
      BY <3>1 DEF MailRow
    <3>3. mail' = [mail EXCEPT ![m] = [mail[m] EXCEPT !.status = "SENT", !.recorded = TRUE, !.send = "attribute"]]
      BY <1>2 DEF CommitSent
    <3> QED
      BY <3>2, <3>3
  <2> QED
    BY <1>2, <2>1 DEF CommitSent
<1>3. CASE AttributeMail(m)
  <2>1. mail' \in [Mails -> MailRow]
    BY <1>3 DEF AttributeMail, MailRow
  <2>2. prospect' \in [Addresses -> Row]
    BY <1>3 DEF AttributeMail, Row, Stages
  <2> QED
    BY <1>3, <2>1, <2>2 DEF AttributeMail
<1> QED
  BY <1>1, <1>2, <1>3 DEF RepliesSendStep

LEMMA HookJobKeepsShape ==
    ASSUME RepliesShape, NEW e \in Events, HookJobStep(e)
    PROVE  RepliesShape'
<1> USE DEF RepliesShape, NoProcessorChange, SendVars
<1>1. CASE LookUp(e)
  <2> DEFINE found == mail[e.mail].recorded
  <2>1. found \in BOOLEAN
    BY EventFields DEF MailRow
  <2>2. HookPlan(e, found)[1] \in Planned(e, found)
    BY <2>1, PlanGoesOn DEF Planned
  <2>3. hookJob' = [hookJob EXCEPT ![e].state = "active", ![e].found = found,
                                   ![e].at = HookPlan(e, found)[1]]
    BY <1>1 DEF LookUp
  <2> HIDE DEF found
  <2>4. hookJob' \in [Events -> HookRun]
    <3>1. HookPlan(e, found)[1] \in Places
      BY <2>2 DEF Planned, Places
    <3>2. [hookJob[e] EXCEPT !.state = "active", !.found = found, !.at = HookPlan(e, found)[1]]
            \in HookRun
      <4> DEFINE next == HookPlan(e, found)[1]
      <4>1. next \in Places /\ hookJob[e] \in HookRun
        BY <2>1, <3>1
      <4> HIDE DEF next
      <4>2. \A r \in HookRun :
               [r EXCEPT !.state = "active", !.found = found, !.at = next] \in HookRun
        BY <2>1, <4>1 DEF HookRun
      <4>3. [hookJob[e] EXCEPT !.state = "active", !.found = found, !.at = next] \in HookRun
        BY <4>1, <4>2
      <4> QED
        BY <4>3 DEF next
    <3> QED
      BY <2>3, <3>2
  <2>5. \A d \in Events : hookJob'[d].state = "active" =>
                             hookJob'[d].at \in Planned(d, hookJob'[d].found)
    BY <2>2, <2>3 DEF HookRun
  <2> QED
    BY <1>1, <2>4, <2>5 DEF LookUp
<1>2. CASE RecordEvent(e)
  BY <1>2, AdvanceKeepsShape DEF RecordEvent, HookAt
<1>3. CASE SetOutcome(e)
  <2>1. mail' \in [Mails -> MailRow]
    BY <1>3, EventFields DEF SetOutcome, MailRow, StatusOf
  <2> QED
    BY <1>3, <2>1, AdvanceKeepsShape DEF SetOutcome, HookAt
<1>4. CASE BlockAddress(e)
  BY <1>4, EventFields, AdvanceKeepsShape DEF BlockAddress, HookAt
<1>5. CASE BlockProspect(e)
  <2>1. prospect' \in [Addresses -> Row]
    BY <1>5 DEF BlockProspect, Row, BlockedRow, NoRow, Stages
  <2> QED
    BY <1>5, <2>1, AdvanceKeepsShape DEF BlockProspect, HookAt
<1>6. CASE DispatchReply(e)
  <2>1. inboundJob' \in [InboundIds -> InboundRun]
    <3>1. \A i \in InboundIds : [inboundJob[i] EXCEPT !.state = "waiting"] \in InboundRun
      BY DEF InboundRun
    <3>2. PICK n : inboundJob' = [inboundJob EXCEPT ![<<e, n>>].state = "waiting"]
      BY <1>6 DEF DispatchReply
    <3> QED
      BY <3>1, <3>2
  <2> QED
    BY <1>6, <2>1, AdvanceKeepsShape DEF DispatchReply, HookAt
<1>7. CASE MarkProcessed(e)
  BY <1>7 DEF MarkProcessed, HookRun, NoRun, Places
<1> QED
  BY <1>1, <1>2, <1>3, <1>4, <1>5, <1>6, <1>7 DEF HookJobStep

LEMMA InboundKeepsShape ==
    ASSUME RepliesShape, NEW i \in InboundIds, InboundStep(i)
    PROVE  RepliesShape'
<1> USE DEF RepliesShape, NoInboundChange
<1>1. inboundJob' \in [InboundIds -> InboundRun]
  <2>1. \A at \in {"newLead", "talk", "newTalk", "classify", "list", "mark", "draft"} :
          InboundGoto(i, at) => inboundJob' \in [InboundIds -> InboundRun]
    <3> SUFFICES ASSUME NEW at \in {"newLead", "talk", "newTalk", "classify", "list", "mark",
                                  "draft"},
                        InboundGoto(i, at)
                 PROVE  inboundJob' \in [InboundIds -> InboundRun]
      OBVIOUS
    <3> DEFINE run == [inboundJob[i] EXCEPT !.state = "active", !.at = at]
    <3>1. run \in InboundRun
      <4>1. inboundJob[i] \in InboundRun
        OBVIOUS
      <4> QED
        BY <4>1 DEF InboundRun
    <3>2. inboundJob' = [inboundJob EXCEPT ![i] = run]
      BY DEF InboundGoto
    <3> HIDE DEF run
    <3> QED
      BY <3>1, <3>2
  <2>2. \A state \in {"failed", "completed"} :
          InboundEnds(i, state) => inboundJob' \in [InboundIds -> InboundRun]
    <3>1. ASSUME NEW state \in {"failed", "completed"}
          PROVE  [NoRun EXCEPT !.state = state] \in InboundRun
      BY DEF InboundRun, NoRun
    <3> QED
      BY <3>1 DEF InboundEnds
  <2>3. ASSUME NEW class \in ReplyClasses, ClassifyReply(i, class)
        PROVE  inboundJob' \in [InboundIds -> InboundRun]
    <3> DEFINE run == [inboundJob[i] EXCEPT !.class = class,
                         !.at = IF class = "UNSUBSCRIBE" THEN "list" ELSE "draft"]
    <3>1. run \in InboundRun
      <4>1. inboundJob[i] \in InboundRun
        OBVIOUS
      <4> QED
        BY <4>1 DEF InboundRun
    <3>2. inboundJob' = [inboundJob EXCEPT ![i] = run]
      BY <2>3 DEF ClassifyReply
    <3> HIDE DEF run
    <3> QED
      BY <3>1, <3>2
  <2> QED
    BY <2>1, <2>2, <2>3
       DEF InboundStep, LocateLead, CreateLead, FindConversation, CreateConversation,
           ProviderFails, BlockSender, MarkSender, StoreInbound
<1>2. prospect' \in [Addresses -> Row]
  <2> USE DEF Row, Stages
  <2>1. CASE CreateLead(i)
    BY <2>1, InboundFields DEF CreateLead
  <2>2. CASE MarkSender(i)
    BY <2>2, InboundFields DEF MarkSender, BlockedRow, NoRow
  <2>3. CASE StoreInbound(i)
    BY <2>3, InboundFields DEF StoreInbound, StageOf
  <2> QED
    BY <2>1, <2>2, <2>3
       DEF InboundStep, LocateLead, FindConversation, CreateConversation, ClassifyReply,
           ProviderFails, BlockSender
<1>3. \A t \in talks' : t[1] \in Addresses
  <2>1. CASE CreateConversation(i)
    BY <2>1, InboundFields DEF CreateConversation
  <2> QED
    BY <2>1
       DEF InboundStep, LocateLead, CreateLead, FindConversation, ClassifyReply,
           ProviderFails, BlockSender, MarkSender, StoreInbound
<1>4. UNCHANGED <<mail, hooks, stored, processed, hookJob, replies, deliveries, eventRows>>
  BY DEF InboundStep, LocateLead, CreateLead, FindConversation, CreateConversation,
         ClassifyReply, ProviderFails, BlockSender, MarkSender, StoreInbound
<1>5. blocked' \subseteq Addresses
  <2>1. CASE BlockSender(i)
    BY <2>1, InboundFields DEF BlockSender
  <2> QED
    BY <2>1
       DEF InboundStep, LocateLead, CreateLead, FindConversation, CreateConversation,
           ClassifyReply, ProviderFails, MarkSender, StoreInbound
<1> QED
  BY <1>1, <1>2, <1>3, <1>4, <1>5

LEMMA RequestsKeepShape ==
    ASSUME RepliesShape,
           \/ \E e \in Events : ReceiveWebhook(e)
           \/ HookRequestStep
           \/ \E t \in talks, m \in ReplyMails, stage \in {"none", "INTERESTED"} :
                 CheckReply(t, m, stage)
           \/ InboxStep
    PROVE  RepliesShape'
<1> USE DEF RepliesShape
<1>1. ASSUME NEW e \in Events, ReceiveWebhook(e)
      PROVE  RepliesShape'
  BY <1>1 DEF ReceiveWebhook, NoHookChange, SendVars
<1>2. ASSUME NEW q \in hooks, StoreEvent(q)
      PROVE  RepliesShape'
  BY <1>2 DEF StoreEvent, NoHookChange, SendVars
<1>3. ASSUME NEW q \in hooks, EnqueueEvent(q)
      PROVE  RepliesShape'
  BY <1>3 DEF EnqueueEvent, NoHookChange, SendVars, HookRun, NoRun, Places
<1>4. ASSUME NEW t \in talks, NEW m \in ReplyMails, NEW stage \in {"none", "INTERESTED"},
             CheckReply(t, m, stage)
      PROVE  RepliesShape'
  BY <1>4 DEF CheckReply, NoReplyChange
<1>5. ASSUME NEW q \in replies, CreateReply(q)
      PROVE  RepliesShape'
  <2>1. mail' \in [Mails -> MailRow]
    <3>1. q.mail \in ReplyMails /\ q.to \in Addresses
      OBVIOUS
    <3>2. \A m \in Mails : mail[m] \in MailRow
      OBVIOUS
    <3>3. \A r \in MailRow : [r EXCEPT !.status = "APPROVED", !.to = q.to] \in MailRow
      BY <3>1 DEF MailRow
    <3>4. mail' = [mail EXCEPT ![q.mail] = [mail[q.mail] EXCEPT !.status = "APPROVED", !.to = q.to]]
      BY <1>5 DEF CreateReply
    <3> QED
      BY <3>1, <3>2, <3>3, <3>4
  <2>2. replies' \subseteq [mail : ReplyMails, to : Addresses, stage : {"none", "INTERESTED"},
                           at : {"create", "enqueue"}]
    BY <1>5 DEF CreateReply
  <2> QED
    BY <1>5, <2>1, <2>2 DEF CreateReply, NoReplyChange
<1>6. ASSUME NEW q \in replies, EnqueueReply(q)
      PROVE  RepliesShape'
  <2>1. mail' \in [Mails -> MailRow]
    <3>1. \A m \in Mails : mail[m] \in MailRow
      OBVIOUS
    <3>2. \A r \in MailRow : [r EXCEPT !.send = "waiting"] \in MailRow
      BY DEF MailRow
    <3>3. mail' = [mail EXCEPT ![q.mail] = [mail[q.mail] EXCEPT !.send = "waiting"]]
      BY <1>6 DEF EnqueueReply
    <3> QED
      BY <3>1, <3>2, <3>3
  <2>2. prospect' \in [Addresses -> Row]
    <3>1. q.stage = "none" \/ q.stage = "INTERESTED"
      OBVIOUS
    <3>2. \A r \in Row : [r EXCEPT !.crm = "INTERESTED"] \in Row
      BY DEF Row, Stages
    <3> QED
      BY <1>6, <3>1, <3>2 DEF EnqueueReply
  <2> QED
    BY <1>6, <2>1, <2>2 DEF EnqueueReply, NoReplyChange
<1> QED
  BY <1>1, <1>2, <1>3, <1>4, <1>5, <1>6 DEF HookRequestStep, InboxStep

LEMMA CrashKeepsShape ==
    ASSUME RepliesShape, RepliesWorkerCrash \/ RepliesApiCrash
    PROVE  RepliesShape'
<1> USE DEF RepliesShape
<1>1. CASE RepliesWorkerCrash
  <2>1. mail' \in [Mails -> MailRow]
    <3>1. ASSUME NEW m \in Mails, NEW at \in {"waiting", "ended"}
          PROVE  [mail[m] EXCEPT !.stalls = @ + 1, !.send = at] \in MailRow
      <4>1. mail[m] \in MailRow /\ mail[m].stalls + 1 \in Nat
        BY DEF MailRow
      <4> QED
        BY <4>1 DEF MailRow
    <3> QED
      BY <1>1, <3>1 DEF RepliesWorkerCrash
  <2>2. hookJob' \in [Events -> HookRun]
    <3>1. ASSUME NEW run \in HookRun
          PROVE  Stalled(run) \in HookRun
      <4>1. run.stalls + 1 \in Nat
        BY DEF HookRun
      <4> QED
        BY <4>1 DEF HookRun, Stalled, Places
    <3> QED
      BY <1>1, <3>1 DEF RepliesWorkerCrash
  <2>3. inboundJob' \in [InboundIds -> InboundRun]
    <3>1. ASSUME NEW run \in InboundRun
          PROVE  Stalled(run) \in InboundRun
      <4>1. run.stalls + 1 \in Nat
        BY DEF InboundRun
      <4> QED
        BY <4>1 DEF InboundRun, Stalled
    <3> QED
      BY <1>1, <3>1 DEF RepliesWorkerCrash
  <2>4. \A e \in Events : hookJob'[e].state # "active"
    BY <1>1 DEF RepliesWorkerCrash, HookRun, Stalled
  <2> QED
    BY <1>1, <2>1, <2>2, <2>3, <2>4 DEF RepliesWorkerCrash
<1>2. CASE RepliesApiCrash
  BY <1>2 DEF RepliesApiCrash, SendVars
<1> QED
  BY <1>1, <1>2

LEMMA ShapeStep ==
    ASSUME RepliesShape, [RepliesNext]_repliesVars
    PROVE  RepliesShape'
<1>1. CASE UNCHANGED repliesVars
  BY <1>1 DEF repliesVars, RepliesShape
<1> QED
  BY <1>1, SendKeepsShape, HookJobKeepsShape, InboundKeepsShape, RequestsKeepShape,
     CrashKeepsShape
     DEF RepliesNext

-----------------------------------------------------------------------------
(* Events: queued once, handled before they are marked *)

NothingHappened(e) ==
    /\ hookJob[e] = NoRun
    /\ eventRows[e] = 0
    /\ e \notin processed
    /\ \A i \in InboundIds : i[1] = e => inboundJob[i] = NoRun

\* An event reaches the queue once: by the one request that stored it.
QueuedOnce ==
    /\ \A e \in Events : e \notin stored => NothingHappened(e)
    /\ \A q \in hooks : q.at = "enqueue" => q.event \in stored /\ NothingHappened(q.event)
    /\ \A q, p \in hooks :
          q.at = "enqueue" /\ p.at = "enqueue" /\ q.event = p.event => q = p

\* The inbound jobs the runs of an event's job have queued.
Dispatched(e) == {i \in InboundIds : i[1] = e /\ inboundJob[i] # NoRun}

\* A run has recorded and dispatched its event at most once more than the runs
\* that died, and what a place of its plan has behind it is done.
RunFits(e) ==
    LET run == hookJob[e]
    IN  /\ run.state \in {"waiting", "active"} => run.stalls <= MaxStalls
        /\ eventRows[e] <= 1 + run.stalls
        /\ run.state = "waiting" \/ (run.state = "active" /\ run.at = "event") =>
              eventRows[e] <= run.stalls
        /\ Cardinality(Dispatched(e)) <= 1 + run.stalls
        /\ run.state = "waiting" \/ (run.state = "active" /\ run.at # "processed") =>
              Cardinality(Dispatched(e)) <= run.stalls
        /\ run.state = "active" /\ run.at \in {"mark", "processed"} /\ Suppresses(e.kind) =>
              e.about \in blocked
        /\ run.state = "active" /\ run.at = "processed" /\ e.kind = "reply" =>
              Dispatched(e) # {}
        /\ run.state = "active" => run.at # "start"
        /\ \A i \in Dispatched(e) : i[2] <= Cardinality(Dispatched(e))

Handled(e) ==
    /\ Suppresses(e.kind) => e.about \in blocked
    /\ e.kind = "reply" => Dispatched(e) # {}

HooksInvariant ==
    /\ QueuedOnce
    /\ \A e \in Events : RunFits(e)
    /\ \A e \in processed : Handled(e)
    /\ StoredEventsAreKept

LEMMA DispatchedIsFinite ==
    ASSUME NEW e
    PROVE  /\ IsFiniteSet(Dispatched(e))
           /\ Cardinality(Dispatched(e)) \in Nat
<1>1. IsFiniteSet(1 .. MaxStalls + 1)
  BY RepliesBounds, FS_Interval
<1>2. IsFiniteSet({e} \X (1 .. MaxStalls + 1))
  BY <1>1, FS_Singleton, FS_Product
<1>3. Dispatched(e) \subseteq {e} \X (1 .. MaxStalls + 1)
  BY InboundFields DEF Dispatched
<1> QED
  BY <1>2, <1>3, FS_Subset, FS_CardinalityType

LEMMA HooksStart == RepliesInit => HooksInvariant
<1> SUFFICES ASSUME RepliesInit PROVE HooksInvariant
  OBVIOUS
<1>1. \A e \in Events : Dispatched(e) = {} /\ Cardinality(Dispatched(e)) = 0
  BY FS_EmptySet DEF RepliesInit, Dispatched
<1>2. \A e \in Events : RunFits(e)
  BY <1>1 DEF RepliesInit, RunFits, NoRun
<1>3. QueuedOnce
  BY DEF RepliesInit, QueuedOnce, NothingHappened
<1> QED
  BY <1>2, <1>3 DEF RepliesInit, HooksInvariant, StoredEventsAreKept

\* Steps that queue nothing, run no webhook job and take no address off the list.
HooksRest ==
    /\ UNCHANGED <<hooks, stored, processed, hookJob, eventRows, cut>>
    /\ \A i \in InboundIds : inboundJob'[i] = NoRun <=> inboundJob[i] = NoRun
    /\ blocked \subseteq blocked'

LEMMA HooksKept ==
    ASSUME HooksInvariant, HooksRest
    PROVE  HooksInvariant'
<1> USE DEF HooksRest
<1>1. \A e : Dispatched(e)' = Dispatched(e)
  BY DEF Dispatched
<1>2. QueuedOnce'
  BY DEF HooksInvariant, QueuedOnce, NothingHappened
<1>3. \A e \in Events : RunFits(e)'
  <2> SUFFICES ASSUME NEW e \in Events PROVE RunFits(e)'
    OBVIOUS
  <2>1. RunFits(e) /\ Dispatched(e)' = Dispatched(e)
    BY <1>1 DEF HooksInvariant
  <2> QED
    BY <2>1 DEF RunFits
<1>4. \A e \in processed' : Handled(e)'
  BY <1>1 DEF HooksInvariant, Handled
<1>5. StoredEventsAreKept'
  BY DEF HooksInvariant, StoredEventsAreKept
<1> QED
  BY <1>2, <1>3, <1>4, <1>5 DEF HooksInvariant

LEMMA InboundRests ==
    ASSUME RepliesShape, NEW i \in InboundIds, InboundStep(i)
    PROVE  HooksRest
<1>1. UNCHANGED <<hooks, stored, processed, hookJob, eventRows, cut>>
  BY DEF InboundStep, LocateLead, CreateLead, FindConversation, CreateConversation,
         ClassifyReply, ProviderFails, BlockSender, MarkSender, StoreInbound, NoInboundChange
<1>2. blocked \subseteq blocked'
  BY DEF InboundStep, LocateLead, CreateLead, FindConversation, CreateConversation,
         ClassifyReply, ProviderFails, BlockSender, MarkSender, StoreInbound
<1>3. /\ inboundJob[i] # NoRun
      /\ inboundJob'[i] # NoRun
      /\ \A j \in InboundIds : j # i => inboundJob'[j] = inboundJob[j]
  <2>1. inboundJob[i].state \in {"waiting", "active"}
    BY DEF InboundStep, LocateLead, CreateLead, FindConversation, CreateConversation,
           ClassifyReply, ProviderFails, BlockSender, MarkSender, StoreInbound, InboundAt
  <2>2. /\ inboundJob'[i].state # "absent"
        /\ \A j \in InboundIds : j # i => inboundJob'[j] = inboundJob[j]
    <3>1. inboundJob \in [InboundIds -> InboundRun]
      BY DEF RepliesShape
    <3>2. \A at : InboundGoto(i, at) =>
            /\ inboundJob'[i].state = "active"
            /\ \A j \in InboundIds : j # i => inboundJob'[j] = inboundJob[j]
      BY <3>1 DEF InboundGoto, InboundRun
    <3>3. \A state \in {"failed", "completed"} : InboundEnds(i, state) =>
            /\ inboundJob'[i].state = state
            /\ \A j \in InboundIds : j # i => inboundJob'[j] = inboundJob[j]
      BY <3>1 DEF InboundEnds, NoRun
    <3>4. ASSUME NEW class \in ReplyClasses, ClassifyReply(i, class)
          PROVE  /\ inboundJob'[i].state = "active"
                 /\ \A j \in InboundIds : j # i => inboundJob'[j] = inboundJob[j]
      BY <3>1, <3>4 DEF ClassifyReply, InboundRun, InboundAt
    <3> QED
      BY <3>2, <3>3, <3>4
         DEF InboundStep, LocateLead, CreateLead, FindConversation, CreateConversation,
             ProviderFails, BlockSender, MarkSender, StoreInbound
  <2> QED
    BY <2>1, <2>2 DEF NoRun
<1> QED
  BY <1>1, <1>2, <1>3 DEF HooksRest

LEMMA OthersRest ==
    ASSUME RepliesShape,
           \/ \E m \in Mails : RepliesSendStep(m)
           \/ \E t \in talks, m \in ReplyMails, stage \in {"none", "INTERESTED"} :
                 CheckReply(t, m, stage)
           \/ InboxStep
           \/ UNCHANGED repliesVars
    PROVE  HooksRest
BY DEF HooksRest, RepliesSendStep, CheckAndHand, CommitSent, AttributeMail, NoSendChange,
       CheckReply, InboxStep, CreateReply, EnqueueReply, NoReplyChange, repliesVars

\* What a step of the job of event e leaves alone.
HookFrame(e) ==
    /\ UNCHANGED <<hooks, stored, cut>>
    /\ hookJob[e].state \in {"waiting", "active"}
    /\ \A d \in Events : d # e => hookJob'[d] = hookJob[d] /\ eventRows'[d] = eventRows[d]
    /\ \A i \in InboundIds :
          inboundJob'[i] = inboundJob[i] \/ (i[1] = e /\ inboundJob'[i] # NoRun)
    /\ blocked \subseteq blocked'
    /\ processed' \in {processed, processed \cup {e}}

LEMMA HookFrameKeeps ==
    ASSUME RepliesShape, HooksInvariant, NEW e \in Events, HookFrame(e), RunFits(e)',
           hookJob'[e].state # "absent" \/ e \in processed',
           e \in processed' \ processed => Handled(e)'
    PROVE  HooksInvariant'
<1>1. \A d \in Events : d # e => Dispatched(d)' = Dispatched(d)
  BY DEF HookFrame, Dispatched
<1>2. Dispatched(e) \subseteq Dispatched(e)'
  BY DEF HookFrame, Dispatched
<1>3. e \in stored /\ \A q \in hooks : q.at = "enqueue" => q.event # e
  BY DEF HooksInvariant, QueuedOnce, NothingHappened, NoRun, HookFrame
<1>4. QueuedOnce'
  <2>1. \A d \in Events : d # e /\ NothingHappened(d) => NothingHappened(d)'
    BY DEF NothingHappened, HookFrame
  <2>2. \A q \in hooks : q.event \in Events
    BY DEF RepliesShape
  <2> QED
    BY <1>3, <2>1, <2>2 DEF HooksInvariant, QueuedOnce, HookFrame
<1>5. ASSUME NEW d \in Events
      PROVE  RunFits(d)'
  <2>1. CASE d # e
    <3>1. RunFits(d) /\ Dispatched(d)' = Dispatched(d)
      BY <1>1, <2>1 DEF HooksInvariant
    <3>2. hookJob'[d] = hookJob[d] /\ eventRows'[d] = eventRows[d] /\ blocked \subseteq blocked'
      BY <2>1 DEF HookFrame
    <3> QED
      BY <3>1, <3>2 DEF RunFits
  <2> QED
    BY <2>1
<1>6. ASSUME NEW d \in processed'
      PROVE  Handled(d)'
  <2>1. CASE d \in processed
    <3>1. Handled(d) /\ d \in Events
      BY <2>1 DEF HooksInvariant, RepliesShape
    <3>2. Dispatched(d) \subseteq Dispatched(d)'
      BY <1>1, <1>2, <3>1
    <3> QED
      BY <3>1, <3>2 DEF Handled, HookFrame
  <2>2. CASE d \notin processed
    BY <2>2 DEF HookFrame
  <2> QED
    BY <2>1, <2>2
<1>7. StoredEventsAreKept'
  <2> SUFFICES ASSUME NEW d \in stored'
               PROVE  \/ d \in processed' \cup cut'
                      \/ hookJob'[d].state # "absent"
                      \/ \E q \in hooks' : q.event = d /\ q.at = "enqueue"
    BY DEF StoredEventsAreKept
  <2>1. d \in Events /\ d \in stored
    BY DEF HookFrame, RepliesShape
  <2> QED
    BY <2>1 DEF HooksInvariant, StoredEventsAreKept, HookFrame
<1> QED
  BY <1>4, <1>5, <1>6, <1>7 DEF HooksInvariant

LEMMA HookJobKeepsHooks ==
    ASSUME RepliesShape, RepliesShape', HooksInvariant, NEW e \in Events, HookJobStep(e)
    PROVE  HooksInvariant'
<1> DEFINE run == hookJob[e]
<1>1. /\ run \in HookRun /\ run.stalls \in Nat /\ eventRows[e] \in Nat
      /\ hookJob \in [Events -> HookRun]
      /\ eventRows \in [Events -> Nat]
  BY DEF RepliesShape, HookRun
<1>2. RunFits(e) /\ Cardinality(Dispatched(e)) \in Nat
  BY DispatchedIsFinite DEF HooksInvariant
<1>3. CASE LookUp(e)
  <2> DEFINE found == mail[e.mail].recorded
             first == HookPlan(e, found)[1]
  <2>1. hookJob' = [hookJob EXCEPT ![e].state = "active", ![e].found = found, ![e].at = first]
    BY <1>3 DEF LookUp
  <2>2. hookJob'[e].state = "active" /\ hookJob'[e].at = first /\ hookJob'[e].stalls = run.stalls
    BY <1>1, <2>1 DEF HookRun
  <2>3. /\ run.state = "waiting"
        /\ UNCHANGED <<blocked, inboundJob, eventRows>>
    BY <1>3 DEF LookUp
  <2>4. found \in BOOLEAN
    BY EventFields DEF RepliesShape, MailRow
  <2>5. /\ first # "mark" /\ first # "start"
        /\ first = "processed" => ~Suppresses(e.kind) /\ e.kind # "reply"
    <3>1. \E at : at \in Planned(e, found)
      BY DEF Planned
    <3> QED
      BY <2>4, <3>1, PlanGoesOn DEF Planned
  <2> HIDE DEF first
  <2>6. Dispatched(e)' = Dispatched(e)
    BY <2>3 DEF Dispatched
  <2>7. RunFits(e)'
    BY <1>1, <1>2, <2>2, <2>3, <2>5, <2>6 DEF RunFits
  <2>8. UNCHANGED <<hooks, stored, cut, processed>>
    BY <1>3 DEF LookUp, NoProcessorChange
  <2>9. \A d \in Events : d # e => hookJob'[d] = hookJob[d] /\ eventRows'[d] = eventRows[d]
    BY <1>1, <2>1, <2>3
  <2>10. HookFrame(e)
    BY <2>3, <2>8, <2>9 DEF HookFrame
  <2> QED
    BY <2>2, <2>7, <2>8, <2>10, HookFrameKeeps
<1>4. ASSUME NEW at \in {"event", "status", "list", "mark", "dispatch"},
             HookAt(e, at), HookAdvance(e),
             UNCHANGED <<hooks, stored, cut, processed>>,
             blocked \subseteq blocked',
             at = "list" => e.about \in blocked',
             IF at = "event" THEN eventRows' = [eventRows EXCEPT ![e] = @ + 1]
                             ELSE eventRows' = eventRows,
             IF at = "dispatch"
             THEN inboundJob' = [inboundJob EXCEPT
                                   ![<<e, Cardinality(Dispatched(e)) + 1>>].state = "waiting"]
             ELSE inboundJob' = inboundJob
      PROVE  HooksInvariant'
  <2>1. run.state = "active" /\ run.at = at
    BY <1>4 DEF HookAt
  <2>2. hookJob' = [hookJob EXCEPT ![e].at = PlaceAfter(e, at)]
    BY <1>4, <2>1, AdvanceKeepsShape
  <2>3. /\ hookJob'[e].state = "active" /\ hookJob'[e].at = PlaceAfter(e, at)
        /\ hookJob'[e].stalls = run.stalls
    BY <1>1, <2>1, <2>2 DEF HookRun
  <2>4. at \in Planned(e, run.found)
    BY <2>1 DEF RepliesShape
  <2>5. /\ PlaceAfter(e, at) \notin {"event", "start"}
        /\ PlaceAfter(e, at) = "mark" <=> at = "list"
        /\ PlaceAfter(e, at) = "processed" => (Suppresses(e.kind) => at = "mark")
                                              /\ (e.kind = "reply" => at = "dispatch")
    BY <2>4 DEF PlaceAfter, Planned, Suppresses, StatusOf
  <2>6. \A d \in Events : d # e => hookJob'[d] = hookJob[d] /\ eventRows'[d] = eventRows[d]
    <3>1. CASE at = "event"
      BY <1>1, <1>4, <2>2, <3>1
    <3>2. CASE at # "event"
      BY <1>1, <1>4, <2>2, <3>2
    <3> QED
      BY <3>1, <3>2
  <2>7. CASE at # "dispatch"
    <3>1. Dispatched(e)' = Dispatched(e)
      BY <1>4, <2>7 DEF Dispatched
    <3>2. eventRows'[e] = IF at = "event" THEN eventRows[e] + 1 ELSE eventRows[e]
      BY <1>1, <1>4
    <3>3. RunFits(e)'
      BY <1>1, <1>2, <1>4, <2>1, <2>3, <2>5, <2>7, <3>1, <3>2 DEF RunFits
    <3>4. HookFrame(e)
      BY <1>4, <2>1, <2>7, <2>6 DEF HookFrame
    <3> QED
      BY <1>4, <2>3, <3>3, <3>4, HookFrameKeeps
  <2>8. CASE at = "dispatch"
    <3> DEFINE n == Cardinality(Dispatched(e)) + 1
    <3>1. e.kind = "reply" /\ ~Suppresses(e.kind)
      BY <2>4, <2>8 DEF Planned, Suppresses
    <3>2. Cardinality(Dispatched(e)) <= run.stalls /\ run.stalls <= MaxStalls
      BY <1>2, <2>1, <2>8 DEF RunFits
    <3>3. n \in 1 .. MaxStalls + 1
      BY <1>1, <1>2, <3>2, RepliesBounds
    <3>4. <<e, n>> \in InboundIds
      BY <3>1, <3>3 DEF InboundIds
    <3>5. /\ inboundJob'[<<e, n>>] # NoRun
          /\ \A i \in InboundIds : i # <<e, n>> => inboundJob'[i] = inboundJob[i]
      <4>1. inboundJob \in [InboundIds -> InboundRun]
        BY DEF RepliesShape
      <4>2. inboundJob' = [inboundJob EXCEPT ![<<e, n>>].state = "waiting"]
        BY <1>4, <2>8
      <4> HIDE DEF n
      <4>3. inboundJob'[<<e, n>>].state = "waiting"
        BY <3>4, <4>1, <4>2 DEF InboundRun
      <4> QED
        BY <4>1, <4>2, <4>3 DEF NoRun
    <3>6. Dispatched(e)' = Dispatched(e) \cup {<<e, n>>}
      <4> HIDE DEF n
      <4>1. ASSUME NEW i
            PROVE  i \in Dispatched(e)' <=> i \in Dispatched(e) \cup {<<e, n>>}
        <5>1. CASE i = <<e, n>>
          BY <3>4, <3>5, <5>1 DEF Dispatched
        <5>2. CASE i # <<e, n>>
          BY <3>5, <5>2 DEF Dispatched
        <5> QED
          BY <5>1, <5>2
      <4> QED
        BY <4>1
    <3>7. Cardinality(Dispatched(e)') = n
      <4>1. <<e, n>> \notin Dispatched(e)
        BY <1>2 DEF RunFits
      <4> QED
        BY <3>6, <4>1, DispatchedIsFinite, FS_AddElement
    <3>8. /\ Dispatched(e)' # {}
          /\ \A i \in Dispatched(e)' : i[2] <= n
      <4>1. \A i \in Dispatched(e) : i[2] \in Nat /\ i[2] <= Cardinality(Dispatched(e))
        BY <1>2, InboundFields, RepliesBounds DEF RunFits, Dispatched
      <4> QED
        <5>1. \A i \in Dispatched(e)' : i \in Dispatched(e) \/ i = <<e, n>>
          BY <3>6
        <5>2. <<e, n>>[2] = n /\ n = Cardinality(Dispatched(e)) + 1 /\ <<e, n>> \in Dispatched(e)'
          BY <3>6
        <5> HIDE DEF n
        <5> QED
          BY <1>2, <4>1, <5>1, <5>2
    <3>9. PlaceAfter(e, at) = "processed"
      BY <2>8 DEF PlaceAfter
    <3>10. RunFits(e)'
      BY <1>1, <1>2, <1>4, <2>1, <2>3, <2>8, <3>1, <3>2, <3>7, <3>8, <3>9 DEF RunFits
    <3>11. HookFrame(e)
      <4>1. \A i \in InboundIds :
              inboundJob'[i] = inboundJob[i] \/ (i[1] = e /\ inboundJob'[i] # NoRun)
        BY <3>5
      <4> HIDE DEF n
      <4> QED
        BY <1>4, <2>1, <2>6, <4>1 DEF HookFrame
    <3> QED
      BY <1>4, <2>3, <3>10, <3>11, HookFrameKeeps
  <2> QED
    BY <2>7, <2>8
<1>5. CASE RecordEvent(e)
  BY <1>4, <1>5 DEF RecordEvent, NoProcessorChange
<1>6. CASE SetOutcome(e)
  BY <1>4, <1>6 DEF SetOutcome, NoProcessorChange
<1>7. CASE BlockAddress(e)
  BY <1>4, <1>7 DEF BlockAddress, NoProcessorChange
<1>8. CASE BlockProspect(e)
  BY <1>4, <1>8 DEF BlockProspect, NoProcessorChange
<1>9. CASE DispatchReply(e)
  <2>1. inboundJob' = [inboundJob EXCEPT ![<<e, Cardinality(Dispatched(e)) + 1>>].state = "waiting"]
    BY <1>9 DEF DispatchReply, Dispatched
  <2> QED
    BY <1>4, <1>9, <2>1 DEF DispatchReply, NoProcessorChange
<1>10. CASE MarkProcessed(e)
  <2>1. run.state = "active" /\ run.at = "processed"
    BY <1>10 DEF MarkProcessed, HookAt
  <2>2. hookJob'[e] = [NoRun EXCEPT !.stalls = run.stalls]
    BY <1>1, <1>10 DEF MarkProcessed
  <2>3. hookJob'[e].state = "absent" /\ hookJob'[e].stalls = run.stalls
    BY <2>2 DEF NoRun
  <2>4. Dispatched(e)' = Dispatched(e) /\ UNCHANGED <<blocked, eventRows>>
    BY <1>10 DEF MarkProcessed, Dispatched
  <2>5. RunFits(e)'
    BY <1>1, <1>2, <2>1, <2>3, <2>4 DEF RunFits
  <2>6. Handled(e)'
    BY <1>2, <2>1, <2>4 DEF RunFits, Handled
  <2>7. HookFrame(e) /\ e \in processed'
    <3>1. /\ UNCHANGED <<hooks, stored, cut, blocked, inboundJob, eventRows>>
          /\ processed' = processed \cup {e}
      BY <1>10 DEF MarkProcessed, NoProcessorChange
    <3>2. \A d \in Events : d # e => hookJob'[d] = hookJob[d]
      BY <1>1, <1>10 DEF MarkProcessed
    <3> QED
      BY <2>1, <3>1, <3>2 DEF HookFrame
  <2> QED
    BY <2>5, <2>6, <2>7, HookFrameKeeps
<1> QED
  BY <1>3, <1>5, <1>6, <1>7, <1>8, <1>9, <1>10 DEF HookJobStep

LEMMA DeliveriesKeepHooks ==
    ASSUME RepliesShape, HooksInvariant,
           (\E e \in Events : ReceiveWebhook(e)) \/ HookRequestStep
    PROVE  HooksInvariant'
<1>1. ASSUME NEW e \in Events, ReceiveWebhook(e)
      PROVE  HooksInvariant'
  <2>1. /\ \A q \in hooks' : q.at = "enqueue" => q \in hooks
        /\ hooks \subseteq hooks'
    BY <1>1 DEF ReceiveWebhook
  <2>2. UNCHANGED <<stored, processed, hookJob, eventRows, inboundJob, blocked, cut>>
    BY <1>1 DEF ReceiveWebhook, NoHookChange
  <2> QED
    <3>1. (\A d \in Events : RunFits(d)') /\ (\A d \in processed' : Handled(d)')
      BY <2>2 DEF HooksInvariant, RunFits, Handled, Dispatched
    <3>2. \A d : NothingHappened(d)' = NothingHappened(d)
      BY <2>2 DEF NothingHappened
    <3>3. QueuedOnce'
      BY <2>1, <2>2, <3>2 DEF HooksInvariant, QueuedOnce
    <3>4. StoredEventsAreKept'
      BY <2>1, <2>2 DEF HooksInvariant, StoredEventsAreKept
    <3> QED
      BY <3>1, <3>3, <3>4 DEF HooksInvariant
<1>2. ASSUME NEW q \in hooks, StoreEvent(q)
      PROVE  HooksInvariant'
  <2> DEFINE p == [q EXCEPT !.at = "enqueue"]
  <2>1. q \in [event : Events, no : Nat, at : {"store", "enqueue"}] /\ q.at = "store"
    BY <1>2 DEF RepliesShape, StoreEvent
  <2>2. p.event = q.event /\ p.at = "enqueue" /\ q.event \in Events
    BY <2>1
  <2>3. /\ UNCHANGED <<processed, hookJob, eventRows, inboundJob, blocked, cut>>
        /\ stored' = stored \cup {q.event}
        /\ hooks' = (hooks \ {q}) \cup (IF q.event \in stored THEN {} ELSE {p})
    BY <1>2 DEF StoreEvent, NoHookChange
  <2> HIDE DEF p
  <2>4. QueuedOnce'
    <3>1. \A d : NothingHappened(d)' = NothingHappened(d)
      BY <2>3 DEF NothingHappened
    <3>2. CASE q.event \in stored
      BY <2>3, <3>1, <3>2 DEF HooksInvariant, QueuedOnce
    <3>3. CASE q.event \notin stored
      <4>1. NothingHappened(q.event)
        BY <2>2, <3>3 DEF HooksInvariant, QueuedOnce
      <4>2. \A r \in hooks : r.at = "enqueue" => r.event # q.event
        BY <3>3 DEF HooksInvariant, QueuedOnce
      <4>3. \A r \in hooks' : r.at = "enqueue" => r = p \/ r \in hooks
        BY <2>3
      <4> QED
        BY <2>2, <2>3, <3>1, <4>1, <4>2, <4>3 DEF HooksInvariant, QueuedOnce
    <3> QED
      BY <3>2, <3>3
  <2>5. StoredEventsAreKept'
    <3> SUFFICES ASSUME NEW d \in stored'
                 PROVE  \/ d \in processed' \cup cut'
                        \/ hookJob'[d].state # "absent"
                        \/ \E r \in hooks' : r.event = d /\ r.at = "enqueue"
      BY DEF StoredEventsAreKept
    <3>1. CASE d \in stored
      BY <2>1, <2>3, <3>1 DEF HooksInvariant, StoredEventsAreKept
    <3>2. CASE d \notin stored
      BY <2>2, <2>3, <3>2
    <3> QED
      BY <3>1, <3>2
  <2>6. (\A d \in Events : RunFits(d)') /\ (\A d \in processed' : Handled(d)')
    BY <2>3 DEF HooksInvariant, RunFits, Handled, Dispatched
  <2> QED
    BY <2>4, <2>5, <2>6 DEF HooksInvariant
<1>3. ASSUME NEW q \in hooks, EnqueueEvent(q)
      PROVE  HooksInvariant'
  <2> DEFINE e == q.event
  <2>1. e \in Events /\ q.at = "enqueue" /\ e \in stored /\ NothingHappened(e)
    BY <1>3 DEF RepliesShape, EnqueueEvent, HooksInvariant, QueuedOnce
  <2>2. /\ UNCHANGED <<stored, processed, eventRows, inboundJob, blocked, cut>>
        /\ hookJob' = [hookJob EXCEPT ![e] = [NoRun EXCEPT !.state = "waiting"]]
        /\ hooks' = hooks \ {q}
    BY <1>3 DEF EnqueueEvent, NoHookChange
  <2>3. /\ hookJob'[e].state = "waiting" /\ hookJob'[e].stalls = 0
        /\ \A d \in Events : d # e => hookJob'[d] = hookJob[d]
    BY <2>1, <2>2 DEF RepliesShape, NoRun
  <2>4. \A d : Dispatched(d)' = Dispatched(d)
    BY <2>2 DEF Dispatched
  <2>5. \A r \in hooks' : r \in hooks /\ (r.at = "enqueue" => r.event # e)
    BY <2>1, <2>2 DEF HooksInvariant, QueuedOnce
  <2> HIDE DEF e
  <2>6. QueuedOnce'
    <3>1. \A d \in Events : d # e /\ NothingHappened(d) => NothingHappened(d)'
      BY <2>2, <2>3 DEF NothingHappened
    <3>2. \A r \in hooks' : r.event \in Events
      BY <2>5 DEF RepliesShape
    <3> QED
      BY <2>1, <2>2, <2>5, <3>1, <3>2 DEF HooksInvariant, QueuedOnce
  <2>7. ASSUME NEW d \in Events
        PROVE  RunFits(d)'
    <3>1. CASE d = e
      <4>1. Dispatched(e) = {} /\ eventRows[e] = 0
        BY <2>1 DEF NothingHappened, Dispatched
      <4>2. Cardinality(Dispatched(e)') = 0
        BY <2>4, <4>1, FS_EmptySet
      <4> QED
        <5>1. Dispatched(d)' = {} /\ Cardinality(Dispatched(d)') = 0
          BY <2>4, <3>1, <4>1, <4>2
        <5>2. eventRows'[d] = 0 /\ hookJob'[d].state = "waiting" /\ hookJob'[d].stalls = 0
          BY <2>2, <2>3, <3>1, <4>1
        <5> QED
          BY <5>1, <5>2, RepliesBounds DEF RunFits
    <3>2. CASE d # e
      <4>1. RunFits(d) /\ Dispatched(d)' = Dispatched(d) /\ hookJob'[d] = hookJob[d]
        BY <2>3, <2>4, <3>2 DEF HooksInvariant
      <4>2. eventRows'[d] = eventRows[d] /\ blocked' = blocked
        BY <2>2
      <4> QED
        BY <4>1, <4>2 DEF RunFits
    <3> QED
      BY <3>1, <3>2
  <2>8. \A d \in processed' : Handled(d)'
    BY <2>2, <2>4 DEF HooksInvariant, Handled
  <2>9. StoredEventsAreKept'
    <3> SUFFICES ASSUME NEW d \in stored'
                 PROVE  \/ d \in processed' \cup cut'
                        \/ hookJob'[d].state # "absent"
                        \/ \E r \in hooks' : r.event = d /\ r.at = "enqueue"
      BY DEF StoredEventsAreKept
    <3>1. CASE d = e
      BY <2>3, <3>1
    <3>2. CASE d # e
      <4>1. d \in stored /\ d \in Events
        BY <2>2 DEF RepliesShape
      <4>2. \A r \in hooks : r.event = d => r \in hooks'
        BY <2>2, <3>2 DEF e
      <4> QED
        BY <2>2, <2>3, <3>2, <4>1, <4>2 DEF HooksInvariant, StoredEventsAreKept
    <3> QED
      BY <3>1, <3>2
  <2> QED
    BY <2>6, <2>7, <2>8, <2>9 DEF HooksInvariant
<1> QED
  BY <1>1, <1>2, <1>3 DEF HookRequestStep

LEMMA CrashKeepsHooks ==
    ASSUME RepliesShape, HooksInvariant, RepliesWorkerCrash \/ RepliesApiCrash
    PROVE  HooksInvariant'
<1>1. CASE RepliesWorkerCrash
  <2>1. UNCHANGED <<blocked, hooks, stored, processed, eventRows, cut>>
    BY <1>1 DEF RepliesWorkerCrash
  <2>2. /\ \A e \in Events : hookJob'[e] = Stalled(hookJob[e])
        /\ \A i \in InboundIds : inboundJob'[i] = Stalled(inboundJob[i])
    BY <1>1 DEF RepliesWorkerCrash
  <2>3. \A i \in InboundIds : inboundJob'[i] = NoRun <=> inboundJob[i] = NoRun
    <3> SUFFICES ASSUME NEW i \in InboundIds
                 PROVE  inboundJob'[i] = NoRun <=> inboundJob[i] = NoRun
      OBVIOUS
    <3>1. inboundJob[i] \in InboundRun
      BY DEF RepliesShape
    <3>2. CASE inboundJob[i].state = "active"
      <4>1. Stalled(inboundJob[i]).state \in {"waiting", "failed"}
        BY <3>1, <3>2 DEF Stalled, InboundRun
      <4> QED
        BY <2>2, <3>2, <4>1 DEF NoRun
    <3>3. CASE inboundJob[i].state # "active"
      BY <2>2, <3>3 DEF Stalled
    <3> QED
      BY <3>2, <3>3
  <2>4. \A e : Dispatched(e)' = Dispatched(e)
    BY <2>3 DEF Dispatched
  <2>5. \A e \in Events : NothingHappened(e) => NothingHappened(e)'
    <3>1. Stalled(NoRun) = NoRun
      BY DEF Stalled, NoRun
    <3> QED
      BY <2>1, <2>2, <2>3, <3>1 DEF NothingHappened
  <2>6. QueuedOnce'
    <3>1. \A q \in hooks : q.event \in Events
      BY DEF RepliesShape
    <3> QED
      BY <2>1, <2>5, <3>1 DEF HooksInvariant, QueuedOnce
  <2>7. ASSUME NEW e \in Events
        PROVE  RunFits(e)' /\ (hookJob[e].state # "absent" => hookJob'[e].state # "absent")
    <3>1. /\ hookJob[e] \in HookRun /\ hookJob[e].stalls \in Nat /\ eventRows[e] \in Nat
          /\ RunFits(e)
          /\ hookJob'[e] = Stalled(hookJob[e])
          /\ Dispatched(e)' = Dispatched(e) /\ Cardinality(Dispatched(e)) \in Nat
      BY <2>2, <2>4, DispatchedIsFinite DEF RepliesShape, HookRun, HooksInvariant
    <3>2. CASE hookJob[e].state = "active"
      <4>1. /\ hookJob'[e].stalls = hookJob[e].stalls + 1
            /\ hookJob'[e].state = IF hookJob[e].stalls < MaxStalls THEN "waiting" ELSE "failed"
        BY <3>1, <3>2 DEF Stalled, HookRun
      <4> QED
        BY <2>1, <3>1, <3>2, <4>1, RepliesBounds DEF RunFits
    <3>3. CASE hookJob[e].state # "active"
      <4>1. hookJob'[e] = hookJob[e]
        BY <3>1, <3>3 DEF Stalled
      <4> QED
        BY <2>1, <3>1, <4>1 DEF RunFits
    <3> QED
      BY <3>2, <3>3
  <2>8. \A e \in processed' : Handled(e)'
    BY <2>1, <2>4 DEF HooksInvariant, Handled
  <2>9. StoredEventsAreKept'
    BY <2>1, <2>7 DEF HooksInvariant, StoredEventsAreKept, RepliesShape
  <2> QED
    BY <2>6, <2>7, <2>8, <2>9 DEF HooksInvariant
<1>2. CASE RepliesApiCrash
  <2>1. /\ UNCHANGED <<stored, processed, hookJob, eventRows, inboundJob, blocked>>
        /\ hooks' = {}
        /\ cut' = cut \cup {q.event : q \in {x \in hooks : x.at = "enqueue"}}
    BY <1>2 DEF RepliesApiCrash
  <2>2. (\A d \in Events : RunFits(d)') /\ (\A d \in processed' : Handled(d)') /\ QueuedOnce'
    BY <2>1 DEF HooksInvariant, RunFits, Handled, Dispatched, QueuedOnce, NothingHappened
  <2>3. StoredEventsAreKept'
    BY <2>1 DEF HooksInvariant, StoredEventsAreKept
  <2> QED
    BY <2>2, <2>3 DEF HooksInvariant
<1> QED
  BY <1>1, <1>2

LEMMA HooksStep ==
    ASSUME RepliesShape, RepliesShape', HooksInvariant, [RepliesNext]_repliesVars
    PROVE  HooksInvariant'
BY HooksKept, InboundRests, OthersRest, HookJobKeepsHooks, DeliveriesKeepHooks, CrashKeepsHooks
   DEF RepliesNext

LEMMA HooksAreKept == RepliesSpec => [](RepliesShape /\ HooksInvariant)
<1>1. RepliesInit => RepliesShape /\ HooksInvariant
  BY ShapeStarts, HooksStart
<1>2. RepliesShape /\ HooksInvariant /\ [RepliesNext]_repliesVars
      => RepliesShape' /\ HooksInvariant'
  BY ShapeStep, HooksStep
<1> QED
  BY <1>1, <1>2, PTL DEF RepliesSpec

(***************************************************************************)
(* An event is recorded once, and once more only for each run of its job   *)
(* that died, for any number of deliveries of it, at once or after one     *)
(* another (webhooks.service:45, the unique providerEventId).              *)
(***************************************************************************)
THEOREM EventsAreRecordedOnce == RepliesSpec => []EventsRecordedOnce
<1>1. RepliesShape /\ HooksInvariant => EventsRecordedOnce
  BY DEF HooksInvariant, RunFits, EventsRecordedOnce
<1> QED
  BY <1>1, HooksAreKept, PTL

(***************************************************************************)
(* An event marked processed has had its effect, for any number of crashes *)
(* before the mark (webhook.processor:102-139).                            *)
(***************************************************************************)
THEOREM ProcessedAreHandled == RepliesSpec => []ProcessedIsHandled
<1>1. RepliesShape /\ HooksInvariant => ProcessedIsHandled
  <2> SUFFICES ASSUME RepliesShape, HooksInvariant, NEW e \in processed
               PROVE  /\ Suppresses(e.kind) => e.about \in blocked
                      /\ e.kind = "reply" =>
                            \E n \in 1 .. MaxStalls + 1 : inboundJob[<<e, n>>] # NoRun
    BY DEF ProcessedIsHandled
  <2>1. Handled(e)
    BY DEF HooksInvariant
  <2>2. ASSUME NEW i \in Dispatched(e)
        PROVE  i[2] \in 1 .. MaxStalls + 1 /\ inboundJob[<<e, i[2]>>] # NoRun
    BY InboundFields DEF Dispatched
  <2> QED
    BY <2>1, <2>2 DEF Handled
<1> QED
  BY <1>1, HooksAreKept, PTL

(***************************************************************************)
(* No event that was stored is left without a job or an end, unless the    *)
(* API died before queueing it (webhooks.service:49-77).                   *)
(***************************************************************************)
THEOREM StoredAreKept == RepliesSpec => []StoredEventsAreKept
<1>1. HooksInvariant => StoredEventsAreKept
  BY DEF HooksInvariant
<1> QED
  BY <1>1, HooksAreKept, PTL

-----------------------------------------------------------------------------
(* Listed addresses and their lead rows *)

\* Steps that list nobody and take no excuse away.
ListedRest ==
    /\ UNCHANGED blocked
    /\ \A a \in Addresses :
          prospect[a].valid # "VALID" \/ a \in gap =>
             prospect'[a].valid # "VALID" \/ a \in gap'
    /\ \A e \in Events : HookAt(e, "mark") =>
          HookAt(e, "mark")' \/ prospect'[e.about].valid # "VALID" \/ e.about \in gap'
    /\ \A i \in InboundIds : InboundAt(i, "mark") =>
          InboundAt(i, "mark")' \/ prospect'[Sender(i)].valid # "VALID" \/ Sender(i) \in gap'

LEMMA ListedKept ==
    ASSUME RepliesShape, ListedLeadIsBlocked, ListedRest
    PROVE  ListedLeadIsBlocked'
<1> SUFFICES ASSUME NEW a \in blocked'
             PROVE  \/ prospect'[a].valid # "VALID"
                    \/ \E e \in Events : e.about = a /\ HookAt(e, "mark")'
                    \/ \E i \in InboundIds : Sender(i) = a /\ InboundAt(i, "mark")'
                    \/ a \in gap'
  BY DEF ListedLeadIsBlocked
<1>1. a \in Addresses /\ a \in blocked
  BY DEF RepliesShape, ListedRest
<1> QED
  BY <1>1 DEF ListedLeadIsBlocked, ListedRest

\* Whatever is written over a stage leaves the row as selectable as it was.
LEMMA StageKeepsValid ==
    ASSUME RepliesShape, NEW b, NEW stage,
           prospect' = [prospect EXCEPT ![b].crm = stage]
    PROVE  \A a \in Addresses : prospect'[a].valid = prospect[a].valid
BY DEF RepliesShape, Row

LEMMA OthersKeepListed ==
    ASSUME RepliesShape, HooksInvariant,
           \/ \E m \in Mails : RepliesSendStep(m)
           \/ \E e \in Events : ReceiveWebhook(e)
           \/ HookRequestStep
           \/ \E t \in talks, m \in ReplyMails, stage \in {"none", "INTERESTED"} :
                 CheckReply(t, m, stage)
           \/ InboxStep
           \/ RepliesApiCrash
           \/ UNCHANGED repliesVars
    PROVE  ListedRest
<1>1. UNCHANGED <<blocked, inboundJob, gap>>
  BY DEF RepliesSendStep, CheckAndHand, CommitSent, AttributeMail, NoSendChange,
         ReceiveWebhook, HookRequestStep, StoreEvent, EnqueueEvent, NoHookChange,
         CheckReply, InboxStep, CreateReply, EnqueueReply, NoReplyChange, RepliesApiCrash,
         repliesVars
<1>2. \A a \in Addresses : prospect'[a].valid = prospect[a].valid
  <2>1. ASSUME NEW m \in Mails, AttributeMail(m)
        PROVE  \A a \in Addresses : prospect'[a].valid = prospect[a].valid
    BY <2>1, StageKeepsValid DEF AttributeMail
  <2>2. ASSUME NEW q \in replies, EnqueueReply(q)
        PROVE  \A a \in Addresses : prospect'[a].valid = prospect[a].valid
    BY <2>2, StageKeepsValid DEF EnqueueReply
  <2> QED
    BY <2>1, <2>2
       DEF RepliesSendStep, CheckAndHand, CommitSent, NoSendChange, ReceiveWebhook,
           HookRequestStep, StoreEvent, EnqueueEvent, NoHookChange, SendVars, CheckReply,
           InboxStep, CreateReply, NoReplyChange, RepliesApiCrash, repliesVars
<1>3. \A e \in Events : HookAt(e, "mark") => HookAt(e, "mark")'
  <2>1. ASSUME NEW q \in hooks, EnqueueEvent(q), NEW e \in Events, HookAt(e, "mark")
        PROVE  HookAt(e, "mark")'
    <3>1. e # q.event
      BY <2>1 DEF EnqueueEvent, HooksInvariant, QueuedOnce, NothingHappened, NoRun, HookAt
    <3> QED
      BY <2>1, <3>1 DEF EnqueueEvent, HookAt, RepliesShape
  <2> QED
    BY <2>1
       DEF RepliesSendStep, CheckAndHand, CommitSent, AttributeMail, NoSendChange,
           ReceiveWebhook, HookRequestStep, StoreEvent, NoHookChange, CheckReply,
           InboxStep, CreateReply, EnqueueReply, NoReplyChange, RepliesApiCrash, repliesVars,
           HookAt
<1> QED
  BY <1>1, <1>2, <1>3 DEF ListedRest, InboundAt

LEMMA HookJobKeepsListed ==
    ASSUME RepliesShape, HooksInvariant, ListedLeadIsBlocked, NEW e \in Events, HookJobStep(e)
    PROVE  ListedLeadIsBlocked'
<1>1. hookJob \in [Events -> HookRun] /\ e.about \in Addresses
  BY EventFields DEF RepliesShape
<1>2. UNCHANGED gap /\ \A i \in InboundIds : InboundAt(i, "mark") => InboundAt(i, "mark")'
  <2>1. UNCHANGED gap
    BY DEF HookJobStep, LookUp, RecordEvent, SetOutcome, BlockAddress, BlockProspect,
           DispatchReply, MarkProcessed, NoProcessorChange
  <2>2. ASSUME NEW i \in InboundIds, InboundAt(i, "mark"), DispatchReply(e)
        PROVE  InboundAt(i, "mark")'
    <3>1. inboundJob \in [InboundIds -> InboundRun]
      BY DEF RepliesShape
    <3> DEFINE n == Cardinality(Dispatched(e)) + 1
    <3>2. inboundJob' = [inboundJob EXCEPT ![<<e, n>>].state = "waiting"]
      BY <2>2 DEF DispatchReply, Dispatched
    <3>3. <<e, n>> \notin Dispatched(e)
      BY DispatchedIsFinite DEF HooksInvariant, RunFits
    <3>4. i # <<e, n>>
      BY <2>2, <3>3 DEF Dispatched, InboundAt, NoRun
    <3> HIDE DEF n
    <3> QED
      BY <2>2, <3>1, <3>2, <3>4 DEF InboundAt
  <2> QED
    BY <2>1, <2>2
       DEF HookJobStep, LookUp, RecordEvent, SetOutcome, BlockAddress, BlockProspect,
           MarkProcessed, InboundAt
<1>3. \A d \in Events : d # e /\ HookAt(d, "mark") => HookAt(d, "mark")'
  BY <1>1
     DEF HookJobStep, LookUp, RecordEvent, SetOutcome, BlockAddress, BlockProspect,
         DispatchReply, MarkProcessed, HookAdvance, HookAt
<1>4. CASE BlockAddress(e)
  <2>1. hookJob' = [hookJob EXCEPT ![e].at = PlaceAfter(e, "list")]
    BY <1>4, AdvanceKeepsShape DEF BlockAddress, HookAt
  <2>2. HookAt(e, "mark")'
    BY <1>1, <1>4, <2>1 DEF BlockAddress, HookAt, PlaceAfter, HookRun
  <2>3. UNCHANGED prospect /\ blocked' = blocked \cup {e.about}
    BY <1>4 DEF BlockAddress, SendVars
  <2> QED
    BY <1>2, <1>3, <2>2, <2>3 DEF ListedLeadIsBlocked
<1>5. CASE BlockProspect(e)
  <2>1. prospect'[e.about].valid # "VALID"
    BY <1>1, <1>5 DEF BlockProspect, BlockedRow, NoRow, RepliesShape
  <2>2. \A a \in Addresses : a # e.about => prospect'[a] = prospect[a]
    BY <1>5 DEF BlockProspect, RepliesShape
  <2>3. UNCHANGED blocked
    BY <1>5 DEF BlockProspect
  <2>4. ListedRest
    BY <1>2, <1>3, <2>1, <2>2, <2>3 DEF ListedRest
  <2> QED
    BY <2>4, ListedKept
<1>6. CASE ~BlockAddress(e) /\ ~BlockProspect(e)
  <2>1. ~HookAt(e, "mark") /\ UNCHANGED <<blocked, prospect>>
    BY <1>6
       DEF HookJobStep, LookUp, RecordEvent, SetOutcome, DispatchReply, MarkProcessed,
           HookAt, SendVars
  <2>2. ListedRest
    BY <1>2, <1>3, <2>1 DEF ListedRest
  <2> QED
    BY <2>2, ListedKept
<1> QED
  BY <1>4, <1>5, <1>6

LEMMA InboundKeepsListed ==
    ASSUME RepliesShape, ListedLeadIsBlocked, NEW i \in InboundIds, InboundStep(i)
    PROVE  ListedLeadIsBlocked'
<1>1. /\ inboundJob \in [InboundIds -> InboundRun] /\ Sender(i) \in Addresses
      /\ prospect \in [Addresses -> Row]
  BY InboundFields DEF RepliesShape
<1>2. UNCHANGED hookJob
  BY DEF InboundStep, LocateLead, CreateLead, FindConversation, CreateConversation,
         ClassifyReply, ProviderFails, BlockSender, MarkSender, StoreInbound, NoInboundChange
<1>3. \A j \in InboundIds : j # i => inboundJob'[j] = inboundJob[j]
  BY <1>1
     DEF InboundStep, LocateLead, CreateLead, FindConversation, CreateConversation,
         ClassifyReply, ProviderFails, BlockSender, MarkSender, StoreInbound, InboundGoto,
         InboundEnds
<1>4. CASE BlockSender(i)
  <2>1. InboundAt(i, "mark")'
    BY <1>1, <1>4 DEF BlockSender, InboundGoto, InboundAt, InboundRun
  <2>2. UNCHANGED <<prospect, gap>> /\ blocked' = blocked \cup {Sender(i)}
    BY <1>4 DEF BlockSender
  <2>3. \A j \in InboundIds : InboundAt(j, "mark") => InboundAt(j, "mark")'
    BY <1>3, <2>1 DEF InboundAt
  <2> QED
    BY <1>2, <2>1, <2>2, <2>3 DEF ListedLeadIsBlocked, HookAt
<1>5. CASE MarkSender(i)
  <2>1. prospect'[Sender(i)].valid # "VALID"
    BY <1>1, <1>5 DEF MarkSender, BlockedRow, NoRow
  <2>2. \A a \in Addresses : a # Sender(i) => prospect'[a] = prospect[a]
    BY <1>1, <1>5 DEF MarkSender
  <2>3. UNCHANGED <<blocked, gap>>
    BY <1>5 DEF MarkSender
  <2>4. ListedRest
    BY <1>2, <1>3, <2>1, <2>2, <2>3 DEF ListedRest, HookAt, InboundAt
  <2> QED
    BY <2>4, ListedKept
<1>6. CASE CreateLead(i)
  <2>1. ~InboundAt(i, "mark") /\ UNCHANGED blocked
    BY <1>6 DEF CreateLead, InboundAt
  <2>2. CASE prospect[Sender(i)] # NoRow
    <3>1. UNCHANGED <<prospect, gap>>
      BY <1>6, <2>2 DEF CreateLead
    <3>2. ListedRest
      BY <1>2, <1>3, <2>1, <3>1 DEF ListedRest, HookAt, InboundAt
    <3> QED
      BY <3>2, ListedKept
  <2>3. CASE prospect[Sender(i)] = NoRow
    <3>1. /\ gap' = gap \cup ({Sender(i)} \cap blocked)
          /\ \A a \in Addresses : a # Sender(i) => prospect'[a] = prospect[a]
      BY <1>1, <1>6, <2>3 DEF CreateLead
    <3> SUFFICES ASSUME NEW a \in blocked'
                 PROVE  \/ prospect'[a].valid # "VALID"
                        \/ \E e \in Events : e.about = a /\ HookAt(e, "mark")'
                        \/ \E j \in InboundIds : Sender(j) = a /\ InboundAt(j, "mark")'
                        \/ a \in gap'
      BY DEF ListedLeadIsBlocked
    <3>2. CASE a = Sender(i)
      BY <2>1, <3>1, <3>2
    <3>3. CASE a # Sender(i)
      <4>1. a \in Addresses /\ a \in blocked /\ prospect'[a] = prospect[a]
        BY <2>1, <3>1, <3>3 DEF RepliesShape
      <4>2. \A j \in InboundIds : InboundAt(j, "mark") => InboundAt(j, "mark")'
        BY <1>3, <2>1 DEF InboundAt
      <4> QED
        BY <1>2, <3>1, <4>1, <4>2 DEF ListedLeadIsBlocked, HookAt
    <3> QED
      BY <3>2, <3>3
  <2> QED
    BY <2>2, <2>3
<1>7. CASE ~BlockSender(i) /\ ~MarkSender(i) /\ ~CreateLead(i)
  <2>1. ~InboundAt(i, "mark") /\ UNCHANGED <<blocked, gap>>
    BY <1>7
       DEF InboundStep, LocateLead, FindConversation, CreateConversation, ClassifyReply,
           ProviderFails, StoreInbound, InboundAt
  <2>2. \A a \in Addresses : prospect'[a].valid = prospect[a].valid
    <3>1. CASE StoreInbound(i)
      BY <3>1, StageKeepsValid DEF StoreInbound
    <3> QED
      BY <1>7, <3>1
         DEF InboundStep, LocateLead, FindConversation, CreateConversation, ClassifyReply,
             ProviderFails
  <2>3. ListedRest
    BY <1>2, <1>3, <2>1, <2>2 DEF ListedRest, HookAt, InboundAt
  <2> QED
    BY <2>3, ListedKept
<1> QED
  BY <1>4, <1>5, <1>6, <1>7

LEMMA WorkerCrashKeepsListed ==
    ASSUME RepliesShape, RepliesWorkerCrash
    PROVE  ListedRest
<1>1. UNCHANGED <<blocked, prospect>>
  BY DEF RepliesWorkerCrash
<1>2. \A a : a \in gap => a \in gap'
  BY DEF RepliesWorkerCrash
<1>3. \A e \in Events : HookAt(e, "mark") => e.about \in gap'
  BY DEF RepliesWorkerCrash, HookAt
<1>4. \A i \in InboundIds : InboundAt(i, "mark") => Sender(i) \in gap'
  BY DEF RepliesWorkerCrash, InboundAt
<1> QED
  BY <1>1, <1>2, <1>3, <1>4 DEF ListedRest

(***************************************************************************)
(* The lead of a listed address is not selectable again, whatever stages   *)
(* sends, replies and people write over it afterwards: for any number of   *)
(* events, replies and addresses (webhook.processor:104-122,               *)
(* inbound-email.processor).                                               *)
(***************************************************************************)
THEOREM ListedLeadsAreBlocked == RepliesSpec => []ListedLeadIsBlocked
<1>1. RepliesInit => ListedLeadIsBlocked
  BY DEF RepliesInit, ListedLeadIsBlocked
<1>2. /\ RepliesShape /\ HooksInvariant /\ ListedLeadIsBlocked /\ [RepliesNext]_repliesVars
      => ListedLeadIsBlocked'
  BY OthersKeepListed, HookJobKeepsListed, InboundKeepsListed, WorkerCrashKeepsListed, ListedKept
     DEF RepliesNext
<1> QED
  BY <1>1, <1>2, HooksAreKept, PTL DEF RepliesSpec

-----------------------------------------------------------------------------
(* Outcomes the provider reported *)

Outcomes == {"DELIVERED", "BOUNCED", "COMPLAINED", "REPLIED"}

\* A mail whose send has recorded the provider's id is past its hand-off, or its
\* worker died; only such a mail has an outcome; an inbox request works on a mail
\* of its own that nobody sends yet.
OutcomeInvariant ==
    /\ \A m \in Mails :
          /\ mail[m].recorded => mail[m].send \in {"attribute", "ended"} \/ mail[m].stalls > 0
          /\ mail[m].send = "idle" => ~mail[m].recorded
          /\ mail[m].status \in Outcomes => mail[m].recorded
          /\ mail[m].status = "none" => mail[m].send = "idle"
    /\ \A e \in Events : hookJob[e].state = "active" /\ hookJob[e].found => mail[e.mail].recorded
    /\ \A q \in replies : /\ mail[q.mail].send = "idle"
                          /\ q.at = "create" => mail[q.mail].status = "none"
                          /\ q.at = "enqueue" => mail[q.mail].status # "none"
    /\ \A q, p \in replies : q.mail = p.mail => q = p

LEMMA OutcomesStart == RepliesInit => OutcomeInvariant
<1> SUFFICES ASSUME RepliesInit PROVE OutcomeInvariant
  OBVIOUS
<1>1. ASSUME NEW m \in Mails
      PROVE  /\ ~mail[m].recorded /\ mail[m].status \in {"none", "APPROVED"}
             /\ mail[m].status = "none" => mail[m].send = "idle"
  <2>1. mail \in [Mails -> [status : {"none", "APPROVED"}, recorded : {FALSE},
                           to : Prospects \cup {NoAddress}, send : {"idle", "waiting"},
                           stalls : {0}]]
    BY DEF RepliesInit
  <2>2. mail[m].status \in {"none", "APPROVED"} /\ mail[m].send \in {"idle", "waiting"}
    BY <2>1
  <2>3. mail[m].recorded \in {FALSE}
    BY <2>1
  <2>4. mail[m].status = "none" => mail[m].send # "waiting"
    BY DEF RepliesInit
  <2> QED
    BY <2>2, <2>3, <2>4
<1>2. /\ replies = {}
      /\ \A e \in Events : hookJob[e].state # "active"
  BY DEF RepliesInit, NoRun
<1> QED
  BY <1>1, <1>2 DEF OutcomeInvariant, Outcomes

\* An inbox request writes a mail of the inbox's own.
LEMMA RepliesWorkOnReplies ==
    ASSUME RepliesShape, NEW q \in replies
    PROVE  q.mail \in Mails /\ q.at \in {"create", "enqueue"}
  BY DEF RepliesShape, Mails

\* What a step does to the mails, and what the provider said of them.
LEMMA OutcomeStep ==
    ASSUME RepliesShape, RepliesShape', OutcomeInvariant, [RepliesNext]_repliesVars
    PROVE  /\ OutcomeInvariant'
           /\ \A m \in Mails :
                 mail[m].status \in Outcomes /\ mail'[m].status \in {"SENT", "FAILED"} =>
                    mail[m].stalls > 0
<1> DEFINE Written ==
        \A m \in Mails : mail[m].status \in Outcomes /\ mail'[m].status \in {"SENT", "FAILED"} =>
                             mail[m].stalls > 0
<1>1. mail \in [Mails -> MailRow] /\ hookJob \in [Events -> HookRun]
  BY DEF RepliesShape
<1>2. CASE UNCHANGED <<mail, hookJob, replies>>
  BY <1>2 DEF OutcomeInvariant, Outcomes
<1>3. ASSUME NEW m \in Mails, RepliesSendStep(m)
      PROVE  OutcomeInvariant' /\ Written
  <2>1. UNCHANGED <<hookJob, replies>> /\ \A n \in Mails : n # m => mail'[n] = mail[n]
    BY <1>1, <1>3
       DEF RepliesSendStep, CheckAndHand, CommitSent, AttributeMail, NoSendChange
  <2>2. /\ mail[m].send \in {"waiting", "record", "attribute"}
        /\ mail'[m].send \in {"record", "attribute", "ended"}
        /\ mail'[m].stalls = mail[m].stalls
        /\ mail[m].send # "attribute" =>
              mail'[m].status \in {"SENT", "FAILED"} \/ mail'[m].status = mail[m].status
        /\ mail[m].send = "attribute" => mail'[m].status = mail[m].status
        /\ mail[m].recorded => mail'[m].recorded
        /\ mail'[m].recorded => mail[m].recorded \/ mail'[m].send = "attribute"
        /\ mail'[m].send = "record" => mail[m].send = "waiting"
    <3>1. CASE CheckAndHand(m)
      BY <1>1, <3>1 DEF CheckAndHand, SendAt, MailRow
    <3>2. CASE CommitSent(m)
      BY <1>1, <3>2 DEF CommitSent, SendAt, MailRow
    <3>3. CASE AttributeMail(m)
      BY <1>1, <3>3 DEF AttributeMail, SendAt, MailRow
    <3> QED
      BY <1>3, <3>1, <3>2, <3>3 DEF RepliesSendStep
  <2>3. ASSUME NEW q \in replies
        PROVE  q.mail # m /\ q.mail \in Mails
    <3>1. q.mail \in Mails
      BY RepliesWorkOnReplies
    <3>2. mail[q.mail].send = "idle"
      BY DEF OutcomeInvariant
    <3> QED
      BY <2>2, <3>1, <3>2
  <2>4. Written
    BY <2>1, <2>2 DEF OutcomeInvariant, Outcomes
  <2>5. OutcomeInvariant'
    <3>1. ASSUME NEW n \in Mails
          PROVE  /\ mail'[n].recorded => mail'[n].send \in {"attribute", "ended"} \/ mail'[n].stalls > 0
                 /\ mail'[n].send = "idle" => ~mail'[n].recorded
                 /\ mail'[n].status \in Outcomes => mail'[n].recorded
                 /\ mail'[n].status = "none" => mail'[n].send = "idle"
                 /\ mail[n].recorded => mail'[n].recorded
      BY <2>1, <2>2 DEF OutcomeInvariant, Outcomes
    <3>2. \A e \in Events : e.mail \in Mails
      BY EventFields
    <3> QED
      BY <2>1, <2>3, <3>1, <3>2 DEF OutcomeInvariant
  <2> QED
    BY <2>4, <2>5
<1>4. ASSUME NEW e \in Events, HookJobStep(e)
      PROVE  OutcomeInvariant' /\ Written
  <2>1. UNCHANGED replies
    BY <1>4 DEF HookJobStep, LookUp, RecordEvent, SetOutcome, BlockAddress, BlockProspect,
                DispatchReply, MarkProcessed, NoProcessorChange
  <2>2. /\ hookJob'[e].state = "active" /\ hookJob'[e].found => mail[e.mail].recorded
        /\ \A d \in Events : d # e => hookJob'[d] = hookJob[d]
    <3>1. CASE LookUp(e)
      BY <1>1, <3>1 DEF LookUp, HookRun
    <3>2. CASE MarkProcessed(e)
      BY <1>1, <3>2 DEF MarkProcessed, NoRun
    <3>3. ASSUME NEW at, HookAt(e, at), HookAdvance(e)
          PROVE  /\ hookJob'[e].state = "active" /\ hookJob'[e].found => mail[e.mail].recorded
                 /\ \A d \in Events : d # e => hookJob'[d] = hookJob[d]
      BY <1>1, <3>3 DEF HookAt, HookAdvance, HookRun, OutcomeInvariant
    <3> QED
      BY <1>4, <3>1, <3>2, <3>3
         DEF HookJobStep, RecordEvent, SetOutcome, BlockAddress, BlockProspect, DispatchReply
  <2>3. CASE SetOutcome(e)
    <3>1. hookJob[e].state = "active" /\ hookJob[e].at = "status"
      BY <2>3 DEF SetOutcome, HookAt
    <3>2. hookJob[e].found /\ StatusOf(e.kind) # "none"
      BY <3>1 DEF RepliesShape, Planned
    <3>3. mail[e.mail].recorded /\ e.mail \in Mails
      BY <3>1, <3>2, EventFields DEF OutcomeInvariant
    <3>4. /\ mail'[e.mail].status = StatusOf(e.kind) /\ StatusOf(e.kind) \in Outcomes
          /\ mail'[e.mail].recorded = mail[e.mail].recorded
          /\ mail'[e.mail].send = mail[e.mail].send
          /\ mail'[e.mail].stalls = mail[e.mail].stalls
          /\ \A n \in Mails : n # e.mail => mail'[n] = mail[n]
      BY <1>1, <2>3, <3>2, <3>3 DEF SetOutcome, MailRow, StatusOf, Outcomes
    <3>5. Written
      BY <3>4 DEF Outcomes
    <3>6. ASSUME NEW n \in Mails
          PROVE  /\ mail'[n].recorded => mail'[n].send \in {"attribute", "ended"} \/ mail'[n].stalls > 0
                 /\ mail'[n].send = "idle" => ~mail'[n].recorded
                 /\ mail'[n].status \in Outcomes => mail'[n].recorded
                 /\ mail'[n].status = "none" => mail'[n].send = "idle"
                 /\ mail[n].recorded => mail'[n].recorded
                 /\ mail'[n].send = mail[n].send
      <4>1. /\ mail[n].recorded => mail[n].send \in {"attribute", "ended"} \/ mail[n].stalls > 0
            /\ mail[n].send = "idle" => ~mail[n].recorded
            /\ mail[n].status \in Outcomes => mail[n].recorded
            /\ mail[n].status = "none" => mail[n].send = "idle"
        BY DEF OutcomeInvariant
      <4>2. CASE n = e.mail
        BY <3>3, <3>4, <4>1, <4>2 DEF Outcomes
      <4>3. CASE n # e.mail
        BY <3>4, <4>1, <4>3
      <4> QED
        BY <4>2, <4>3
    <3>7. ASSUME NEW q \in replies
          PROVE  q.mail # e.mail /\ q.mail \in Mails
      <4>1. q.mail \in Mails
        BY RepliesWorkOnReplies
      <4>2. mail[q.mail].send = "idle"
        BY DEF OutcomeInvariant
      <4> QED
        BY <3>3, <4>1, <4>2 DEF OutcomeInvariant
    <3>8. \A d \in Events : d.mail \in Mails
      BY EventFields
    <3> QED
      BY <2>1, <2>2, <3>4, <3>5, <3>6, <3>7, <3>8 DEF OutcomeInvariant
  <2>4. CASE ~SetOutcome(e)
    <3>1. UNCHANGED mail
      BY <1>4, <2>4 DEF HookJobStep, LookUp, RecordEvent, BlockAddress, BlockProspect,
                        DispatchReply, MarkProcessed, SendVars
    <3> QED
      BY <2>1, <2>2, <3>1 DEF OutcomeInvariant, Outcomes
  <2> QED
    BY <2>3, <2>4
<1>5. ASSUME NEW q \in hooks, EnqueueEvent(q)
      PROVE  OutcomeInvariant' /\ Written
  <2>1. UNCHANGED <<mail, replies>>
    BY <1>5 DEF EnqueueEvent, NoHookChange, SendVars
  <2>2. \A e \in Events : hookJob'[e].state = "active" => hookJob'[e] = hookJob[e]
    BY <1>1, <1>5 DEF EnqueueEvent, NoRun
  <2> QED
    BY <2>1, <2>2 DEF OutcomeInvariant, Outcomes
<1>6. ASSUME NEW t \in talks, NEW m \in ReplyMails, NEW stage \in {"none", "INTERESTED"},
             CheckReply(t, m, stage)
      PROVE  OutcomeInvariant' /\ Written
  <2> DEFINE new == [mail |-> m, to |-> t[1], stage |-> stage, at |-> "create"]
  <2>1. /\ UNCHANGED <<mail, hookJob>> /\ replies' = replies \cup {new}
        /\ mail[m].status = "none" /\ \A q \in replies : q.mail # m
    BY <1>6 DEF CheckReply, NoReplyChange
  <2>2. new.mail = m /\ new.at = "create" /\ m \in Mails
    BY DEF Mails
  <2> HIDE DEF new
  <2> QED
    BY <2>1, <2>2 DEF OutcomeInvariant, Outcomes
<1>7. ASSUME NEW q \in replies, CreateReply(q) \/ EnqueueReply(q)
      PROVE  OutcomeInvariant' /\ Written
  <2>1. /\ UNCHANGED hookJob /\ q.mail \in Mails
        /\ q.at \in {"create", "enqueue"}
        /\ mail[q.mail].send = "idle" /\ ~mail[q.mail].recorded
        /\ mail[q.mail].status \notin Outcomes
    <3>1. q.mail \in Mails /\ q.at \in {"create", "enqueue"}
      BY RepliesWorkOnReplies
    <3>2. mail[q.mail].send = "idle"
      BY DEF OutcomeInvariant
    <3>3. ~mail[q.mail].recorded /\ mail[q.mail].status \notin Outcomes
      BY <3>1, <3>2 DEF OutcomeInvariant
    <3>4. UNCHANGED hookJob
      BY <1>7 DEF CreateReply, EnqueueReply, NoReplyChange
    <3> QED
      BY <3>1, <3>2, <3>3, <3>4
  <2>2. \A p \in replies : p # q => p.mail # q.mail /\ p.mail \in Mails
    BY RepliesWorkOnReplies DEF OutcomeInvariant
  <2>3. /\ \A n \in Mails : n # q.mail => mail'[n] = mail[n]
        /\ mail'[q.mail].recorded = mail[q.mail].recorded
        /\ mail'[q.mail].status \in {"APPROVED", mail[q.mail].status}
    BY <1>1, <1>7, <2>1 DEF CreateReply, EnqueueReply, MailRow
  <2>4. CASE CreateReply(q)
    <3> DEFINE p == [q EXCEPT !.at = "enqueue"]
    <3>1. mail'[q.mail].status = "APPROVED" /\ mail'[q.mail].send = "idle"
      BY <1>1, <2>1, <2>4 DEF CreateReply, MailRow
    <3>2. replies' = (replies \ {q}) \cup {p} /\ p.mail = q.mail /\ p.at = "enqueue"
      BY <2>4 DEF CreateReply, RepliesShape
    <3> HIDE DEF p
    <3> QED
      BY <2>1, <2>2, <2>3, <3>1, <3>2, EventFields DEF OutcomeInvariant, Outcomes
  <2>5. CASE EnqueueReply(q)
    <3>1. /\ mail'[q.mail].send = "waiting" /\ replies' = replies \ {q}
          /\ mail'[q.mail].status = mail[q.mail].status
      BY <1>1, <2>1, <2>5 DEF EnqueueReply, MailRow
    <3>2. mail[q.mail].status # "none"
      BY <2>5 DEF EnqueueReply, OutcomeInvariant
    <3> QED
      BY <2>1, <2>2, <2>3, <3>1, <3>2, EventFields DEF OutcomeInvariant, Outcomes
  <2> QED
    BY <1>7, <2>4, <2>5
<1>8. CASE RepliesWorkerCrash
  <2>1. \A e \in Events : hookJob'[e].state # "active"
    BY <1>1, <1>8 DEF RepliesWorkerCrash, Stalled, HookRun
  <2>2. ASSUME NEW m \in Mails
        PROVE  /\ mail'[m].status = mail[m].status /\ mail'[m].recorded = mail[m].recorded
               /\ mail'[m].send = "idle" <=> mail[m].send = "idle"
               /\ mail'[m] = mail[m] \/ mail'[m].stalls > 0
    <3>1. mail[m] \in MailRow /\ mail[m].stalls \in Nat
      BY <1>1 DEF MailRow
    <3>2. CASE mail[m].send \in {"record", "attribute"}
      <4>1. mail'[m] = [mail[m] EXCEPT !.stalls = @ + 1,
                          !.send = IF mail[m].stalls < MaxStalls THEN "waiting" ELSE "ended"]
        BY <1>8, <3>2 DEF RepliesWorkerCrash
      <4>2. mail'[m].stalls = mail[m].stalls + 1 /\ mail'[m].send \in {"waiting", "ended"}
        BY <3>1, <4>1 DEF MailRow
      <4> QED
        BY <3>1, <3>2, <4>1, <4>2 DEF MailRow
    <3>3. CASE mail[m].send \notin {"record", "attribute"}
      BY <1>8, <3>3 DEF RepliesWorkerCrash
    <3> QED
      BY <3>2, <3>3
  <2>3. UNCHANGED replies /\ \A q \in replies : q.mail \in Mails
    BY <1>8 DEF RepliesWorkerCrash, RepliesShape, Mails
  <2> QED
    BY <2>1, <2>2, <2>3 DEF OutcomeInvariant, Outcomes
<1>9. CASE RepliesApiCrash
  BY <1>9 DEF RepliesApiCrash, SendVars, OutcomeInvariant, Outcomes
<1>10. ASSUME NEW i \in InboundIds, InboundStep(i)
       PROVE  UNCHANGED <<mail, hookJob, replies>>
  BY <1>10
     DEF InboundStep, LocateLead, CreateLead, FindConversation, CreateConversation,
         ClassifyReply, ProviderFails, BlockSender, MarkSender, StoreInbound, NoInboundChange
<1>11. ASSUME NEW e \in Events, ReceiveWebhook(e)
       PROVE  UNCHANGED <<mail, hookJob, replies>>
  BY <1>11 DEF ReceiveWebhook, NoHookChange, SendVars
<1>12. ASSUME NEW q \in hooks, StoreEvent(q)
       PROVE  UNCHANGED <<mail, hookJob, replies>>
  BY <1>12 DEF StoreEvent, NoHookChange, SendVars
<1> QED
  BY <1>2, <1>3, <1>4, <1>5, <1>6, <1>7, <1>8, <1>9, <1>10, <1>11, <1>12
     DEF RepliesNext, HookRequestStep, InboxStep, repliesVars

(***************************************************************************)
(* No send writes SENT or FAILED over what the provider said of its mail,  *)
(* unless its worker died: for any number of mails, events and deliveries  *)
(* (webhook.processor:31, email-send.processor:150).                       *)
(***************************************************************************)
THEOREM OutcomesAreNotOverwritten == RepliesSpec => OutcomeIsNotOverwritten
<1>1. RepliesInit => OutcomeInvariant
  BY OutcomesStart
<1>2. /\ RepliesShape /\ RepliesShape' /\ OutcomeInvariant /\ [RepliesNext]_repliesVars
      => OutcomeInvariant'
  BY OutcomeStep
<1>3. /\ RepliesShape /\ RepliesShape' /\ OutcomeInvariant /\ [RepliesNext]_repliesVars
      => [\A m \in Mails :
            mail[m].status \in {"DELIVERED", "BOUNCED", "COMPLAINED", "REPLIED"}
              /\ mail'[m].status \in {"SENT", "FAILED"} => mail[m].stalls > 0]_repliesVars
  BY OutcomeStep DEF Outcomes
<1> QED
  BY <1>1, <1>2, <1>3, HooksAreKept, PTL DEF RepliesSpec, OutcomeIsNotOverwritten

-----------------------------------------------------------------------------
(* Lead rows: whoever is written to, or writes, has one *)

FullRow == [crm : Stages, valid : {"VALID", "SUPPRESSED"}]
HasRow(a) == prospect[a] # NoRow

\* A run of an inbound job that found or made the sender's lead.
Located(i) == inboundJob[i].state = "active" /\ inboundJob[i].at \notin {"start", "newLead"}

LeadRowsInvariant ==
    /\ prospect \in [Addresses -> FullRow \cup {NoRow}]
    /\ \A m \in Mails : mail[m].to # NoAddress => HasRow(mail[m].to)
    /\ \A q \in replies : HasRow(q.to)
    /\ \A t \in talks : HasRow(t[1])
    /\ \A i \in InboundIds : Located(i) => HasRow(Sender(i))

LEMMA FullRowIsNoRow == \A row \in FullRow : row # NoRow
  BY DEF FullRow, NoRow, Stages

LEMMA LeadRowsStart == RepliesInit => LeadRowsInvariant
<1> SUFFICES ASSUME RepliesInit PROVE LeadRowsInvariant
  OBVIOUS
<1>1. prospect \in [Addresses -> FullRow \cup {NoRow}]
  BY DEF RepliesInit, FullRow, Stages
<1>2. \A a \in Prospects : HasRow(a)
  <2>1. \A a \in Prospects : prospect[a] = [crm |-> "IMPORTED", valid |-> "VALID"]
    BY DEF RepliesInit, Addresses
  <2>2. [crm |-> "IMPORTED", valid |-> "VALID"] \in FullRow
    BY DEF FullRow, Stages
  <2> QED
    BY <2>1, <2>2, FullRowIsNoRow DEF HasRow
<1>3. \A m \in Mails : mail[m].to \in Prospects \cup {NoAddress}
  <2>1. mail \in [Mails -> [status : {"none", "APPROVED"}, recorded : {FALSE},
                           to : Prospects \cup {NoAddress}, send : {"idle", "waiting"},
                           stalls : {0}]]
    BY DEF RepliesInit
  <2> QED
    BY <2>1
<1>4. \A i \in InboundIds : ~Located(i)
  BY DEF RepliesInit, NoRun, Located
<1> QED
  BY <1>1, <1>2, <1>3, <1>4 DEF RepliesInit, LeadRowsInvariant

\* No lead row goes away, so only what a step writes to anew needs one.
LEMMA RowsKept ==
    ASSUME LeadRowsInvariant,
           prospect' \in [Addresses -> FullRow \cup {NoRow}],
           \A a \in Addresses : HasRow(a) => HasRow(a)',
           RepliesShape,
           \A m \in Mails : mail'[m].to \in {mail[m].to, NoAddress},
           replies' \subseteq replies, talks' = talks,
           \A i \in InboundIds : Located(i)' => Located(i)
    PROVE  LeadRowsInvariant'
<1>1. \A m \in Mails : mail[m].to \in Addresses \cup {NoAddress}
  BY DEF RepliesShape, MailRow
<1>2. /\ \A q \in replies : q.to \in Addresses
      /\ \A t \in talks : t[1] \in Addresses
  BY DEF RepliesShape
<1>3. \A i \in InboundIds : Sender(i) \in Addresses
  BY InboundFields
<1>4. \A m \in Mails : mail'[m].to # NoAddress => HasRow(mail[m].to)' /\ mail'[m].to = mail[m].to
  BY <1>1 DEF LeadRowsInvariant
<1>5. /\ \A q \in replies' : HasRow(q.to)'
      /\ \A t \in talks' : HasRow(t[1])'
  BY <1>2 DEF LeadRowsInvariant
<1>6. \A i \in InboundIds : Located(i)' => HasRow(Sender(i))'
  BY <1>3 DEF LeadRowsInvariant
<1> QED
  BY <1>4, <1>5, <1>6 DEF LeadRowsInvariant, HasRow, Sender

\* A stage written to a lead that has a row leaves it one.
LEMMA StageKeepsRows ==
    ASSUME LeadRowsInvariant, NEW a, NEW stage \in Stages, a \in Addresses => HasRow(a),
           prospect' = [prospect EXCEPT ![a].crm = stage]
    PROVE  /\ prospect' \in [Addresses -> FullRow \cup {NoRow}]
           /\ \A b \in Addresses : HasRow(b) => HasRow(b)'
<1>1. prospect \in [Addresses -> FullRow \cup {NoRow}]
  BY DEF LeadRowsInvariant
<1>2. \A row \in FullRow : [row EXCEPT !.crm = stage] \in FullRow
  BY DEF FullRow
<1>3. a \in Addresses => prospect[a] \in FullRow
  BY <1>1 DEF HasRow
<1>4. prospect' = [b \in Addresses |-> IF b = a THEN [prospect[a] EXCEPT !.crm = stage]
                                       ELSE prospect[b]]
  BY <1>1
<1> QED
  BY <1>1, <1>2, <1>3, <1>4, FullRowIsNoRow DEF HasRow

\* So does blocking it.
LEMMA BlockKeepsRows ==
    ASSUME LeadRowsInvariant, NEW a,
           prospect' = [prospect EXCEPT ![a] = BlockedRow(prospect[a])]
    PROVE  /\ prospect' \in [Addresses -> FullRow \cup {NoRow}]
           /\ \A b \in Addresses : HasRow(b) => HasRow(b)'
<1>1. prospect \in [Addresses -> FullRow \cup {NoRow}]
  BY DEF LeadRowsInvariant
<1>2. [crm |-> "SUPPRESSED", valid |-> "SUPPRESSED"] \in FullRow
  BY DEF FullRow, Stages
<1>3. prospect' = [b \in Addresses |-> IF b = a THEN BlockedRow(prospect[a]) ELSE prospect[b]]
  BY <1>1
<1> QED
  BY <1>1, <1>2, <1>3, FullRowIsNoRow DEF HasRow, BlockedRow

LEMMA SendKeepsRows ==
    ASSUME RepliesShape, LeadRowsInvariant, NEW m \in Mails, RepliesSendStep(m)
    PROVE  LeadRowsInvariant'
<1>1. mail \in [Mails -> MailRow] /\ \A n \in Mails : mail[n].to \in Addresses \cup {NoAddress}
  BY DEF RepliesShape, MailRow
<1>2. \A n \in Mails : mail'[n].to = mail[n].to
  BY <1>1 DEF RepliesSendStep, CheckAndHand, CommitSent, AttributeMail, MailRow
<1>3. UNCHANGED <<talks, replies, inboundJob>>
  BY DEF RepliesSendStep, CheckAndHand, CommitSent, AttributeMail, NoSendChange
<1>4. /\ prospect' \in [Addresses -> FullRow \cup {NoRow}]
      /\ \A b \in Addresses : HasRow(b) => HasRow(b)'
  <2>1. CASE AttributeMail(m)
    <3>1. prospect' = [prospect EXCEPT ![mail[m].to].crm = "CONTACTED"]
      BY <2>1 DEF AttributeMail
    <3>2. mail[m].to \in Addresses => HasRow(mail[m].to)
      BY RepliesBounds DEF LeadRowsInvariant
    <3>3. "CONTACTED" \in Stages
      BY DEF Stages
    <3> QED
      BY <3>1, <3>2, <3>3, StageKeepsRows
  <2>2. CASE ~AttributeMail(m)
    <3>1. UNCHANGED prospect
      BY <2>2 DEF RepliesSendStep, CheckAndHand, CommitSent
    <3> QED
      BY <3>1 DEF LeadRowsInvariant, HasRow
  <2> QED
    BY <2>1, <2>2
<1> QED
  BY <1>2, <1>3, <1>4, RowsKept DEF Located

LEMMA HookJobKeepsRows ==
    ASSUME RepliesShape, LeadRowsInvariant, NEW e \in Events, HookJobStep(e)
    PROVE  LeadRowsInvariant'
<1>1. \A n \in Mails : mail'[n].to = mail[n].to
  BY DEF HookJobStep, LookUp, RecordEvent, SetOutcome, BlockAddress, BlockProspect, DispatchReply,
         MarkProcessed, SendVars, RepliesShape, MailRow
<1>2. UNCHANGED <<talks, replies>>
  BY DEF HookJobStep, LookUp, RecordEvent, SetOutcome, BlockAddress, BlockProspect, DispatchReply,
         MarkProcessed, NoProcessorChange
<1>3. \A i \in InboundIds : Located(i)' => Located(i)
  <2>1. CASE DispatchReply(e)
    <3>1. PICK n : inboundJob' = [inboundJob EXCEPT ![<<e, n>>].state = "waiting"]
      BY <2>1 DEF DispatchReply
    <3>2. \A i \in InboundIds :
             inboundJob'[i] = inboundJob[i] \/ inboundJob'[i].state = "waiting"
      BY <3>1 DEF RepliesShape, InboundRun
    <3> QED
      BY <3>2 DEF Located
  <2>2. CASE ~DispatchReply(e)
    <3>1. UNCHANGED inboundJob
      BY <2>2 DEF HookJobStep, LookUp, RecordEvent, SetOutcome, BlockAddress, BlockProspect,
                  MarkProcessed
    <3> QED
      BY <3>1 DEF Located
  <2> QED
    BY <2>1, <2>2
<1>4. /\ prospect' \in [Addresses -> FullRow \cup {NoRow}]
      /\ \A b \in Addresses : HasRow(b) => HasRow(b)'
  <2>1. CASE BlockProspect(e)
    BY <2>1, BlockKeepsRows DEF BlockProspect
  <2>2. CASE ~BlockProspect(e)
    <3>1. UNCHANGED prospect
      BY <2>2 DEF HookJobStep, LookUp, RecordEvent, SetOutcome, BlockAddress, DispatchReply,
                  MarkProcessed, SendVars
    <3> QED
      BY <3>1 DEF LeadRowsInvariant, HasRow
  <2> QED
    BY <2>1, <2>2
<1> QED
  BY <1>1, <1>2, <1>3, <1>4, RowsKept

LEMMA InboundKeepsRows ==
    ASSUME RepliesShape, LeadRowsInvariant, NEW i \in InboundIds, InboundStep(i)
    PROVE  LeadRowsInvariant'
<1>1. UNCHANGED <<mail, replies>>
  BY DEF InboundStep, LocateLead, CreateLead, FindConversation, CreateConversation,
         ClassifyReply, ProviderFails, BlockSender, MarkSender, StoreInbound, NoInboundChange
<1>2. Sender(i) \in Addresses
  BY InboundFields
<1>3. \A j \in InboundIds : j # i => inboundJob'[j] = inboundJob[j]
  BY DEF InboundStep, LocateLead, CreateLead, FindConversation, CreateConversation,
         ClassifyReply, ProviderFails, BlockSender, MarkSender, StoreInbound,
         InboundGoto, InboundEnds, RepliesShape
<1>4. /\ prospect' \in [Addresses -> FullRow \cup {NoRow}]
      /\ \A b \in Addresses : HasRow(b) => HasRow(b)'
  <2>1. CASE CreateLead(i)
    <3>1. [crm |-> "REPLIED", valid |-> "VALID"] \in FullRow
      BY DEF FullRow, Stages
    <3> QED
      BY <2>1, <3>1, FullRowIsNoRow DEF CreateLead, LeadRowsInvariant, HasRow
  <2>2. CASE MarkSender(i)
    BY <2>2, BlockKeepsRows DEF MarkSender
  <2>3. CASE StoreInbound(i)
    <3>1. HasRow(Sender(i))
      BY <2>3 DEF StoreInbound, InboundAt, LeadRowsInvariant, Located
    <3>2. StageOf(inboundJob[i].class) \in Stages
      BY DEF StageOf, Stages
    <3>3. prospect' = [prospect EXCEPT ![Sender(i)].crm = StageOf(inboundJob[i].class)]
      BY <2>3 DEF StoreInbound
    <3> QED
      BY <3>1, <3>2, <3>3, StageKeepsRows
  <2>4. CASE ~CreateLead(i) /\ ~MarkSender(i) /\ ~StoreInbound(i)
    <3>1. UNCHANGED prospect
      BY <2>4 DEF InboundStep, LocateLead, FindConversation, CreateConversation, ClassifyReply,
                  ProviderFails, BlockSender
    <3> QED
      BY <3>1 DEF LeadRowsInvariant, HasRow
  <2> QED
    BY <2>1, <2>2, <2>3, <2>4
<1>5. Located(i)' => HasRow(Sender(i))'
  <2>1. CASE LocateLead(i)
    BY <1>2, <2>1 DEF LocateLead, InboundGoto, Located, HasRow, RepliesShape, InboundRun, Sender
  <2>2. CASE CreateLead(i)
    <3>1. CASE prospect[Sender(i)] # NoRow
      BY <2>2, <3>1 DEF CreateLead, InboundEnds, Located, RepliesShape, NoRun
    <3>2. CASE prospect[Sender(i)] = NoRow
      <4>1. prospect'[Sender(i)] = [crm |-> "REPLIED", valid |-> "VALID"]
        BY <1>2, <2>2, <3>2 DEF CreateLead, LeadRowsInvariant
      <4> QED
        BY <4>1 DEF HasRow, NoRow, Sender
    <3> QED
      BY <3>1, <3>2
  <2>3. CASE Located(i)
    BY <1>2, <1>4, <2>3 DEF LeadRowsInvariant, HasRow, Sender
  <2> QED
    BY <2>1, <2>2, <2>3
       DEF InboundStep, FindConversation, CreateConversation, ClassifyReply, ProviderFails,
           BlockSender, MarkSender, StoreInbound, InboundAt, Located
<1>6. ASSUME NEW j \in InboundIds, Located(j)'
      PROVE  HasRow(Sender(j))'
  <2>1. CASE j = i
    BY <1>5, <1>6, <2>1
  <2>2. CASE j # i
    <3>1. Located(j) /\ Sender(j) \in Addresses
      BY <1>3, <1>6, <2>2, InboundFields DEF Located
    <3> QED
      BY <1>4, <3>1 DEF LeadRowsInvariant, HasRow, Sender
  <2> QED
    BY <2>1, <2>2
<1>7. \A t \in talks' : HasRow(t[1])'
  <2>1. ASSUME NEW t \in talks
        PROVE  HasRow(t[1])'
    BY <1>4 DEF LeadRowsInvariant, HasRow, RepliesShape
  <2>2. CASE CreateConversation(i)
    <3>1. HasRow(Sender(i))
      BY <2>2 DEF CreateConversation, InboundAt, LeadRowsInvariant, Located
    <3>2. HasRow(Sender(i))'
      BY <1>2, <1>4, <3>1 DEF HasRow, Sender
    <3> QED
      BY <2>1, <2>2, <3>2 DEF CreateConversation, HasRow, Sender
  <2>3. CASE ~CreateConversation(i)
    <3>1. UNCHANGED talks
      BY <2>3 DEF InboundStep, LocateLead, CreateLead, FindConversation, ClassifyReply,
                  ProviderFails, BlockSender, MarkSender, StoreInbound
    <3> QED
      BY <2>1, <3>1
  <2> QED
    BY <2>2, <2>3
<1>8. /\ \A m \in Mails : mail'[m].to # NoAddress => HasRow(mail[m].to)'
      /\ \A q \in replies' : HasRow(q.to)'
  <2>1. \A m \in Mails : mail[m].to \in Addresses \cup {NoAddress}
    BY DEF RepliesShape, MailRow
  <2> QED
    BY <1>1, <1>4, <2>1 DEF LeadRowsInvariant, HasRow, RepliesShape
<1> QED
  BY <1>4, <1>6, <1>7, <1>8 DEF LeadRowsInvariant, HasRow, Sender

LEMMA LeadRowsStep ==
    ASSUME RepliesShape, LeadRowsInvariant, [RepliesNext]_repliesVars
    PROVE  LeadRowsInvariant'
<1> DEFINE SameRows == /\ prospect' \in [Addresses -> FullRow \cup {NoRow}]
                       /\ \A a \in Addresses : HasRow(a) => HasRow(a)'
<1>1. UNCHANGED prospect => SameRows
  BY DEF LeadRowsInvariant, HasRow
<1>2. UNCHANGED inboundJob => \A i \in InboundIds : Located(i)' => Located(i)
  BY DEF Located
<1>3. CASE UNCHANGED <<prospect, mail, replies, talks, inboundJob>>
  BY <1>1, <1>2, <1>3, RowsKept
<1>4. ASSUME NEW t \in talks, NEW m \in ReplyMails, NEW stage \in {"none", "INTERESTED"},
             CheckReply(t, m, stage)
      PROVE  LeadRowsInvariant'
  <2>1. UNCHANGED <<mail, prospect, talks, inboundJob>>
    BY <1>4 DEF CheckReply, NoReplyChange
  <2>2. HasRow(t[1])
    BY DEF LeadRowsInvariant
  <2>3. \A q \in replies' : q \in replies \/ q.to = t[1]
    BY <1>4 DEF CheckReply
  <2> QED
    BY <2>1, <2>2, <2>3 DEF LeadRowsInvariant, HasRow, Located, Sender
<1>5. ASSUME NEW q \in replies, CreateReply(q)
      PROVE  LeadRowsInvariant'
  <2>1. UNCHANGED <<prospect, talks, inboundJob>>
    BY <1>5 DEF CreateReply, NoReplyChange
  <2>2. HasRow(q.to)
    BY DEF LeadRowsInvariant
  <2>3. \A p \in replies' : p \in replies \/ p.to = q.to
    BY <1>5 DEF CreateReply, RepliesShape
  <2>4. \A m \in Mails : mail'[m].to \in {mail[m].to, q.to}
    BY <1>5 DEF CreateReply, RepliesShape, MailRow
  <2> QED
    BY <2>1, <2>2, <2>3, <2>4 DEF LeadRowsInvariant, HasRow, Located, Sender
<1>6. ASSUME NEW q \in replies, EnqueueReply(q)
      PROVE  LeadRowsInvariant'
  <2>1. SameRows
    <3>1. HasRow(q.to) /\ "INTERESTED" \in Stages
      BY DEF LeadRowsInvariant, Stages
    <3>2. q.stage = "none" \/ q.stage = "INTERESTED"
      BY DEF RepliesShape
    <3> QED
      BY <1>1, <1>6, <3>1, <3>2, StageKeepsRows DEF EnqueueReply
  <2>2. \A m \in Mails : mail'[m].to = mail[m].to
    BY <1>6 DEF EnqueueReply, RepliesShape, MailRow
  <2>3. UNCHANGED <<talks, inboundJob>> /\ replies' \subseteq replies
    BY <1>6 DEF EnqueueReply, NoReplyChange
  <2> QED
    BY <1>2, <2>1, <2>2, <2>3, RowsKept
<1>7. CASE RepliesWorkerCrash
  <2>1. UNCHANGED <<prospect, talks, replies>>
    BY <1>7 DEF RepliesWorkerCrash
  <2>2. \A i \in InboundIds : ~(Located(i)')
    BY <1>7 DEF RepliesWorkerCrash, Located, Stalled, RepliesShape, InboundRun
  <2>3. \A m \in Mails : mail'[m].to = mail[m].to
    BY <1>7 DEF RepliesWorkerCrash, RepliesShape, MailRow
  <2> QED
    BY <1>1, <2>1, <2>2, <2>3, RowsKept
<1>8. CASE RepliesApiCrash
  <2>1. UNCHANGED <<prospect, mail, talks, inboundJob>> /\ replies' = {}
    BY <1>8 DEF RepliesApiCrash, SendVars
  <2> QED
    BY <1>1, <1>2, <2>1, RowsKept
<1>9. ASSUME NEW e \in Events, ReceiveWebhook(e)
      PROVE  UNCHANGED <<prospect, mail, replies, talks, inboundJob>>
  BY <1>9 DEF ReceiveWebhook, NoHookChange, SendVars
<1>10. ASSUME NEW q \in hooks, StoreEvent(q) \/ EnqueueEvent(q)
      PROVE  UNCHANGED <<prospect, mail, replies, talks, inboundJob>>
  BY <1>10 DEF StoreEvent, EnqueueEvent, NoHookChange, SendVars
<1> QED
  BY <1>3, <1>4, <1>5, <1>6, <1>7, <1>8, <1>9, <1>10,
     SendKeepsRows, HookJobKeepsRows, InboundKeepsRows
     DEF RepliesNext, HookRequestStep, InboxStep, repliesVars

-----------------------------------------------------------------------------
(* Conversations: one for each run that found none, and no more than replies *)

RunsOf(a) == {i \in InboundIds : Sender(i) = a /\ inboundJob[i] # NoRun}
Making(a) == {i \in InboundIds : Sender(i) = a /\ InboundAt(i, "newTalk")}

\* Several runs make a conversation each when all of them found none, so those
\* still to be made count with those there are.
TalksInvariant ==
    /\ talks \subseteq Addresses \X (Nat \ {0})
    /\ \A a \in Addresses :
          /\ \E n \in Nat : TalksOf(a) = {a} \X (1 .. n)
          /\ IsFiniteSet(RunsOf(a))
          /\ Cardinality(TalksOf(a)) + Cardinality(Making(a)) <= Cardinality(RunsOf(a))

LEMMA NumberedTalks ==
    ASSUME NEW a, NEW n \in Nat
    PROVE  /\ IsFiniteSet({a} \X (1 .. n))
           /\ Cardinality({a} \X (1 .. n)) = n
           /\ {a} \X (1 .. n + 1) = ({a} \X (1 .. n)) \cup {<<a, n + 1>>}
<1>1. IsFiniteSet({a}) /\ Cardinality({a}) = 1
  BY FS_Singleton
<1>2. IsFiniteSet(1 .. n) /\ Cardinality(1 .. n) = n
  BY FS_Interval
<1>3. /\ IsFiniteSet({a} \X (1 .. n))
      /\ Cardinality({a} \X (1 .. n)) = Cardinality({a}) * Cardinality(1 .. n)
  BY <1>1, <1>2, FS_Product
<1>4. 1 .. n + 1 = (1 .. n) \cup {n + 1}
  OBVIOUS
<1>5. {a} \X (1 .. n + 1) = ({a} \X (1 .. n)) \cup {<<a, n + 1>>}
  BY <1>4
<1> QED
  BY <1>1, <1>2, <1>3, <1>5

LEMMA RunsAreCounted ==
    ASSUME RepliesShape, TalksInvariant, NEW a \in Addresses
    PROVE  /\ Making(a) \subseteq RunsOf(a) /\ IsFiniteSet(Making(a))
           /\ Cardinality(Making(a)) \in Nat /\ Cardinality(RunsOf(a)) \in Nat
           /\ Cardinality(TalksOf(a)) \in Nat
<1>1. Making(a) \subseteq RunsOf(a)
  BY DEF Making, RunsOf, InboundAt, NoRun
<1>2. IsFiniteSet(RunsOf(a))
  BY DEF TalksInvariant
<1>3. PICK n \in Nat : TalksOf(a) = {a} \X (1 .. n)
  BY DEF TalksInvariant
<1> QED
  BY <1>1, <1>2, <1>3, FS_Subset, FS_CardinalityType, NumberedTalks

\* What a step that makes no conversation leaves as it is.
TalksRest ==
    /\ UNCHANGED talks
    /\ \A i \in InboundIds : InboundAt(i, "newTalk")' => InboundAt(i, "newTalk")
    /\ \A i \in InboundIds : inboundJob[i] # NoRun => inboundJob'[i] # NoRun
    /\ \E k : \A i \in InboundIds : i # k /\ inboundJob[i] = NoRun => inboundJob'[i] = NoRun

\* A job more is a conversation allowed more, whether it makes one or not.
LEMMA TalksKept ==
    ASSUME RepliesShape, TalksInvariant, TalksRest
    PROVE  TalksInvariant'
<1> SUFFICES ASSUME NEW a \in Addresses
             PROVE  /\ \E n \in Nat : TalksOf(a)' = {a} \X (1 .. n)
                    /\ IsFiniteSet(RunsOf(a)')
                    /\ Cardinality(TalksOf(a)') + Cardinality(Making(a)')
                         <= Cardinality(RunsOf(a)')
  BY DEF TalksInvariant, TalksRest
<1>1. TalksOf(a)' = TalksOf(a)
  BY DEF TalksOf, TalksRest
<1>2. Making(a)' \subseteq Making(a) /\ RunsOf(a) \subseteq RunsOf(a)'
  BY DEF Making, RunsOf, TalksRest, Sender
<1>3. PICK k : \A i \in InboundIds : i # k /\ inboundJob[i] = NoRun => inboundJob'[i] = NoRun
  BY DEF TalksRest
<1>4. RunsOf(a)' \subseteq RunsOf(a) \cup {k}
  BY <1>3 DEF RunsOf, Sender
<1>5. IsFiniteSet(RunsOf(a)')
  <2>1. IsFiniteSet(RunsOf(a) \cup {k})
    BY FS_AddElement DEF TalksInvariant
  <2> QED
    BY <1>4, <2>1, FS_Subset
<1>6. /\ Cardinality(Making(a)') <= Cardinality(Making(a)) /\ Cardinality(Making(a)') \in Nat
      /\ Cardinality(RunsOf(a)) <= Cardinality(RunsOf(a)') /\ Cardinality(RunsOf(a)') \in Nat
  BY <1>2, <1>5, RunsAreCounted, FS_Subset, FS_CardinalityType
<1>7. Cardinality(TalksOf(a)) + Cardinality(Making(a)) <= Cardinality(RunsOf(a))
  BY DEF TalksInvariant
<1>8. Cardinality(TalksOf(a)') + Cardinality(Making(a)') <= Cardinality(RunsOf(a)')
  BY <1>1, <1>6, <1>7, RunsAreCounted
<1> QED
  BY <1>1, <1>5, <1>8 DEF TalksInvariant

LEMMA TalksStart == RepliesInit => TalksInvariant
<1> SUFFICES ASSUME RepliesInit, NEW a \in Addresses
             PROVE  /\ \E n \in Nat : TalksOf(a) = {a} \X (1 .. n)
                    /\ IsFiniteSet(RunsOf(a))
                    /\ Cardinality(TalksOf(a)) + Cardinality(Making(a)) <= Cardinality(RunsOf(a))
  BY DEF RepliesInit, TalksInvariant
<1>1. TalksOf(a) = {} /\ RunsOf(a) = {} /\ Making(a) = {}
  BY DEF RepliesInit, TalksOf, RunsOf, Making, InboundAt, NoRun
<1>2. {} = {a} \X (1 .. 0)
  OBVIOUS
<1> QED
  BY <1>1, <1>2, FS_EmptySet

\* A run finds no conversation: there is none, and the runs that make one are
\* among those there are.
LEMMA FindKeepsTalks ==
    ASSUME RepliesShape, TalksInvariant, NEW i \in InboundIds, FindConversation(i)
    PROVE  TalksInvariant'
<1>1. UNCHANGED talks /\ InboundAt(i, "talk")
      /\ InboundGoto(i, IF TalksOf(Sender(i)) = {} THEN "newTalk" ELSE "classify")
  BY DEF FindConversation
<1>2. /\ inboundJob'[i] # NoRun /\ inboundJob[i] # NoRun
      /\ \A j \in InboundIds : j # i => inboundJob'[j] = inboundJob[j]
  BY <1>1 DEF InboundGoto, InboundAt, NoRun, RepliesShape, InboundRun
<1>3. CASE TalksOf(Sender(i)) # {}
  <2>1. ~(InboundAt(i, "newTalk")')
    BY <1>1, <1>3 DEF InboundGoto, InboundAt, RepliesShape, InboundRun
  <2>2. TalksRest
    BY <1>1, <1>2, <2>1 DEF TalksRest, InboundAt
  <2> QED
    BY <2>2, TalksKept
<1>4. CASE TalksOf(Sender(i)) = {}
  <2> SUFFICES ASSUME NEW a \in Addresses
               PROVE  /\ \E n \in Nat : TalksOf(a)' = {a} \X (1 .. n)
                      /\ IsFiniteSet(RunsOf(a)')
                      /\ Cardinality(TalksOf(a)') + Cardinality(Making(a)')
                           <= Cardinality(RunsOf(a)')
    BY <1>1 DEF TalksInvariant
  <2>1. TalksOf(a)' = TalksOf(a) /\ RunsOf(a)' = RunsOf(a)
    BY <1>1, <1>2 DEF TalksOf, RunsOf, Sender
  <2>2. CASE a = Sender(i)
    <3>1. Making(a)' \subseteq RunsOf(a)
      BY <2>1 DEF Making, RunsOf, InboundAt, NoRun
    <3>2. Cardinality(Making(a)') \in Nat /\ Cardinality(Making(a)') <= Cardinality(RunsOf(a))
      BY <3>1, FS_Subset, FS_CardinalityType DEF TalksInvariant
    <3>3. Cardinality(TalksOf(a)) = 0
      BY <1>4, <2>2, FS_EmptySet
    <3> QED
      BY <2>1, <3>2, <3>3, RunsAreCounted DEF TalksInvariant
  <2>3. CASE a # Sender(i)
    <3>1. Making(a)' = Making(a)
      BY <1>2, <2>3 DEF Making, InboundAt, Sender
    <3> QED
      BY <2>1, <3>1 DEF TalksInvariant
  <2> QED
    BY <2>2, <2>3
<1> QED
  BY <1>3, <1>4

\* The one it makes is then there, and no longer to be made.
LEMMA CreateKeepsTalks ==
    ASSUME RepliesShape, TalksInvariant, NEW i \in InboundIds, CreateConversation(i)
    PROVE  TalksInvariant'
<1> DEFINE s == Sender(i)
           new == <<s, Cardinality(TalksOf(s)) + 1>>
<1>1. /\ talks' = talks \cup {new} /\ InboundAt(i, "newTalk") /\ InboundGoto(i, "classify")
      /\ s \in Addresses
  BY InboundFields DEF CreateConversation
<1>2. /\ inboundJob'[i] # NoRun /\ inboundJob[i] # NoRun /\ ~(InboundAt(i, "newTalk")')
      /\ \A j \in InboundIds : j # i => inboundJob'[j] = inboundJob[j]
  BY <1>1 DEF InboundGoto, InboundAt, NoRun, RepliesShape, InboundRun
<1>3. \A a \in Addresses : RunsOf(a)' = RunsOf(a)
  BY <1>2 DEF RunsOf, Sender
<1>4. new \in Addresses \X (Nat \ {0})
  BY <1>1, RunsAreCounted
<1> SUFFICES ASSUME NEW a \in Addresses
             PROVE  /\ \E n \in Nat : TalksOf(a)' = {a} \X (1 .. n)
                    /\ Cardinality(TalksOf(a)') + Cardinality(Making(a)')
                         <= Cardinality(RunsOf(a))
  BY <1>1, <1>3, <1>4 DEF TalksInvariant
<1>5. CASE a # s
  <2>1. TalksOf(a)' = TalksOf(a)
    BY <1>1, <1>5 DEF TalksOf
  <2>2. Making(a)' = Making(a)
    BY <1>2, <1>5 DEF Making, InboundAt, Sender
  <2> QED
    BY <2>1, <2>2 DEF TalksInvariant
<1>6. CASE a = s
  <2>1. PICK n \in Nat : TalksOf(a) = {a} \X (1 .. n)
    BY DEF TalksInvariant
  <2>2. Cardinality(TalksOf(a)) = n
    <3>1. Cardinality({a} \X (1 .. n)) = n
      BY NumberedTalks
    <3> QED
      BY <2>1, <3>1
  <2>3. TalksOf(a)' = {a} \X (1 .. n + 1)
    <3>1. TalksOf(a)' = TalksOf(a) \cup {<<a, n + 1>>}
      BY <1>1, <1>6, <2>2 DEF TalksOf
    <3> QED
      BY <2>1, <3>1, NumberedTalks
  <2>4. Cardinality(TalksOf(a)') = n + 1
    <3>1. n + 1 \in Nat
      OBVIOUS
    <3>2. Cardinality({a} \X (1 .. n + 1)) = n + 1
      BY <3>1, NumberedTalks
    <3> QED
      BY <2>3, <3>2
  <2>5. i \in Making(a) /\ Making(a)' = Making(a) \ {i}
    BY <1>1, <1>2, <1>6 DEF Making, InboundAt, Sender
  <2>6. Cardinality(Making(a)') = Cardinality(Making(a)) - 1
    <3>1. IsFiniteSet(Making(a))
      BY RunsAreCounted
    <3>2. Cardinality(Making(a) \ {i}) = Cardinality(Making(a)) - 1
      BY <2>5, <3>1, FS_RemoveElement
    <3> QED
      BY <2>5, <3>2
  <2>7. n + Cardinality(Making(a)) <= Cardinality(RunsOf(a))
    BY <2>2 DEF TalksInvariant
  <2> QED
    BY <2>3, <2>4, <2>6, <2>7, RunsAreCounted
<1> QED
  BY <1>5, <1>6

LEMMA InboundKeepsTalks ==
    ASSUME RepliesShape, TalksInvariant, NEW i \in InboundIds, InboundStep(i)
    PROVE  TalksInvariant'
<1>1. CASE ~FindConversation(i) /\ ~CreateConversation(i)
  <2>1. UNCHANGED talks
    BY <1>1 DEF InboundStep, LocateLead, CreateLead, ClassifyReply, ProviderFails, BlockSender,
                MarkSender, StoreInbound
  <2>2. \A j \in InboundIds : j # i => inboundJob'[j] = inboundJob[j]
    BY DEF InboundStep, LocateLead, CreateLead, FindConversation, CreateConversation,
           ClassifyReply, ProviderFails, BlockSender, MarkSender, StoreInbound,
           InboundGoto, InboundEnds, RepliesShape
  <2>3. /\ inboundJob[i].state \in {"waiting", "active"}
        /\ inboundJob'[i].state # "absent" /\ inboundJob'[i].at # "newTalk"
    <3>1. inboundJob \in [InboundIds -> InboundRun] /\ inboundJob[i] \in InboundRun
      BY DEF RepliesShape
    <3>2. inboundJob[i].state \in {"waiting", "active"}
      BY <1>1
         DEF InboundStep, LocateLead, CreateLead, ClassifyReply, ProviderFails, BlockSender,
             MarkSender, StoreInbound, InboundAt
    <3>3. ASSUME NEW at \in {"newLead", "talk", "list", "mark", "draft"}, InboundGoto(i, at)
          PROVE  inboundJob'[i].state = "active" /\ inboundJob'[i].at = at
      BY <3>1, <3>3 DEF InboundGoto, InboundRun
    <3>4. ASSUME NEW state \in {"failed", "completed"}, InboundEnds(i, state)
          PROVE  inboundJob'[i].state = state /\ inboundJob'[i].at = "start"
      BY <3>1, <3>4 DEF InboundEnds, NoRun
    <3>5. ASSUME NEW class \in ReplyClasses, ClassifyReply(i, class)
          PROVE  inboundJob'[i].state = "active" /\ inboundJob'[i].at \in {"list", "draft"}
      BY <3>1, <3>5 DEF ClassifyReply, InboundAt, InboundRun
    <3> QED
      BY <1>1, <3>2, <3>3, <3>4, <3>5
         DEF InboundStep, LocateLead, CreateLead, ProviderFails, BlockSender, MarkSender,
             StoreInbound
  <2>4. TalksRest
    BY <2>1, <2>2, <2>3 DEF TalksRest, InboundAt, NoRun
  <2> QED
    BY <2>4, TalksKept
<1> QED
  BY <1>1, FindKeepsTalks, CreateKeepsTalks

LEMMA TalksStep ==
    ASSUME RepliesShape, TalksInvariant, [RepliesNext]_repliesVars
    PROVE  TalksInvariant'
<1>1. UNCHANGED <<talks, inboundJob>> => TalksRest
  BY DEF TalksRest, InboundAt
<1>2. ASSUME NEW e \in Events, HookJobStep(e)
      PROVE  TalksRest
  <2>1. UNCHANGED talks
    BY <1>2 DEF HookJobStep, LookUp, RecordEvent, SetOutcome, BlockAddress, BlockProspect,
                DispatchReply, MarkProcessed, NoProcessorChange
  <2>2. CASE DispatchReply(e)
    <3>1. PICK n : inboundJob' = [inboundJob EXCEPT ![<<e, n>>].state = "waiting"]
      BY <2>2 DEF DispatchReply
    <3>2. \A i \in InboundIds :
             IF i = <<e, n>> THEN inboundJob'[i].state = "waiting"
             ELSE inboundJob'[i] = inboundJob[i]
      BY <3>1 DEF RepliesShape, InboundRun
    <3> QED
      BY <2>1, <3>2 DEF TalksRest, InboundAt, NoRun
  <2>3. CASE ~DispatchReply(e)
    <3>1. UNCHANGED inboundJob
      BY <1>2, <2>3 DEF HookJobStep, LookUp, RecordEvent, SetOutcome, BlockAddress,
                        BlockProspect, MarkProcessed
    <3> QED
      BY <1>1, <2>1, <3>1
  <2> QED
    BY <2>2, <2>3
<1>3. CASE RepliesWorkerCrash
  <2>1. UNCHANGED talks
    BY <1>3 DEF RepliesWorkerCrash
  <2>2. ASSUME NEW i \in InboundIds
        PROVE  /\ inboundJob'[i].state # "active"
               /\ inboundJob'[i] = NoRun <=> inboundJob[i] = NoRun
    <3>1. inboundJob'[i] = Stalled(inboundJob[i]) /\ inboundJob[i] \in InboundRun
      BY <1>3 DEF RepliesWorkerCrash, RepliesShape
    <3>2. CASE inboundJob[i].state # "active"
      BY <3>1, <3>2 DEF Stalled
    <3>3. CASE inboundJob[i].state = "active"
      <4>1. inboundJob'[i].state \in {"waiting", "failed"}
        BY <3>1, <3>3 DEF Stalled, InboundRun
      <4> QED
        BY <3>3, <4>1 DEF NoRun
    <3> QED
      BY <3>2, <3>3
  <2>3. \A i \in InboundIds : ~(InboundAt(i, "newTalk")')
    BY <2>2 DEF InboundAt
  <2> QED
    <3>1. \A i \in InboundIds : i # 0 /\ inboundJob[i] = NoRun => inboundJob'[i] = NoRun
      BY <2>2
    <3>2. \A i \in InboundIds : inboundJob[i] # NoRun => inboundJob'[i] # NoRun
      BY <2>2
    <3>3. \E k : \A i \in InboundIds : i # k /\ inboundJob[i] = NoRun => inboundJob'[i] = NoRun
      <4> WITNESS 0
      <4> QED
        BY <3>1
    <3> QED
      BY <2>1, <2>3, <3>2, <3>3, TalksKept DEF TalksRest
<1>4. ASSUME NEW m \in Mails, RepliesSendStep(m)
      PROVE  UNCHANGED <<talks, inboundJob>>
  BY <1>4 DEF RepliesSendStep, CheckAndHand, CommitSent, AttributeMail, NoSendChange
<1>5. ASSUME NEW q \in hooks, StoreEvent(q) \/ EnqueueEvent(q)
      PROVE  UNCHANGED <<talks, inboundJob>>
  BY <1>5 DEF StoreEvent, EnqueueEvent, NoHookChange
<1>6. ASSUME NEW e \in Events, ReceiveWebhook(e)
      PROVE  UNCHANGED <<talks, inboundJob>>
  BY <1>6 DEF ReceiveWebhook, NoHookChange
<1>7. ASSUME NEW t \in talks, NEW m \in ReplyMails, NEW stage \in {"none", "INTERESTED"},
             CheckReply(t, m, stage)
      PROVE  UNCHANGED <<talks, inboundJob>>
  BY <1>7 DEF CheckReply, NoReplyChange
<1>8. ASSUME NEW q \in replies, CreateReply(q) \/ EnqueueReply(q)
      PROVE  UNCHANGED <<talks, inboundJob>>
  BY <1>8 DEF CreateReply, EnqueueReply, NoReplyChange
<1>9. RepliesApiCrash => UNCHANGED <<talks, inboundJob>>
  BY DEF RepliesApiCrash
<1>10. UNCHANGED repliesVars => UNCHANGED <<talks, inboundJob>>
  BY DEF repliesVars
<1> QED
  BY <1>1, <1>2, <1>3, <1>4, <1>5, <1>6, <1>7, <1>8, <1>9, <1>10, TalksKept, InboundKeepsTalks
     DEF RepliesNext, HookRequestStep, InboxStep

(***************************************************************************)
(* No sender gets more conversations than replies of theirs were taken up, *)
(* for any number of replies, runs of them and crashes between them        *)
(* (inbound-email.processor:44-65).                                        *)
(***************************************************************************)
THEOREM ConversationsComeFromReplies == RepliesSpec => []ConversationsAreOfReplies
<1>1. RepliesInit => TalksInvariant
  BY TalksStart
<1>2. RepliesShape /\ TalksInvariant /\ [RepliesNext]_repliesVars => TalksInvariant'
  BY TalksStep
<1>3. RepliesShape /\ TalksInvariant => ConversationsAreOfReplies
  <2> SUFFICES ASSUME RepliesShape, TalksInvariant, NEW a \in Addresses
               PROVE  Cardinality(TalksOf(a)) <= Cardinality(RunsOf(a))
    BY DEF ConversationsAreOfReplies, RunsOf
  <2> QED
    BY RunsAreCounted DEF TalksInvariant
<1> QED
  BY <1>1, <1>2, <1>3, HooksAreKept, PTL DEF RepliesSpec

-----------------------------------------------------------------------------
(* Every row and job stays within the values the code names *)

Targets == {"APPROVED", "SENT", "SUPPRESSED", "DELIVERED", "BOUNCED", "COMPLAINED", "REPLIED"}

\* A send that is not over has not stalled too often.
StallsInvariant ==
    /\ target \in [CampaignMails -> Targets]
    /\ \A m \in Mails :
          /\ mail[m].stalls <= MaxStalls + 1
          /\ mail[m].send # "ended" => mail[m].stalls <= MaxStalls
    /\ \A e \in Events : hookJob[e].stalls <= MaxStalls + 1

LEMMA StallsStart == RepliesInit => StallsInvariant
<1> SUFFICES ASSUME RepliesInit PROVE StallsInvariant
  OBVIOUS
<1>1. \A m \in Mails : mail[m].stalls = 0
  <2>1. mail \in [Mails -> [status : {"none", "APPROVED"}, recorded : {FALSE},
                           to : Prospects \cup {NoAddress}, send : {"idle", "waiting"},
                           stalls : {0}]]
    BY DEF RepliesInit
  <2> QED
    BY <2>1
<1>2. \A e \in Events : hookJob[e].stalls = 0
  BY DEF RepliesInit, NoRun
<1> QED
  BY <1>1, <1>2, RepliesBounds DEF RepliesInit, StallsInvariant, Targets

\* Only a worker that dies counts a stall.
LEMMA StallsKept ==
    ASSUME StallsInvariant, target' \in [CampaignMails -> Targets],
           \A m \in Mails : /\ mail'[m].stalls = mail[m].stalls
                            /\ mail'[m].send # "ended" => mail[m].send # "ended",
           \A e \in Events : hookJob'[e].stalls \in {0, hookJob[e].stalls}
    PROVE  StallsInvariant'
  BY RepliesBounds DEF StallsInvariant

LEMMA SendKeepsStalls ==
    ASSUME RepliesShape, StallsInvariant, NEW m \in Mails, RepliesSendStep(m)
    PROVE  StallsInvariant'
<1>1. target' \in [CampaignMails -> Targets]
  BY DEF RepliesSendStep, CheckAndHand, CommitSent, AttributeMail, StallsInvariant, Targets
<1>2. \A n \in Mails : /\ mail'[n].stalls = mail[n].stalls
                       /\ mail'[n].send # "ended" => mail[n].send # "ended"
  BY DEF RepliesSendStep, CheckAndHand, CommitSent, AttributeMail, SendAt, RepliesShape, MailRow
<1>3. UNCHANGED hookJob
  BY DEF RepliesSendStep, CheckAndHand, CommitSent, AttributeMail, NoSendChange
<1> QED
  BY <1>1, <1>2, <1>3, StallsKept

LEMMA HookJobKeepsStalls ==
    ASSUME RepliesShape, StallsInvariant, NEW e \in Events, HookJobStep(e)
    PROVE  StallsInvariant'
<1>1. hookJob \in [Events -> HookRun] /\ mail \in [Mails -> MailRow]
  BY DEF RepliesShape
<1>2. target' \in [CampaignMails -> Targets]
  <2>1. CASE SetOutcome(e)
    <3>1. HookAt(e, "status")
      BY <2>1 DEF SetOutcome
    <3>2. StatusOf(e.kind) \in Targets
      BY <3>1 DEF HookAt, RepliesShape, Planned, StatusOf, Targets
    <3> QED
      BY <2>1, <3>2 DEF SetOutcome, StallsInvariant
  <2>2. CASE ~SetOutcome(e)
    <3>1. UNCHANGED target
      BY <2>2 DEF HookJobStep, LookUp, RecordEvent, BlockAddress, BlockProspect, DispatchReply,
                  MarkProcessed, SendVars
    <3> QED
      BY <3>1 DEF StallsInvariant
  <2> QED
    BY <2>1, <2>2
<1>3. \A n \in Mails : mail'[n].stalls = mail[n].stalls /\ mail'[n].send = mail[n].send
  BY <1>1 DEF HookJobStep, LookUp, RecordEvent, SetOutcome, BlockAddress, BlockProspect,
              DispatchReply, MarkProcessed, SendVars, MailRow
<1>4. \A d \in Events : hookJob'[d].stalls = hookJob[d].stalls
  <2>1. CASE LookUp(e)
    BY <1>1, <2>1 DEF LookUp, HookRun
  <2>2. CASE MarkProcessed(e)
    BY <1>1, <2>2 DEF MarkProcessed, NoRun
  <2>3. ASSUME HookAdvance(e)
        PROVE  \A d \in Events : hookJob'[d].stalls = hookJob[d].stalls
    BY <1>1, <2>3 DEF HookAdvance, HookRun
  <2> QED
    BY <2>1, <2>2, <2>3
       DEF HookJobStep, RecordEvent, SetOutcome, BlockAddress, BlockProspect, DispatchReply
<1> QED
  BY <1>2, <1>3, <1>4, StallsKept

LEMMA StallsStep ==
    ASSUME RepliesShape, HooksInvariant, OutcomeInvariant, StallsInvariant,
           [RepliesNext]_repliesVars
    PROVE  StallsInvariant'
<1>1. mail \in [Mails -> MailRow] /\ hookJob \in [Events -> HookRun]
  BY DEF RepliesShape
<1>2. CASE UNCHANGED <<target, mail, hookJob>>
  BY <1>2 DEF StallsInvariant
<1>3. ASSUME NEW q \in hooks, EnqueueEvent(q)
      PROVE  StallsInvariant'
  <2>1. UNCHANGED <<target, mail>>
    BY <1>3 DEF EnqueueEvent, NoHookChange, SendVars
  <2>2. \A e \in Events : hookJob'[e].stalls \in {0, hookJob[e].stalls}
    BY <1>1, <1>3 DEF EnqueueEvent, NoRun
  <2> QED
    BY <2>1, <2>2, StallsKept DEF StallsInvariant
<1>4. ASSUME NEW q \in replies, CreateReply(q) \/ EnqueueReply(q)
      PROVE  StallsInvariant'
  <2>1. UNCHANGED <<target, hookJob>> /\ q.mail \in Mails
    BY <1>4, RepliesWorkOnReplies DEF CreateReply, EnqueueReply, NoReplyChange
  <2>2. \A m \in Mails : mail'[m].stalls = mail[m].stalls
    BY <1>1, <1>4 DEF CreateReply, EnqueueReply, MailRow
  <2>3. \A m \in Mails : m # q.mail => mail'[m] = mail[m]
    BY <1>1, <1>4 DEF CreateReply, EnqueueReply
  <2>4. mail[q.mail].send = "idle"
    BY DEF OutcomeInvariant
  <2> QED
    BY <2>1, <2>2, <2>3, <2>4, StallsKept DEF StallsInvariant
<1>5. CASE RepliesWorkerCrash
  <2>1. UNCHANGED target
    BY <1>5 DEF RepliesWorkerCrash
  <2>2. ASSUME NEW m \in Mails
        PROVE  /\ mail'[m].stalls <= MaxStalls + 1
               /\ mail'[m].send # "ended" => mail'[m].stalls <= MaxStalls
    <3>1. mail[m] \in MailRow /\ mail[m].stalls \in Nat /\ MaxStalls \in Nat
      BY <1>1, RepliesBounds DEF MailRow
    <3>2. CASE mail[m].send \in {"record", "attribute"}
      <4>1. mail'[m] = [mail[m] EXCEPT !.stalls = @ + 1,
                          !.send = IF mail[m].stalls < MaxStalls THEN "waiting" ELSE "ended"]
        BY <1>5, <3>2 DEF RepliesWorkerCrash
      <4>2. /\ mail'[m].stalls = mail[m].stalls + 1
            /\ mail'[m].send = IF mail[m].stalls < MaxStalls THEN "waiting" ELSE "ended"
        BY <3>1, <4>1 DEF MailRow
      <4>3. mail[m].stalls <= MaxStalls
        BY <3>2 DEF StallsInvariant
      <4> QED
        BY <3>1, <4>2, <4>3
    <3>3. CASE mail[m].send \notin {"record", "attribute"}
      BY <1>5, <3>3 DEF RepliesWorkerCrash, StallsInvariant
    <3> QED
      BY <3>2, <3>3
  <2>3. ASSUME NEW e \in Events
        PROVE  hookJob'[e].stalls <= MaxStalls + 1
    <3>1. /\ hookJob[e] \in HookRun /\ hookJob[e].stalls \in Nat /\ MaxStalls \in Nat
          /\ hookJob'[e] = Stalled(hookJob[e])
      BY <1>1, <1>5, RepliesBounds DEF RepliesWorkerCrash, HookRun
    <3>2. CASE hookJob[e].state = "active"
      <4>1. hookJob'[e].stalls = hookJob[e].stalls + 1
        BY <3>1, <3>2 DEF Stalled, HookRun
      <4>2. hookJob[e].stalls <= MaxStalls
        BY <3>2 DEF HooksInvariant, RunFits
      <4> QED
        BY <3>1, <4>1, <4>2
    <3>3. CASE hookJob[e].state # "active"
      BY <3>1, <3>3 DEF Stalled, StallsInvariant
    <3> QED
      BY <3>2, <3>3
  <2> QED
    BY <2>1, <2>2, <2>3 DEF StallsInvariant
<1>6. ASSUME NEW t \in talks, NEW m \in ReplyMails, NEW stage \in {"none", "INTERESTED"},
             CheckReply(t, m, stage)
      PROVE  UNCHANGED <<target, mail, hookJob>>
  BY <1>6 DEF CheckReply, NoReplyChange
<1>7. ASSUME NEW e \in Events, ReceiveWebhook(e)
      PROVE  UNCHANGED <<target, mail, hookJob>>
  BY <1>7 DEF ReceiveWebhook, NoHookChange, SendVars
<1>8. ASSUME NEW q \in hooks, StoreEvent(q)
      PROVE  UNCHANGED <<target, mail, hookJob>>
  BY <1>8 DEF StoreEvent, NoHookChange, SendVars
<1>9. ASSUME NEW i \in InboundIds, InboundStep(i)
      PROVE  UNCHANGED <<target, mail, hookJob>>
  BY <1>9
     DEF InboundStep, LocateLead, CreateLead, FindConversation, CreateConversation,
         ClassifyReply, ProviderFails, BlockSender, MarkSender, StoreInbound, NoInboundChange
<1>10. RepliesApiCrash => UNCHANGED <<target, mail, hookJob>>
  BY DEF RepliesApiCrash, SendVars
<1> QED
  BY <1>2, <1>3, <1>4, <1>5, <1>6, <1>7, <1>8, <1>9, <1>10, SendKeepsStalls, HookJobKeepsStalls
     DEF RepliesNext, HookRequestStep, InboxStep, repliesVars

LEMMA TypesHold ==
    ASSUME RepliesShape, HooksInvariant, LeadRowsInvariant, TalksInvariant, StallsInvariant
    PROVE  RepliesTypeOK
<1>1. processed \subseteq stored
  BY DEF RepliesShape, HooksInvariant, QueuedOnce, NothingHappened
<1>2. mail \in [Mails -> [status : {"none", "APPROVED", "SENT", "FAILED", "DELIVERED",
                                   "BOUNCED", "COMPLAINED", "REPLIED"},
                         recorded : BOOLEAN, to : Addresses \cup {NoAddress},
                         send : {"idle", "waiting", "record", "attribute", "ended"},
                         stalls : 0 .. MaxStalls + 1]]
  <2>1. mail \in [Mails -> MailRow]
    BY DEF RepliesShape
  <2>2. ASSUME NEW m \in Mails
        PROVE  mail[m].stalls \in 0 .. MaxStalls + 1
    BY <2>1, RepliesBounds DEF MailRow, StallsInvariant
  <2> QED
    BY <2>1, <2>2 DEF MailRow
<1> QED
  BY <1>1, <1>2
     DEF RepliesTypeOK, RepliesShape, LeadRowsInvariant, FullRow, TalksInvariant,
         StallsInvariant, Targets

(***************************************************************************)
(* Lead rows, mails, recipients, conversations, stored events and jobs     *)
(* stay within the values the code names: whoever a mail is for and        *)
(* whoever answers has a lead row, and nothing stalls more than once more  *)
(* than BullMQ allows.                                                     *)
(***************************************************************************)
THEOREM RepliesAreTyped == RepliesSpec => []RepliesTypeOK
<1>1. RepliesInit => LeadRowsInvariant /\ TalksInvariant /\ OutcomeInvariant /\ StallsInvariant
  BY LeadRowsStart, TalksStart, OutcomesStart, StallsStart
<1>2. /\ RepliesShape /\ RepliesShape' /\ HooksInvariant
      /\ LeadRowsInvariant /\ TalksInvariant /\ OutcomeInvariant /\ StallsInvariant
      /\ [RepliesNext]_repliesVars
      => LeadRowsInvariant' /\ TalksInvariant' /\ OutcomeInvariant' /\ StallsInvariant'
  BY LeadRowsStep, TalksStep, OutcomeStep, StallsStep
<1>3. /\ RepliesShape /\ HooksInvariant /\ LeadRowsInvariant /\ TalksInvariant /\ StallsInvariant
      => RepliesTypeOK
  BY TypesHold
<1> QED
  BY <1>1, <1>2, <1>3, HooksAreKept, PTL DEF RepliesSpec

=============================================================================
