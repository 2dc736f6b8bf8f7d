---------------------------- MODULE ConsoleProofs ----------------------------
(***************************************************************************)
(* For any number of conversations and leads, and any number of requests:  *)
(* a reply goes to the thread its text was loaded for, a campaign made for *)
(* ticked leads names some, the lockout limits the guesses, and every page *)
(* stays within the values it names.                                       *)
(***************************************************************************)
EXTENDS MCConsole, ScreensProofs, TLAPS

-----------------------------------------------------------------------------
(* The inbox page *)

\* What the effect keeps true: below a thread that has loaded is its own text.
TextIsOfThread ==
    selected # NoTalk /\ HasData(thread, selected) => text.of = selected

\* The parts of the page's state the proof steps expand.
InboxShape ==
    /\ text \in [of : Talks \cup {NoTalk}, empty : BOOLEAN]
    /\ selected \in Talks \cup {NoTalk}
    /\ thread \in [Talks -> [data : 0 .. Unseen, fetching : BOOLEAN]]
    /\ news \in [Talks -> 0 .. MaxNews]
    /\ kept \subseteq Talks

InboxInvariant == InboxShape /\ TextIsOfThread /\ ReplyFitsItsThread

\* A fetch that begins or fails takes no thread away.
LEMMA FetchKeepsData ==
    ASSUME InboxShape, NEW t \in Talks, NEW f \in BOOLEAN
    PROVE  /\ [thread EXCEPT ![t].fetching = f] \in [Talks -> [data : 0 .. Unseen, fetching : BOOLEAN]]
           /\ \A u \in Talks : [thread EXCEPT ![t].fetching = f][u].data = thread[u].data
  BY DEF InboxShape

\* After the effect the text is of the thread shown, if it was before.
LEMMA PopulateKeepsText ==
    ASSUME InboxShape, TextIsOfThread, Populate, NoTalk \notin Talks,
           selected' \in Talks \cup {NoTalk}
    PROVE  TextIsOfThread' /\ text' \in [of : Talks \cup {NoTalk}, empty : BOOLEAN]
<1> DEFINE now == Active(selected', thread')
<1>1. CASE now = Active(selected, thread) \/ now.talk = NoTalk
  <2>1. text' = text
    BY <1>1 DEF Populate
  <2>2. ASSUME selected' # NoTalk, HasData(thread', selected')
        PROVE  text'.of = selected'
    <3>1. now = [talk |-> selected', news |-> thread'[selected'].data]
      BY <2>2 DEF Active
    <3>2. Active(selected, thread).talk = selected'
      BY <3>1, <1>1, <2>2
    <3>3. selected = selected' /\ HasData(thread, selected)
      BY <3>2, <2>2 DEF Active
    <3> QED BY <3>3, <2>1, <2>2 DEF TextIsOfThread
  <2> QED BY <2>1, <2>2 DEF TextIsOfThread, InboxShape, HasData
<1>2. CASE ~(now = Active(selected, thread) \/ now.talk = NoTalk)
  <2>1. PICK empty \in BOOLEAN : text' = [of |-> now.talk, empty |-> empty]
    BY <1>2 DEF Populate
  <2>2. now.talk = selected'
    BY <1>2 DEF Active
  <2> QED BY <2>1, <2>2 DEF TextIsOfThread, HasData
<1> QED BY <1>1, <1>2

\* A step that leaves selection and text, and takes or brings no thread's data.
LEMMA FetchKeepsText ==
    ASSUME InboxShape, TextIsOfThread, UNCHANGED <<selected, text>>,
           thread' \in [Talks -> [data : 0 .. Unseen, fetching : BOOLEAN]],
           \A u \in Talks : thread'[u].data = thread[u].data
    PROVE  TextIsOfThread'
  BY DEF InboxShape, TextIsOfThread, HasData

LEMMA InboxStarts == InboxPageInit => InboxInvariant
  BY InboxPageBounds
     DEF InboxPageInit, InboxInvariant, InboxShape, TextIsOfThread, ReplyFitsItsThread,
         NoThread, Unseen

\* One step of the page, or none.
LEMMA InboxStep ==
    ASSUME InboxInvariant, [InboxPageNext]_inboxPageVars
    PROVE  InboxInvariant'
<1> USE DEF InboxInvariant
<1> NoTalk \notin Talks
  BY InboxPageBounds
<1>1. ASSUME NEW t \in Talks, OpenTalk(t) PROVE InboxInvariant'
  <2>1. selected' \in Talks \cup {NoTalk} /\ Populate
    BY <1>1 DEF OpenTalk
  <2>2. TextIsOfThread' /\ text' \in [of : Talks \cup {NoTalk}, empty : BOOLEAN]
    BY <2>1, PopulateKeepsText
  <2>3. thread' \in [Talks -> [data : 0 .. Unseen, fetching : BOOLEAN]]
    <3>1. CASE thread' = Ask(t)
      BY <3>1, FetchKeepsData DEF Ask
    <3>2. CASE UNCHANGED thread
      BY <3>2 DEF InboxShape
    <3> QED BY <1>1, <3>1, <3>2 DEF OpenTalk
  <2> QED BY <1>1, <2>1, <2>2, <2>3
          DEF OpenTalk, InboxShape, ReplyFitsItsThread, ApiStays, RequestsStay
<1>2. ASSUME NEW t \in Talks, ThreadArrives(t) PROVE InboxInvariant'
  <2>1. selected' \in Talks \cup {NoTalk} /\ Populate
    BY <1>2 DEF ThreadArrives, InboxShape
  <2>2. TextIsOfThread' /\ text' \in [of : Talks \cup {NoTalk}, empty : BOOLEAN]
    BY <2>1, PopulateKeepsText
  <2>3. news[t] \in 0 .. Unseen
    BY InboxPageBounds DEF InboxShape, Unseen
  <2>4. thread' \in [Talks -> [data : 0 .. Unseen, fetching : BOOLEAN]]
    BY <1>2, <2>3 DEF ThreadArrives, InboxShape
  <2> QED BY <1>2, <2>1, <2>2, <2>4
          DEF ThreadArrives, InboxShape, ReplyFitsItsThread, ApiStays, RequestsStay
<1>3. ASSUME NEW t \in Talks, ThreadFails(t) PROVE InboxInvariant'
  <2>1. TextIsOfThread' /\ thread' \in [Talks -> [data : 0 .. Unseen, fetching : BOOLEAN]]
    BY <1>3, FetchKeepsData, FetchKeepsText DEF ThreadFails
  <2> QED BY <1>3, <2>1
          DEF ThreadFails, InboxShape, ReplyFitsItsThread, ApiStays, RequestsStay
<1>4. ASSUME NEW t \in Talks, ProspectWrites(t) PROVE InboxInvariant'
  <2>1. news' \in [Talks -> 0 .. MaxNews]
    BY <1>4, InboxPageBounds DEF ProspectWrites, InboxShape
  <2> QED BY <1>4, <2>1
          DEF ProspectWrites, InboxShape, TextIsOfThread, HasData, ReplyFitsItsThread,
              RequestsStay
<1>5. CASE BackToList
  BY <1>5 DEF BackToList, InboxShape, TextIsOfThread, ReplyFitsItsThread, ApiStays, RequestsStay
<1>6. CASE RefreshList
  BY <1>6 DEF RefreshList, InboxShape, TextIsOfThread, HasData, ReplyFitsItsThread, ApiStays,
              RequestsStay
<1>7. CASE WriteReply
  BY <1>7 DEF WriteReply, InboxShape, TextIsOfThread, HasData, ReplyFitsItsThread, ApiStays,
              RequestsStay
<1>8. CASE HandleSendReply
  <2> DEFINE r == [to |-> selected, of |-> text.of, failed |-> ~HasData(thread, selected)]
  <2>1. posted' = posted \cup {r}
    BY <1>8 DEF HandleSendReply
  <2>2. r.of = r.to \/ r.failed
    <3>1. CASE HasData(thread, selected)
      BY <3>1, <1>8 DEF HandleSendReply, ComposerShown, TextIsOfThread
    <3>2. CASE ~HasData(thread, selected)
      BY <3>2
    <3> QED BY <3>1, <3>2
  <2>3. ReplyFitsItsThread'
    BY <2>1, <2>2 DEF ReplyFitsItsThread
  <2> QED BY <1>8, <2>3
          DEF HandleSendReply, InboxShape, TextIsOfThread, HasData, ApiStays
<1>9. CASE ReplyAnswered
  <2>1. TextIsOfThread' /\ thread' \in [Talks -> [data : 0 .. Unseen, fetching : BOOLEAN]]
    <3>1. CASE UNCHANGED thread
      BY <3>1, <1>9 DEF ReplyAnswered, InboxShape, TextIsOfThread, HasData
    <3>2. CASE selected # NoTalk /\ thread' = Ask(selected)
      <4>1. UNCHANGED <<selected, text>>
        BY <1>9 DEF ReplyAnswered
      <4>2. selected \in Talks
        BY <3>2 DEF InboxShape
      <4>3. /\ thread' \in [Talks -> [data : 0 .. Unseen, fetching : BOOLEAN]]
            /\ \A u \in Talks : thread'[u].data = thread[u].data
        BY <3>2, <4>2, FetchKeepsData DEF Ask
      <4> QED BY <4>1, <4>3, FetchKeepsText
    <3> QED BY <1>9, <3>1, <3>2 DEF ReplyAnswered
  <2>2. news' \in [Talks -> 0 .. MaxNews]
    BY <1>9, InboxPageBounds DEF ReplyAnswered, InboxShape
  <2> QED BY <1>9, <2>1, <2>2 DEF ReplyAnswered, InboxShape, ReplyFitsItsThread
<1>10. CASE ChangeLead
  <2>1. TextIsOfThread' /\ thread' \in [Talks -> [data : 0 .. Unseen, fetching : BOOLEAN]]
    BY <1>10, FetchKeepsData, FetchKeepsText DEF ChangeLead, Ask, InboxShape
  <2>2. news' \in [Talks -> 0 .. MaxNews]
    BY <1>10, InboxPageBounds DEF ChangeLead, InboxShape
  <2> QED BY <1>10, <2>1, <2>2 DEF ChangeLead, InboxShape, ReplyFitsItsThread
<1>11. CASE DeleteTalk
  BY <1>11 DEF DeleteTalk, InboxShape, TextIsOfThread, HasData, ReplyFitsItsThread, ApiStays
<1>12. CASE DeleteAnswered
  BY <1>12 DEF DeleteAnswered, InboxShape, TextIsOfThread, HasData, ReplyFitsItsThread
<1>13. CASE OpenCompose \/ CloseCompose \/ HandleSendCompose
  BY <1>13 DEF OpenCompose, CloseCompose, HandleSendCompose, InboxShape, TextIsOfThread, HasData,
               ReplyFitsItsThread, ApiStays
<1>14. CASE ComposeAnswered
  <2>1. CASE Populate /\ selected' \in Talks /\ (thread' = Ask(selected') \/ UNCHANGED thread)
    <3>1. TextIsOfThread' /\ text' \in [of : Talks \cup {NoTalk}, empty : BOOLEAN]
      BY <2>1, PopulateKeepsText
    <3>2. thread' \in [Talks -> [data : 0 .. Unseen, fetching : BOOLEAN]]
      <4>1. CASE thread' = Ask(selected')
        BY <2>1, <4>1, FetchKeepsData DEF Ask
      <4>2. CASE UNCHANGED thread
        BY <4>2 DEF InboxShape
      <4> QED BY <2>1, <4>1, <4>2
    <3> QED BY <1>14, <2>1, <3>1, <3>2
            DEF ComposeAnswered, InboxShape, ReplyFitsItsThread, ApiStays
  <2>2. CASE UNCHANGED <<selected, thread, text>>
    BY <1>14, <2>2 DEF ComposeAnswered, InboxShape, TextIsOfThread, HasData, ReplyFitsItsThread,
                       ApiStays
  <2> QED BY <1>14, <2>1, <2>2 DEF ComposeAnswered, InboxShape
<1>15. CASE UNCHANGED inboxPageVars
  BY <1>15 DEF inboxPageVars, InboxShape, TextIsOfThread, HasData, ReplyFitsItsThread
<1> QED BY <1>1, <1>2, <1>3, <1>4, <1>5, <1>6, <1>7, <1>8, <1>9, <1>10, <1>11, <1>12, <1>13,
          <1>14, <1>15 DEF InboxPageNext

\* A reply goes to the conversation its text was loaded for, or to one whose thread
\* failed to load, for any number of conversations and requests (inbox page:147-180).
THEOREM RepliesFitTheirThreads == InboxPageSpec => []ReplyFitsItsThread
<1>1. InboxPageInit => InboxInvariant
  BY InboxStarts
<1>2. InboxInvariant /\ [InboxPageNext]_inboxPageVars => InboxInvariant'
  BY InboxStep
<1>3. InboxInvariant => ReplyFitsItsThread
  BY DEF InboxInvariant
<1> QED BY <1>1, <1>2, <1>3, PTL DEF InboxPageSpec

-----------------------------------------------------------------------------
(* The leads page *)

\* A dialog opened for ticked leads keeps them until it is closed.
TickedStay == campaign.open /\ opener = "ticked" => ticked # {}

LeadsShape ==
    /\ campaign \in [open : BOOLEAN, named : BOOLEAN, asked : BOOLEAN]
    /\ discover \in [open : BOOLEAN, asked : BOOLEAN, result : BOOLEAN]

LeadsInvariant == LeadsShape /\ TickedStay /\ TickedCampaignNamesLeads

LEMMA LeadsStart == LeadsPageInit => LeadsInvariant
  BY DEF LeadsPageInit, LeadsInvariant, LeadsShape, TickedStay, TickedCampaignNamesLeads

\* One step of the page, or none.
LEMMA LeadsStep ==
    ASSUME LeadsInvariant, [LeadsPageNext]_leadsPageVars
    PROVE  LeadsInvariant'
<1> USE DEF LeadsInvariant, LeadsShape
<1>1. CASE \/ RowsArrive \/ SetFilter \/ HandleNextPage \/ HandlePrevPage
           \/ \E l \in Leads : ViewLead(l)
           \/ CloseLead \/ SuppressViewed \/ SuppressAnswered
  BY <1>1 DEF RowsArrive, SetFilter, HandleNextPage, HandlePrevPage, ViewLead, CloseLead,
              SuppressViewed, SuppressAnswered, TableStays, DialogsStay, TickedStay,
              TickedCampaignNamesLeads
<1>2. CASE TickPage \/ ClearSelection \/ \E l \in Leads : TickLead(l)
  <2>1. ~campaign.open /\ UNCHANGED <<campaign, discover, created>>
    BY <1>2 DEF TickPage, ClearSelection, TickLead, NoDialog, DialogsStay
  <2> QED BY <2>1 DEF TickedStay, TickedCampaignNamesLeads
<1>3. CASE OpenDiscover \/ CloseDiscover \/ HandleStartDiscovery \/ DiscoveryAnswered
  <2>1. discover' \in [open : BOOLEAN, asked : BOOLEAN, result : BOOLEAN]
    BY <1>3 DEF OpenDiscover, CloseDiscover, HandleStartDiscovery, DiscoveryAnswered
  <2> QED BY <1>3, <2>1 DEF OpenDiscover, CloseDiscover, HandleStartDiscovery,
                            DiscoveryAnswered, TickedStay, TickedCampaignNamesLeads
<1>4. CASE CampaignForTicked
  <2>1. ticked # {} /\ UNCHANGED <<ticked, discover, created>>
    BY <1>4 DEF CampaignForTicked
  <2>2. campaign' \in [open : BOOLEAN, named : BOOLEAN, asked : BOOLEAN]
    BY <1>4 DEF CampaignForTicked
  <2> QED BY <2>1, <2>2 DEF TickedStay, TickedCampaignNamesLeads
<1>5. CASE CampaignAfterDiscovery
  <2>1. opener' = "discover" /\ UNCHANGED created
    BY <1>5 DEF CampaignAfterDiscovery
  <2>2. campaign' \in [open : BOOLEAN, named : BOOLEAN, asked : BOOLEAN]
    BY <1>5 DEF CampaignAfterDiscovery
  <2>3. discover' \in [open : BOOLEAN, asked : BOOLEAN, result : BOOLEAN]
    BY <1>5 DEF CampaignAfterDiscovery
  <2> QED BY <2>1, <2>2, <2>3 DEF TickedStay, TickedCampaignNamesLeads
<1>6. CASE NameCampaign \/ CreateFails
  <2>1. /\ campaign'.open = campaign.open
        /\ campaign' \in [open : BOOLEAN, named : BOOLEAN, asked : BOOLEAN]
    BY <1>6 DEF NameCampaign, CreateFails
  <2> QED BY <1>6, <2>1 DEF NameCampaign, CreateFails, TickedStay, TickedCampaignNamesLeads
<1>7. CASE CloseCampaign \/ CreateSucceeds
  <2>1. /\ ~campaign'.open
        /\ campaign' \in [open : BOOLEAN, named : BOOLEAN, asked : BOOLEAN]
    <3>1. CASE CloseCampaign
      BY <3>1 DEF CloseCampaign
    <3>2. CASE CreateSucceeds
      BY <3>2 DEF CreateSucceeds
    <3> QED BY <1>7, <3>1, <3>2
  <2> QED BY <1>7, <2>1 DEF CloseCampaign, CreateSucceeds, TickedStay, TickedCampaignNamesLeads
<1>8. CASE HandleCreateCampaign
  <2>1. /\ campaign.open /\ campaign'.open = campaign.open
        /\ campaign' \in [open : BOOLEAN, named : BOOLEAN, asked : BOOLEAN]
    BY <1>8 DEF HandleCreateCampaign
  <2>2. created' = created \cup {[leads |-> ticked, opener |-> opener]}
    BY <1>8 DEF HandleCreateCampaign
  <2>3. TickedCampaignNamesLeads'
    BY <2>1, <2>2 DEF TickedStay, TickedCampaignNamesLeads
  <2> QED BY <1>8, <2>1, <2>3 DEF HandleCreateCampaign, TickedStay
<1>9. CASE UNCHANGED leadsPageVars
  BY <1>9 DEF leadsPageVars, TickedStay, TickedCampaignNamesLeads
<1> QED BY <1>1, <1>2, <1>3, <1>4, <1>5, <1>6, <1>7, <1>8, <1>9 DEF LeadsPageNext

\* A campaign made for ticked leads names some, for any number of leads and requests
\* (leads page:119-149, 395-412).
THEOREM TickedCampaignsNameLeads == LeadsPageSpec => []TickedCampaignNamesLeads
<1>1. LeadsPageInit => LeadsInvariant
  BY LeadsStart
<1>2. LeadsInvariant /\ [LeadsPageNext]_leadsPageVars => LeadsInvariant'
  BY LeadsStep
<1>3. LeadsInvariant => TickedCampaignNamesLeads
  BY DEF LeadsInvariant
<1> QED BY <1>1, <1>2, <1>3, PTL DEF LeadsPageSpec

-----------------------------------------------------------------------------
(* The login form *)

\* Failures counted and refusals drawn, one of which may still be under way.
RefusalsCounted == refused = form.failures + (IF form.at = "refused" THEN 1 ELSE 0)

\* Each failure from the MaxFailures-th on has had its lockout, the last one's runs.
LockoutsServed ==
    /\ form.at \in {"asked", "admitted", "refused"} => form.lockout = 0
    /\ form.failures >= MaxFailures =>
          LockoutSeconds * (form.failures + 1 - MaxFailures) <= second + form.lockout

SignInShape ==
    /\ form \in [token : BOOLEAN, failures : Nat, lockout : 0 .. LockoutSeconds,
                 at : {"rest", "trapped", "asked", "admitted", "refused"}]
    /\ second \in Nat /\ refused \in Nat

SignInInvariant == SignInShape /\ RefusalsCounted /\ LockoutsServed

LEMMA DivisionBound ==
    ASSUME NEW L \in Nat \ {0}, NEW s \in Nat, NEW k \in Nat, L * k <= s
    PROVE  k <= s \div L
<1> DEFINE q == s \div L
<1>1. q \in Nat /\ s < L * (q + 1)
  BY SMTT(30)
<1>2. CASE k >= q + 1
  <2>1. PICK d \in Nat : k = q + 1 + d
    <3>1. k - (q + 1) \in Nat /\ k = q + 1 + (k - (q + 1))
      BY <1>1, <1>2
    <3> QED BY <3>1
  <2> HIDE DEF q
  <2>2. L * k = L * (q + 1) + L * d /\ L * d >= 0
    BY <1>1, <2>1, SMTT(30)
  <2>3. L * (q + 1) \in Int /\ L * k \in Int /\ L * d \in Int
    BY <1>1, <2>1
  <2> QED BY <1>1, <2>2, <2>3
<1> QED BY <1>1, <1>2

\* The lockouts that were served bound the refusals.
LEMMA RefusalsBounded == SignInInvariant => LockoutLimitsGuesses
<1> SUFFICES ASSUME SignInInvariant PROVE LockoutLimitsGuesses
  OBVIOUS
<1> USE DEF SignInInvariant, SignInShape
<1>1. /\ LockoutSeconds \in Nat \ {0} /\ MaxFailures \in Nat \ {0}
      /\ second \in Nat /\ refused \in Nat /\ form.failures \in Nat
      /\ form.lockout \in 0 .. LockoutSeconds
  BY SignInBounds
<1>2. refused = form.failures \/ (form.at = "refused" /\ refused = form.failures + 1)
  BY <1>1 DEF RefusalsCounted
<1>3. second \div LockoutSeconds \in Nat
  BY <1>1, SMTT(30)
<1>4. CASE refused <= MaxFailures
  BY <1>1, <1>3, <1>4 DEF LockoutLimitsGuesses
<1>5. CASE refused > MaxFailures
  <2> DEFINE over == refused - MaxFailures
  <2>1. over \in Nat /\ form.failures >= MaxFailures
    BY <1>1, <1>2, <1>5
  <2>2. LockoutSeconds * (form.failures + 1 - MaxFailures) <= second + form.lockout
    BY <2>1 DEF LockoutsServed
  <2>3. LockoutSeconds * over <= second
    <3>1. CASE form.at = "refused" /\ refused = form.failures + 1
      BY <1>1, <2>2, <3>1 DEF LockoutsServed
    <3>2. CASE refused = form.failures
      <4>1. form.failures + 1 - MaxFailures = over + 1
        BY <1>1, <3>2
      <4>2. LockoutSeconds * (over + 1) = LockoutSeconds * over + LockoutSeconds
        BY <1>1, <2>1, SMTT(30)
      <4>3. LockoutSeconds * over \in Int
        BY <1>1, <2>1
      <4> HIDE DEF over
      <4> QED BY <1>1, <2>2, <4>1, <4>2, <4>3
    <3> QED BY <1>2, <3>1, <3>2
  <2>4. over <= second \div LockoutSeconds
    BY <1>1, <2>1, <2>3, DivisionBound
  <2> QED BY <1>1, <1>3, <2>4 DEF LockoutLimitsGuesses
<1> QED BY <1>1, <1>4, <1>5

LEMMA SignInStarts == SignInInit => SignInInvariant
  BY SignInBounds DEF SignInInit, EmptyForm, SignInInvariant, SignInShape, RefusalsCounted,
                      LockoutsServed

\* A form mounted anew counts from nothing.
LEMMA FormMountedAnew ==
    ASSUME NEW p, GoTo(p) PROVE SignInInvariant'
  BY SignInBounds DEF GoTo, EmptyForm, SignInInvariant, SignInShape, RefusalsCounted,
                      LockoutsServed

\* One step of the console's sign-in, or none.
LEMMA SignInStep ==
    ASSUME SignInInvariant, [SignInNext]_signInVars
    PROVE  SignInInvariant'
<1> USE DEF SignInInvariant, SignInShape
<1> /\ LockoutSeconds \in Nat \ {0} /\ MaxFailures \in Nat \ {0}
  BY SignInBounds
<1>1. CASE UNCHANGED <<form, second, refused>>
  BY <1>1 DEF RefusalsCounted, LockoutsServed
<1>2. CASE ApiAnswersMe \/ RefreshUserEnds \/ SessionExpires
  BY <1>1, <1>2 DEF ApiAnswersMe, RefreshUserEnds, SessionExpires
<1>3. CASE Logout \/ LeaveHome \/ LayoutSendsToLogin \/ LoginSucceeds
  BY <1>3, FormMountedAnew DEF Logout, LeaveHome, LayoutSendsToLogin, LoginSucceeds
<1>4. CASE TurnstileSolved \/ TurnstileExpires
  <2>1. /\ UNCHANGED <<second, refused>>
        /\ form' = [form EXCEPT !.token = form'.token] /\ form'.token \in BOOLEAN
    BY <1>4 DEF TurnstileSolved, TurnstileExpires, FormStays
  <2> QED BY <2>1 DEF RefusalsCounted, LockoutsServed
<1>5. CASE SubmitTrapped \/ TrapEnds \/ HandleSubmit
  <2>1. /\ UNCHANGED <<second, refused>>
        /\ \E at \in {"rest", "trapped", "asked"} : form' = [form EXCEPT !.at = at]
        /\ form.at # "refused"
        /\ form'.at = "asked" => form.lockout = 0
    BY <1>5 DEF SubmitTrapped, TrapEnds, HandleSubmit, CanSubmit, FormStays
  <2> QED BY <2>1 DEF RefusalsCounted, LockoutsServed
<1>6. CASE ApiAnswersLogin
  <2>1. CASE form' = [form EXCEPT !.at = "admitted"] /\ UNCHANGED refused
    BY <1>6, <2>1 DEF ApiAnswersLogin, RefusalsCounted, LockoutsServed
  <2>2. CASE form' = [form EXCEPT !.at = "refused"] /\ refused' = refused + 1
    BY <1>6, <2>2 DEF ApiAnswersLogin, RefusalsCounted, LockoutsServed
  <2> QED BY <1>6, <2>1, <2>2 DEF ApiAnswersLogin
<1>7. CASE LoginFails
  <2> DEFINE F == form.failures
  <2>1. /\ form.at = "refused" /\ form.lockout = 0 /\ refused = F + 1
        /\ UNCHANGED <<second, refused>>
        /\ form'.failures = F + 1 /\ form'.at = "rest"
        /\ form'.lockout = IF F + 1 >= MaxFailures THEN LockoutSeconds ELSE 0
        /\ form' \in [token : BOOLEAN, failures : Nat, lockout : 0 .. LockoutSeconds,
                      at : {"rest", "trapped", "asked", "admitted", "refused"}]
    BY <1>7 DEF LoginFails, FormStays, RefusalsCounted, LockoutsServed
  <2>2. CASE F >= MaxFailures
    <3>1. LockoutSeconds * (F + 1 - MaxFailures) <= second
      BY <2>1, <2>2 DEF LockoutsServed
    <3>2. LockoutSeconds * (F + 2 - MaxFailures)
            = LockoutSeconds * (F + 1 - MaxFailures) + LockoutSeconds
      BY <2>2, SMTT(30)
    <3> QED BY <2>1, <2>2, <3>1, <3>2 DEF RefusalsCounted, LockoutsServed
  <2>3. CASE F < MaxFailures
    BY <2>1, <2>3 DEF RefusalsCounted, LockoutsServed
  <2> QED BY <2>2, <2>3
<1>8. CASE LockoutTick
  <2>1. /\ UNCHANGED refused /\ second' = second + 1
        /\ form'.failures = form.failures /\ form'.at = form.at
        /\ form'.lockout = IF form.lockout > 0 THEN form.lockout - 1 ELSE 0
        /\ form' \in [token : BOOLEAN, failures : Nat, lockout : 0 .. LockoutSeconds,
                      at : {"rest", "trapped", "asked", "admitted", "refused"}]
    BY <1>8 DEF LockoutTick
  <2>2. second' + form'.lockout >= second + form.lockout
    BY <2>1
  <2> QED BY <2>1, <2>2 DEF RefusalsCounted, LockoutsServed
<1> QED BY <1>1, <1>2, <1>3, <1>4, <1>5, <1>6, <1>7, <1>8 DEF SignInNext, signInVars

\* The form draws MaxFailures refusals and one more for each lockout run out, for any
\* threshold, any length of the lockout and any number of attempts (login page:133-216).
THEOREM LockoutHolds == SignInSpec => []LockoutLimitsGuesses
<1>1. SignInInit => SignInInvariant
  BY SignInStarts
<1>2. SignInInvariant /\ [SignInNext]_signInVars => SignInInvariant'
  BY SignInStep
<1>3. SignInInvariant => LockoutLimitsGuesses
  BY RefusalsBounded
<1> QED BY <1>1, <1>2, <1>3, PTL DEF SignInSpec

-----------------------------------------------------------------------------
(* Types *)

\* What SignInShape leaves out.
LEMMA SignInTyped ==
    ASSUME SignInTypeOK, SignInInvariant, [SignInNext]_signInVars
    PROVE  SignInTypeOK'
<1> USE DEF SignInTypeOK
<1>1. SignInInvariant'
  BY SignInStep
<1>2. form' \in [token : BOOLEAN, failures : Nat, lockout : 0 .. LockoutSeconds,
                 at : {"rest", "trapped", "asked", "admitted", "refused"}]
  BY <1>1 DEF SignInInvariant, SignInShape
<1> HIDE DEF SignInTypeOK
<1>3. second' \in Seconds
  <2>1. CASE LockoutTick
    BY <2>1, SignInBounds DEF LockoutTick, Seconds, SignInTypeOK
  <2>2. CASE second' = 0
    BY <2>2, SignInBounds DEF Seconds
  <2>3. CASE UNCHANGED second
    BY <2>3 DEF SignInTypeOK
  <2> QED BY <2>1, <2>2, <2>3
          DEF SignInNext, signInVars, ApiAnswersMe, RefreshUserEnds, Logout, SessionExpires,
              LeaveHome, LayoutSendsToLogin, GoTo, TurnstileSolved, TurnstileExpires,
              SubmitTrapped, TrapEnds, HandleSubmit, FormStays, ApiAnswersLogin,
              LoginSucceeds, LoginFails
<1>4. /\ session' \in BOOLEAN /\ isLoading' \in BOOLEAN
      /\ user' \in {"none", "admin"}
      /\ me' \in {"none", "asked", "admin", "refused"}
      /\ route' \in {"home", "login", "console"}
  <2>1. CASE UNCHANGED <<session, user, isLoading, me, route>>
    BY <2>1 DEF SignInTypeOK
  <2>2. CASE ApiAnswersMe \/ RefreshUserEnds \/ SessionExpires
    BY <2>2 DEF ApiAnswersMe, RefreshUserEnds, SessionExpires, SignInTypeOK
  <2>3. CASE Logout
    BY <2>3 DEF Logout, GoTo, SignInTypeOK
  <2>4. CASE LeaveHome \/ LayoutSendsToLogin \/ LoginSucceeds
    BY <2>4 DEF LeaveHome, LayoutSendsToLogin, LoginSucceeds, GoTo, SignInTypeOK
  <2>5. CASE ApiAnswersLogin
    BY <2>5 DEF ApiAnswersLogin, FormOnly, SignInTypeOK
  <2> QED BY <2>1, <2>2, <2>3, <2>4, <2>5
          DEF SignInNext, signInVars, TurnstileSolved, TurnstileExpires, SubmitTrapped,
              TrapEnds, HandleSubmit, FormStays, FormOnly, LoginFails, LockoutTick
<1> QED BY <1>2, <1>3, <1>4 DEF SignInTypeOK

LEMMA SignInStartsTyped == SignInInit => SignInTypeOK
  BY SignInBounds DEF SignInInit, EmptyForm, SignInTypeOK, Seconds

\* The list shows conversations the API has or had; requests are for one of them.
LEMMA InboxPageTyped ==
    ASSUME InboxPageTypeOK, InboxInvariant, [InboxPageNext]_inboxPageVars
    PROVE  InboxPageTypeOK'
<1>0. NoTalk \notin Talks
  BY InboxPageBounds
<1>1. InboxShape /\ InboxShape'
  BY InboxStep DEF InboxInvariant
<1>2. text'.of \in Talks \cup {NoTalk}
  BY <1>1 DEF InboxShape
<1>3. listed' \subseteq Talks
  <2>1. CASE RefreshList
    BY <1>1, <2>1 DEF RefreshList, InboxShape
  <2>2. CASE UNCHANGED listed
    BY <2>2 DEF InboxPageTypeOK
  <2> QED BY <2>1, <2>2
          DEF InboxPageNext, inboxPageVars, OpenTalk, ThreadArrives, ThreadFails,
              ProspectWrites, BackToList, WriteReply, HandleSendReply, ReplyAnswered,
              ChangeLead, DeleteTalk, DeleteAnswered, OpenCompose, CloseCompose,
              HandleSendCompose, ComposeAnswered
<1>4. /\ sending' \in Talks \cup {NoTalk}
      /\ deleting' \in Talks \cup {NoTalk}
      /\ posted' \subseteq [to : Talks, of : Talks \cup {NoTalk}, failed : BOOLEAN]
  <2>1. CASE HandleSendReply
    <3>1. selected \in Talks /\ text.of \in Talks \cup {NoTalk}
      BY <1>1, <2>1 DEF HandleSendReply, ComposerShown, InboxShape
    <3>2. \E failed \in BOOLEAN :
             posted' = posted \cup {[to |-> selected, of |-> text.of, failed |-> failed]}
      <4>1. posted' = posted \cup {[to |-> selected, of |-> text.of,
                                    failed |-> ~HasData(thread, selected)]}
        BY <2>1 DEF HandleSendReply
      <4>2. CASE HasData(thread, selected)
        <5>1. ~HasData(thread, selected) = FALSE
          BY <4>2
        <5> QED BY <4>1, <5>1, Zenon
      <4>3. CASE ~HasData(thread, selected)
        <5>1. ~HasData(thread, selected) = TRUE
          BY <4>3
        <5> QED BY <4>1, <5>1, Zenon
      <4> QED BY <4>2, <4>3
    <3>3. UNCHANGED deleting /\ sending' = selected
      BY <2>1 DEF HandleSendReply
    <3> QED BY <3>1, <3>2, <3>3 DEF InboxPageTypeOK
  <2>2. CASE ReplyAnswered \/ DeleteTalk \/ DeleteAnswered
    BY <1>1, <2>2 DEF ReplyAnswered, DeleteTalk, DeleteAnswered, InboxPageTypeOK
  <2>3. CASE UNCHANGED <<sending, deleting, posted>>
    BY <2>3 DEF InboxPageTypeOK
  <2> QED BY <2>1, <2>2, <2>3
          DEF InboxPageNext, inboxPageVars, RequestsStay, OpenTalk, ThreadArrives,
              ThreadFails, ProspectWrites, BackToList, RefreshList, WriteReply, ChangeLead,
              OpenCompose, CloseCompose, HandleSendCompose, ComposeAnswered
<1> QED BY <1>1, <1>2, <1>3, <1>4 DEF InboxPageTypeOK, InboxShape

LEMMA InboxPageStartsTyped == InboxPageInit => InboxPageTypeOK
  BY InboxPageBounds DEF InboxPageInit, InboxPageTypeOK, NoThread, Unseen

\* A dialog that is open was opened by one of the two buttons.
LeadsTyped == LeadsPageTypeOK /\ (campaign.open => opener # "none")

LEMMA LeadsPageTyped ==
    ASSUME LeadsTyped, LeadsInvariant, [LeadsPageNext]_leadsPageVars
    PROVE  LeadsTyped'
<1> USE DEF LeadsTyped
<1>0. LeadsShape'
  BY LeadsStep DEF LeadsInvariant
<1>1. /\ Rows \subseteq Leads
      /\ 0 \notin Leads
  BY LeadsPageBounds DEF Rows, After, Kept
<1>2. CASE RowsArrive \/ SetFilter
  BY <1>2 DEF RowsArrive, SetFilter, DialogsStay, LeadsPageTypeOK
<1>3. CASE HandleNextPage
  <2>1. history' \in Seq(Leads) /\ cursor' \in Leads /\ loaded' \in BOOLEAN
    BY <1>1, <1>3 DEF HandleNextPage, LeadsPageTypeOK
  <2> QED BY <1>3, <2>1 DEF HandleNextPage, DialogsStay, LeadsPageTypeOK
<1>4. CASE HandlePrevPage
  <2>1. history' \in Seq(Leads) /\ cursor' \in Leads \cup {0} /\ loaded' \in BOOLEAN
    BY <1>4 DEF HandlePrevPage, LeadsPageTypeOK
  <2> QED BY <1>4, <2>1 DEF HandlePrevPage, DialogsStay, LeadsPageTypeOK
<1>5. CASE TickPage \/ ClearSelection \/ \E l \in Leads : TickLead(l)
  <2>1. ticked' \subseteq Leads
    BY <1>1, <1>5 DEF TickPage, ClearSelection, TickLead, LeadsPageTypeOK
  <2> QED BY <1>5, <2>1
          DEF TickPage, ClearSelection, TickLead, TableStays, DialogsStay, LeadsPageTypeOK
<1>6. CASE \/ CloseLead \/ SuppressViewed \/ SuppressAnswered
           \/ \E l \in Leads : ViewLead(l)
  BY <1>6 DEF CloseLead, SuppressViewed, SuppressAnswered, ViewLead, TableStays,
              LeadsPageTypeOK
<1>7. CASE OpenDiscover \/ CloseDiscover \/ HandleStartDiscovery \/ DiscoveryAnswered
  BY <1>0, <1>7 DEF OpenDiscover, CloseDiscover, HandleStartDiscovery, DiscoveryAnswered,
                    TableStays, LeadsShape, LeadsPageTypeOK
<1>8. CASE CampaignForTicked \/ CampaignAfterDiscovery
  BY <1>0, <1>8 DEF CampaignForTicked, CampaignAfterDiscovery, TableStays, LeadsShape,
                    LeadsPageTypeOK
<1>9. CASE NameCampaign \/ CloseCampaign \/ CreateSucceeds \/ CreateFails
  <2>1. campaign'.open => campaign.open
    BY <1>9 DEF NameCampaign, CloseCampaign, CreateSucceeds, CreateFails, LeadsPageTypeOK
  <2> QED BY <1>0, <1>9, <2>1
          DEF NameCampaign, CloseCampaign, CreateSucceeds, CreateFails, TableStays,
              LeadsShape, LeadsPageTypeOK
<1>10. CASE HandleCreateCampaign
  <2>1. opener \in {"ticked", "discover"} /\ ticked \in SUBSET Leads
    BY <1>10 DEF HandleCreateCampaign, LeadsPageTypeOK
  <2> QED BY <1>0, <1>10, <2>1
          DEF HandleCreateCampaign, TableStays, LeadsShape, LeadsPageTypeOK
<1>11. CASE UNCHANGED leadsPageVars
  BY <1>11 DEF leadsPageVars, LeadsPageTypeOK
<1> QED BY <1>2, <1>3, <1>4, <1>5, <1>6, <1>7, <1>8, <1>9, <1>10, <1>11 DEF LeadsPageNext

LEMMA LeadsPageStartsTyped == LeadsPageInit => LeadsTyped
<1> SUFFICES ASSUME LeadsPageInit PROVE LeadsTyped
  OBVIOUS
<1>1. <<>> \in Seq(Leads)
  OBVIOUS
<1>2. /\ discover \in [open : BOOLEAN, asked : BOOLEAN, result : BOOLEAN]
      /\ campaign \in [open : BOOLEAN, named : BOOLEAN, asked : BOOLEAN]
      /\ ~campaign.open
  BY DEF LeadsPageInit
<1> QED BY <1>1, <1>2, Zenon DEF LeadsPageInit, LeadsTyped, LeadsPageTypeOK

\* Each part of the console keeps its own invariant; the others stand still.
ConsoleInvariant ==
    /\ ScreensShape
    /\ SignInTypeOK /\ SignInInvariant
    /\ InboxPageTypeOK /\ InboxInvariant
    /\ LeadsTyped /\ LeadsInvariant

LEMMA ConsoleParts ==
    ASSUME [ConsoleNext]_<<running, screensVars, signInVars, inboxPageVars, leadsPageVars>>
    PROVE  /\ [ScreensNext]_screensVars /\ [SignInNext]_signInVars
           /\ [InboxPageNext]_inboxPageVars /\ [LeadsPageNext]_leadsPageVars
  BY DEF ConsoleNext, screensFixed, signInFixed, inboxPageFixed, leadsPageFixed

\* Lists, forms, dialogs and requests stay within the values the pages name, for any
\* columns, conversations, leads, thresholds and bounds.
THEOREM ConsoleIsTyped == ConsoleSpec => []ConsoleTypeOK
<1>1. ConsoleInit => ConsoleInvariant
  BY ScreensStart, SignInStarts, SignInStartsTyped, InboxStarts, InboxPageStartsTyped,
     LeadsStart, LeadsPageStartsTyped
     DEF ConsoleInit, ConsoleInvariant
<1>2. ConsoleInvariant
        /\ [ConsoleNext]_<<running, screensVars, signInVars, inboxPageVars, leadsPageVars>>
        => ConsoleInvariant'
  <2> SUFFICES ASSUME ConsoleInvariant,
                      [ConsoleNext]_<<running, screensVars, signInVars, inboxPageVars,
                                      leadsPageVars>>
               PROVE  ConsoleInvariant'
    OBVIOUS
  <2>1. /\ [ScreensNext]_screensVars /\ [SignInNext]_signInVars
        /\ [InboxPageNext]_inboxPageVars /\ [LeadsPageNext]_leadsPageVars
    BY ConsoleParts
  <2>2. ScreensShape'
    BY <2>1, ScreensShapeKept DEF ConsoleInvariant
  <2>3. SignInTypeOK' /\ SignInInvariant'
    BY <2>1, SignInTyped, SignInStep DEF ConsoleInvariant
  <2>4. InboxPageTypeOK' /\ InboxInvariant'
    BY <2>1, InboxPageTyped, InboxStep DEF ConsoleInvariant
  <2>5. LeadsTyped' /\ LeadsInvariant'
    BY <2>1, LeadsPageTyped, LeadsStep DEF ConsoleInvariant
  <2> QED BY <2>2, <2>3, <2>4, <2>5 DEF ConsoleInvariant
<1>3. ConsoleInvariant => ConsoleTypeOK
  BY DEF ConsoleInvariant, ConsoleTypeOK, ScreensShape, LeadsTyped
<1> QED BY <1>1, <1>2, <1>3, PTL DEF ConsoleSpec

=============================================================================
