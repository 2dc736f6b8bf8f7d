---------------------------- MODULE ScreensProofs ----------------------------
(***************************************************************************)
(* For any tours, columns and number of operations: what the operator did  *)
(* is what the screen shows once nothing is under way.                     *)
(***************************************************************************)
EXTENDS Screens, FiniteSetTheorems, TLAPS

-----------------------------------------------------------------------------
(* The pages, their lists and their operations *)

AnyOp == UNION {OpsOf[page] : page \in Pages}

LEMMA PagesAre ==
    /\ Pages = {"crm", "approval", "campaigns", "leads", "inbox", "suppression",
                "settings", "imports"}
    /\ LayoutLists \subseteq Lists
    /\ \A page \in Pages : ListsOf[page] \subseteq Lists
<1>1. Pages = {"crm", "approval", "campaigns", "leads", "inbox", "suppression",
               "settings", "imports"}
  BY DEF Pages, ListsOf
<1>2. \A page \in Pages : ListsOf[page] \subseteq Lists
  BY DEF Lists
<1> QED
  BY <1>1, <1>2 DEF Lists

\* An operation refreshes what it changes, but for the lists GapOf names.
OpFits(op) ==
    /\ op.changes \subseteq op.refreshes \cup GapOf(op)
    /\ op.changes \subseteq Lists /\ op.refreshes \subseteq Lists
    /\ GapOf(op) \subseteq Lists

LEMMA PageLists ==
    /\ CrmLists \subseteq Lists /\ ApprovalLists \subseteq Lists
    /\ CampaignsLists \subseteq Lists /\ LeadsLists \subseteq Lists
    /\ InboxLists \subseteq Lists /\ SuppressionLists \subseteq Lists
    /\ SettingsLists \subseteq Lists /\ ImportsLists \subseteq Lists
    /\ LayoutLists \subseteq Lists
<1>1. /\ ListsOf["crm"] = CrmLists /\ ListsOf["approval"] = ApprovalLists
      /\ ListsOf["campaigns"] = CampaignsLists /\ ListsOf["leads"] = LeadsLists
      /\ ListsOf["inbox"] = InboxLists /\ ListsOf["suppression"] = SuppressionLists
      /\ ListsOf["settings"] = SettingsLists \cup LayoutLists
      /\ ListsOf["imports"] = ImportsLists
  BY DEF ListsOf
<1>2. /\ {"crm", "approval", "campaigns", "leads", "inbox", "suppression",
          "settings", "imports"} \subseteq Pages
      /\ \A page \in Pages : ListsOf[page] \subseteq Lists
  BY PagesAre
<1>3. /\ ListsOf["crm"] \subseteq Lists /\ ListsOf["approval"] \subseteq Lists
      /\ ListsOf["campaigns"] \subseteq Lists /\ ListsOf["leads"] \subseteq Lists
      /\ ListsOf["inbox"] \subseteq Lists /\ ListsOf["suppression"] \subseteq Lists
      /\ ListsOf["settings"] \subseteq Lists /\ ListsOf["imports"] \subseteq Lists
  BY <1>2
<1> QED
  BY <1>1, <1>3, PagesAre

LEMMA CrmOpsFit ==
    ASSUME NEW op \in CrmOps
    PROVE  OpFits(op)
<1>1. /\ "crm-summary" \in CrmLists
      /\ \A stage \in Columns : ColumnKey(stage) \in CrmLists
  BY DEF CrmLists
<1>2. PICK stage \in Columns : op \in CardControls(stage)
  BY DEF CrmOps
<1>3. CASE op \in {MoveStage(stage, to) : to \in Columns \ {stage}}
  <2>1. PICK to \in Columns : op = MoveStage(stage, to)
    BY <1>3
  <2>2. /\ op.changes = {"crm-summary", ColumnKey(stage), ColumnKey(to)}
        /\ op.refreshes = CrmLists /\ op.mutation = "moveStage"
    BY <2>1 DEF MoveStage, Op
  <2> QED
    BY <1>1, <2>2, PageLists DEF OpFits, GapOf
<1>4. CASE stage # "WON" /\ op = RecordRevenue(stage)
  <2>1. /\ op.changes = {"crm-summary", ColumnKey(stage), ColumnKey("WON")}
        /\ op.refreshes = {"crm-summary", ColumnKey("WON")} /\ op.mutation = "recordRevenue"
    BY <1>4 DEF RecordRevenue, Op
  <2>2. GapOf(op) = op.changes \ {"crm-summary", ColumnKey("WON")}
    BY <2>1 DEF GapOf
  <2> QED
    BY <1>1, <2>1, <2>2, PageLists, ScreensBounds DEF OpFits
<1> QED
  BY <1>2, <1>3, <1>4 DEF CardControls

LEMMA OpsFit ==
    ASSUME NEW page \in Pages, NEW op \in OpsOf[page]
    PROVE  OpFits(op)
<1>1. CASE page = "crm"
  BY <1>1, CrmOpsFit DEF OpsOf
<1>2. CASE page = "approval"
  <2>1. op \in {ActOnDraft(TRUE), ActOnDraft(FALSE), EditDraft, ApproveAll}
    BY <1>2 DEF OpsOf, ApprovalOps, ReviewActions, EditDialog
  <2>2. /\ op.changes = ApprovalLists
        /\ op.refreshes \in {ApprovalLists, ApprovalLists \cup CampaignsLists}
        /\ op.mutation \in {"approvalAction", "editDraft", "approveAll"}
    BY <2>1 DEF ActOnDraft, EditDraft, ApproveAll, CampaignsLists, Op
  <2> QED
    BY <2>2, PageLists DEF OpFits, GapOf
<1>3. CASE page = "campaigns"
  <2>1. op \in {ActOnCampaign(TRUE), ActOnCampaign(FALSE), DeleteCampaign, CreateCampaign}
    BY <1>3 DEF OpsOf, CampaignsOps, CampaignControls
  <2>2. /\ op.changes = {"campaigns"} /\ op.refreshes = {"campaigns"}
        /\ op.mutation \in {"campaignAction", "deleteCampaign", "createCampaign"}
    BY <2>1 DEF ActOnCampaign, DeleteCampaign, CreateCampaign, Op
  <2> QED
    BY <2>2, PageLists DEF OpFits, GapOf, CampaignsLists
<1>4. CASE page = "leads"
  <2>1. op \in {SuppressShown, DiscoverLeads, CreateForTicked}
    BY <1>4 DEF OpsOf, LeadsOps
  <2>2. CASE op = CreateForTicked
    BY <2>2, PageLists DEF CreateForTicked, Op, OpFits, GapOf, CampaignsLists
  <2>3. CASE op \in {SuppressShown, DiscoverLeads}
    <3>1. /\ op.changes = LeadsLists /\ op.refreshes = LeadsLists
          /\ op.mutation \in {"suppressViewed", "discover"}
      BY <2>3 DEF SuppressShown, DiscoverLeads, Op
    <3> QED
      BY <3>1, PageLists DEF OpFits, GapOf
  <2> QED
    BY <2>1, <2>2, <2>3
<1>5. CASE page = "inbox"
  <2>1. op \in {UpdateLeadStage, SuppressLead, DeleteConversation, SendReply, ComposeMessage}
    BY <1>5 DEF OpsOf, InboxOps, ThreadControls
  <2>2. /\ op.changes = {"conversations"} /\ op.refreshes = {"conversations"}
        /\ op.mutation \in {"updateLeadStage", "suppressLead", "deleteConversation",
                            "sendReply", "compose"}
    BY <2>1 DEF UpdateLeadStage, SuppressLead, DeleteConversation, SendReply,
                ComposeMessage, Op
  <2> QED
    BY <2>2, PageLists DEF OpFits, GapOf, InboxLists
<1>6. CASE page = "suppression"
  <2>1. op \in {AddSuppression, RemoveSuppression}
    BY <1>6 DEF OpsOf, SuppressionOps
  <2>2. /\ op.changes = SuppressionLists /\ op.refreshes = SuppressionLists
        /\ op.mutation \in {"addSuppression", "removeSuppression"}
    BY <2>1 DEF AddSuppression, RemoveSuppression, Op
  <2> QED
    BY <2>2, PageLists DEF OpFits, GapOf
<1>7. CASE page = "settings"
  <2>1. op \in {SaveBranding, UploadLogo, DeleteLogo, CreateSender, DeleteSender,
                ChangePassword}
    BY <1>7 DEF OpsOf, SettingsOps, BrandingOps
  <2>2. /\ op.changes = op.refreshes
        /\ op.changes \in {{"branding"}, SettingsLists, {}}
        /\ op.mutation \in {"saveBranding", "logo", "createSender", "deleteSender",
                            "changePassword"}
    BY <2>1 DEF SaveBranding, UploadLogo, DeleteLogo, CreateSender, DeleteSender,
                ChangePassword, Op
  <2> QED
    BY <2>2, PageLists DEF OpFits, GapOf, LayoutLists
<1>8. CASE page = "imports"
  BY <1>8, PageLists DEF OpsOf, StartImport, Op, OpFits, GapOf
<1> QED
  BY <1>1, <1>2, <1>3, <1>4, <1>5, <1>6, <1>7, <1>8, PagesAre

-----------------------------------------------------------------------------
(* Type correctness: what a list holds is counted by the operations sent *)

Query == [data : Contents \cup {NotLoaded}, invalid : BOOLEAN,
          fetch : {"none", "asked", "read"}, read : Contents \cup {NotLoaded}]
Call == [id : Nat, op : AnyOp, state : {"sent", "done", "refused"}, waits : BOOLEAN]

\* Operations the API has yet to answer for.
Unserved == {c \in calls : c.state = "sent"}

ScreensShape ==
    /\ ScreensTypeOK
    /\ calls \subseteq Call /\ IsFiniteSet(calls)
    /\ sent \in 0 .. MaxSent
    /\ \A key \in Lists : held[key] + Cardinality(Unserved) <= sent

LEMMA MountKeepsQueries ==
    ASSUME NEW q \in [Lists -> Query], NEW lists, NEW old
    PROVE  Mount(q, lists, old) \in [Lists -> Query]
  BY DEF Mount, Asked, Query

LEMMA InvalidateKeepsQueries ==
    ASSUME query \in [Lists -> Query], NEW keys
    PROVE  Invalidate(keys) \in [Lists -> Query]
  BY DEF Invalidate, Asked, Query

LEMMA FirstQueries ==
    [key \in Lists |-> IF key \in LayoutLists THEN Fresh(0) ELSE Unread] \in [Lists -> Query]
<1>1. 0 \in Contents
  BY ScreensBounds DEF Contents
<1>2. Unread \in Query
  BY DEF Unread, Query
<1>3. Fresh(0) \in Query
  BY <1>1, <1>2 DEF Fresh, Query, Unread
<1> QED
  BY <1>2, <1>3

LEMMA ScreensStart == ScreensInit => ScreensShape
<1> SUFFICES ASSUME ScreensInit PROVE ScreensShape
  OBVIOUS
<1>1. query \in [Lists -> Query]
  BY FirstQueries, MountKeepsQueries DEF ScreensInit
<1>2. /\ calls = {} /\ sent = 0 /\ astray = {} /\ tour \in Tours /\ open \in tour
      /\ held \in [Lists -> Contents] /\ \A key \in Lists : held[key] = 0
  BY ScreensBounds DEF ScreensInit, Contents
<1>3. Unserved = {} /\ Cardinality(Unserved) = 0 /\ IsFiniteSet(calls)
  BY <1>2, FS_EmptySet DEF Unserved
<1> QED
  BY <1>1, <1>2, <1>3, ScreensBounds DEF ScreensShape, ScreensTypeOK, Query

\* Operations lists the counted ones among those of a step.
LEMMA UnservedAreFew ==
    ASSUME IsFiniteSet(calls)
    PROVE  IsFiniteSet(Unserved) /\ Cardinality(Unserved) \in Nat
<1>1. Unserved \subseteq calls
  BY DEF Unserved
<1> QED
  BY <1>1, FS_Subset, FS_CardinalityType

LEMMA ApiDoesCounts ==
    ASSUME ScreensShape, NEW c \in calls, ApiDoes(c)
    PROVE  ScreensShape'
<1>1. /\ UNCHANGED <<tour, open, query, sent>> /\ c.state = "sent"
      /\ calls' = (calls \ {c}) \cup {[c EXCEPT !.state = "done"]}
      /\ astray' = astray \cup GapOf(c.op)
      /\ held' = [key \in Lists |-> IF key \in c.op.changes THEN held[key] + 1 ELSE held[key]]
  BY DEF ApiDoes
<1>2. c \in Call /\ [c EXCEPT !.state = "done"] \in Call
  BY DEF ScreensShape, Call
<1>3. calls' \subseteq Call /\ IsFiniteSet(calls')
  BY <1>1, <1>2, FS_AddElement, FS_RemoveElement DEF ScreensShape
<1>4. Unserved' = Unserved \ {c} /\ c \in Unserved
  BY <1>1, <1>2 DEF Unserved, Call
<1>5. Cardinality(Unserved') = Cardinality(Unserved) - 1 /\ Cardinality(Unserved) \in Nat
      /\ Cardinality(Unserved') \in Nat
  BY <1>3, <1>4, UnservedAreFew, FS_RemoveElement, FS_CardinalityType DEF ScreensShape
<1>6. ASSUME NEW key \in Lists
      PROVE  held'[key] + Cardinality(Unserved') <= sent' /\ held'[key] \in Contents
  <2>1. /\ held[key] \in Nat /\ held[key] + Cardinality(Unserved) <= sent
        /\ sent <= MaxSent /\ sent \in Nat /\ MaxSent \in Nat
    BY ScreensBounds DEF ScreensShape, ScreensTypeOK, Contents
  <2>2. held'[key] \in {held[key], held[key] + 1}
    BY <1>1
  <2>3. held'[key] + Cardinality(Unserved') <= sent /\ held'[key] \in Nat
    BY <1>5, <2>1, <2>2
  <2> QED
    BY <1>1, <1>5, <2>1, <2>3 DEF Contents
<1>7. GapOf(c.op) \subseteq Lists
  <2>1. PICK page \in Pages : c.op \in OpsOf[page]
    BY <1>2 DEF Call, AnyOp
  <2> QED
    BY <2>1, OpsFit DEF OpFits
<1>8. held' \in [Lists -> Contents]
  BY <1>1, <1>6
<1> QED
  BY <1>1, <1>3, <1>6, <1>7, <1>8 DEF ScreensShape, ScreensTypeOK, Call

\* Calls that end, or are marked, count no more of them as unserved.
LEMMA FewerUnserved ==
    ASSUME ScreensShape, UNCHANGED <<tour, held, sent>>,
           open' \in tour, query' \in [Lists -> Query], astray' \subseteq Lists,
           calls' \subseteq Call, IsFiniteSet(calls'),
           Cardinality(Unserved') <= Cardinality(Unserved)
    PROVE  ScreensShape'
<1>1. IsFiniteSet(Unserved) /\ Cardinality(Unserved) \in Nat
  BY UnservedAreFew DEF ScreensShape
<1>2. IsFiniteSet(Unserved') /\ Cardinality(Unserved') \in Nat
  <2>1. Unserved' \subseteq calls'
    BY DEF Unserved
  <2> QED
    BY <2>1, FS_Subset, FS_CardinalityType
<1>3. ASSUME NEW key \in Lists
      PROVE  held'[key] + Cardinality(Unserved') <= sent'
  <2>1. /\ held[key] \in Nat /\ held[key] + Cardinality(Unserved) <= sent /\ sent \in Nat
    BY ScreensBounds DEF ScreensShape, ScreensTypeOK, Contents
  <2> QED
    BY <1>1, <1>2, <2>1
<1> QED
  BY <1>3 DEF ScreensShape, ScreensTypeOK, Query, Call

LEMMA FewerCalls ==
    ASSUME ScreensShape, UNCHANGED <<tour, held, sent>>,
           open' \in tour, query' \in [Lists -> Query], astray' \subseteq Lists,
           calls' \subseteq Call, Unserved' \subseteq Unserved, IsFiniteSet(calls')
    PROVE  ScreensShape'
<1>1. IsFiniteSet(Unserved)
  BY UnservedAreFew DEF ScreensShape
<1>2. Cardinality(Unserved') <= Cardinality(Unserved)
  BY <1>1, FS_Subset
<1> QED
  BY <1>2, FewerUnserved

LEMMA SendCounts ==
    ASSUME ScreensShape, NEW op \in OpsOf[open], Send(op)
    PROVE  ScreensShape'
<1> DEFINE new == [id |-> sent + 1, op |-> op, state |-> "sent", waits |-> TRUE]
<1>1. /\ UNCHANGED <<tour, open, held, query, astray>> /\ sent < MaxSent /\ sent' = sent + 1
      /\ calls' = calls \cup {new}
  BY DEF Send
<1>2. sent \in Nat /\ sent <= MaxSent /\ MaxSent \in Nat /\ open \in Pages
  BY ScreensBounds, ToursArePages DEF ScreensShape, ScreensTypeOK
<1>3. new \in Call
  BY <1>2 DEF Call, AnyOp
<1>4. Unserved' = Unserved \cup {new}
  BY <1>1 DEF Unserved
<1> HIDE DEF new
<1>5. /\ Cardinality(Unserved') \in Nat /\ Cardinality(Unserved) \in Nat
      /\ Cardinality(Unserved') <= Cardinality(Unserved) + 1
  <2>1. IsFiniteSet(Unserved) /\ Cardinality(Unserved) \in Nat
    BY UnservedAreFew DEF ScreensShape
  <2>2. /\ Cardinality(Unserved \cup {new}) \in Nat
        /\ Cardinality(Unserved \cup {new}) <= Cardinality(Unserved) + 1
    <3>1. CASE new \in Unserved
      BY <2>1, <3>1, FS_AddElement
    <3>2. CASE new \notin Unserved
      <4>1. Cardinality(Unserved \cup {new}) = Cardinality(Unserved) + 1
        BY <2>1, <3>2, FS_AddElement
      <4> QED
        BY <2>1, <4>1
    <3> QED
      BY <3>1, <3>2
  <2> QED
    BY <1>4, <2>1, <2>2
<1>6. IsFiniteSet(calls') /\ calls' \subseteq Call
  BY <1>1, <1>3, FS_AddElement DEF ScreensShape
<1>7. ASSUME NEW key \in Lists
      PROVE  held'[key] + Cardinality(Unserved') <= sent'
  <2>1. held[key] \in Nat /\ held[key] + Cardinality(Unserved) <= sent
    BY ScreensBounds DEF ScreensShape, ScreensTypeOK, Contents
  <2> QED
    BY <1>1, <1>2, <1>5, <2>1
<1>8. sent' \in 0 .. MaxSent
  BY <1>1, <1>2
<1> QED
  BY <1>1, <1>6, <1>7, <1>8 DEF ScreensShape, ScreensTypeOK, Call

\* The image of a finite set is finite and no larger.
LEMMA ImageIsFew ==
    ASSUME NEW S, IsFiniteSet(S), NEW f, DOMAIN f = S
    PROVE  /\ IsFiniteSet({f[x] : x \in S})
           /\ Cardinality({f[x] : x \in S}) <= Cardinality(S)
<1> DEFINE T == {f[x] : x \in S}
           g == [x \in S |-> f[x]]
<1>1. g \in Surjection(S, T)
  BY DEF Surjection
<1> HIDE DEF T, g
<1>2. IsFiniteSet(T) /\ Cardinality(T) <= Cardinality(S)
  BY <1>1, FS_Surjection
<1> QED
  BY <1>2 DEF T

LEMMA VisitCounts ==
    ASSUME ScreensShape, NEW page \in tour, NEW old, Visit(page, old)
    PROVE  ScreensShape'
<1> DEFINE Forgets(c) == [c EXCEPT !.waits = FALSE]
<1>1. /\ UNCHANGED <<tour, held, sent>> /\ open' = page
      /\ query' = Mount(query, ListsOf[page], old)
      /\ calls' = {Forgets(c) : c \in calls}
      /\ astray' \subseteq astray
  BY DEF Visit
<1>2. query' \in [Lists -> Query]
  <2>1. query \in [Lists -> Query]
    BY DEF ScreensShape, ScreensTypeOK, Query
  <2> QED
    BY <1>1, <2>1, MountKeepsQueries
<1>3. \A c \in calls : Forgets(c) \in Call /\ Forgets(c).state = c.state
  BY DEF ScreensShape, Call
<1>4. calls' \subseteq Call
  BY <1>1, <1>3
<1>5. Unserved' = {Forgets(c) : c \in Unserved}
  BY <1>1, <1>3 DEF Unserved
<1>6. IsFiniteSet(calls')
  <2> DEFINE forget == [c \in calls |-> Forgets(c)]
  <2>1. calls' = {forget[c] : c \in calls}
    BY <1>1
  <2>2. DOMAIN forget = calls /\ IsFiniteSet(calls)
    BY DEF ScreensShape
  <2> HIDE DEF forget
  <2> QED
    BY <2>1, <2>2, ImageIsFew
<1>7. Cardinality(Unserved') <= Cardinality(Unserved)
  <2> DEFINE forget == [c \in Unserved |-> Forgets(c)]
  <2>1. Unserved' = {forget[c] : c \in Unserved}
    BY <1>5
  <2>2. IsFiniteSet(Unserved)
    BY UnservedAreFew DEF ScreensShape
  <2>3. DOMAIN forget = Unserved
    OBVIOUS
  <2> HIDE DEF forget
  <2> QED
    BY <2>1, <2>2, <2>3, ImageIsFew
<1> QED
  BY <1>1, <1>2, <1>4, <1>6, <1>7, FewerUnserved DEF ScreensShape, ScreensTypeOK

LEMMA CallEnds ==
    ASSUME ScreensShape, NEW c \in calls, calls' = calls \ {c}
    PROVE  calls' \subseteq Call /\ Unserved' \subseteq Unserved /\ IsFiniteSet(calls')
  BY FS_RemoveElement DEF ScreensShape, Unserved

LEMMA ScreensShapeKept ==
    ASSUME ScreensShape, [ScreensNext]_screensVars
    PROVE  ScreensShape'
<1>1. query \in [Lists -> Query] /\ open \in tour /\ astray \subseteq Lists
  BY DEF ScreensShape, ScreensTypeOK, Query
<1>2. CASE UNCHANGED screensVars
  BY <1>2 DEF ScreensShape, ScreensTypeOK, Unserved, screensVars
<1>3. ASSUME NEW key \in Lists,
             ApiReads(key) \/ ListArrives(key) \/ ListFails(key) \/ Poll(key)
      PROVE  ScreensShape'
  <2>1. UNCHANGED <<tour, open, held, sent, calls>>
    BY <1>3 DEF ApiReads, ListArrives, ListFails, Poll
  <2>2. astray' \subseteq Lists
    BY <1>1, <1>3 DEF ApiReads, ListArrives, ListFails, Poll
  <2>3. query[key] \in Query /\ query[key].read \in Contents \cup {NotLoaded}
        /\ held[key] \in Contents
    BY <1>1 DEF Query, ScreensShape, ScreensTypeOK
  <2>4. query' \in [Lists -> Query]
    <3>1. CASE ApiReads(key)
      BY <1>1, <2>3, <3>1 DEF ApiReads, Query
    <3>2. CASE ListArrives(key)
      <4>1. Fresh(query[key].read) \in Query
        BY <2>3 DEF Fresh, Unread, Query
      <4> QED
        BY <1>1, <3>2, <4>1 DEF ListArrives
    <3>3. CASE ListFails(key)
      BY <1>1, <2>3, <3>3 DEF ListFails, Query
    <3>4. CASE Poll(key)
      BY <1>1, <2>3, <3>4 DEF Poll, Asked, Query
    <3> QED
      BY <1>3, <3>1, <3>2, <3>3, <3>4
  <2>5. calls' \subseteq Call /\ Unserved' \subseteq Unserved /\ IsFiniteSet(calls')
    BY <2>1 DEF ScreensShape, Unserved
  <2> QED
    BY <1>1, <2>1, <2>2, <2>4, <2>5, FewerCalls
<1>4. ASSUME NEW c \in calls, ApiRefuses(c)
      PROVE  ScreensShape'
  <2>1. /\ UNCHANGED <<tour, open, held, sent, query, astray>>
        /\ calls' = (calls \ {c}) \cup {[c EXCEPT !.state = "refused"]}
    BY <1>4 DEF ApiRefuses
  <2>2. [c EXCEPT !.state = "refused"] \in Call
        /\ [c EXCEPT !.state = "refused"].state = "refused"
    BY DEF ScreensShape, Call
  <2>3. calls' \subseteq Call /\ IsFiniteSet(calls')
    BY <2>1, <2>2, FS_AddElement, FS_RemoveElement DEF ScreensShape
  <2>4. Unserved' \subseteq Unserved
    BY <2>1, <2>2 DEF Unserved
  <2> QED
    BY <1>1, <2>1, <2>3, <2>4, FewerCalls
<1>5. ASSUME NEW c \in calls, Succeeds(c)
      PROVE  ScreensShape'
  <2>1. UNCHANGED <<tour, open, held, sent>> /\ calls' = calls \ {c}
    BY <1>5 DEF Succeeds
  <2>2. query' \in [Lists -> Query]
    BY <1>1, <1>5, InvalidateKeepsQueries DEF Succeeds
  <2>3. astray' \subseteq Lists
    <3>1. c.op.refreshes \subseteq Lists
      <4>1. PICK page \in Pages : c.op \in OpsOf[page]
        BY DEF ScreensShape, Call, AnyOp
      <4> QED
        BY <4>1, OpsFit DEF OpFits
    <3> QED
      BY <1>1, <1>5, <3>1 DEF Succeeds
  <2> QED
    BY <1>1, <2>1, <2>2, <2>3, CallEnds, FewerCalls
<1>6. ASSUME NEW c \in calls, Fails(c)
      PROVE  ScreensShape'
  <2>1. UNCHANGED <<tour, open, held, sent, query>> /\ calls' = calls \ {c}
    BY <1>6 DEF Fails
  <2>2. astray' \subseteq Lists
    <3>1. c.op.changes \subseteq Lists
      <4>1. PICK page \in Pages : c.op \in OpsOf[page]
        BY DEF ScreensShape, Call, AnyOp
      <4> QED
        BY <4>1, OpsFit DEF OpFits
    <3> QED
      BY <1>1, <1>6, <3>1 DEF Fails
  <2> QED
    BY <1>1, <2>1, <2>2, CallEnds, FewerCalls
<1> QED
  BY <1>2, <1>3, <1>4, <1>5, <1>6, ApiDoesCounts, SendCounts, VisitCounts DEF ScreensNext

LEMMA ScreensShapeHolds == ScreensSpec => []ScreensShape
<1>1. ScreensInit => ScreensShape
  BY ScreensStart
<1>2. ScreensShape /\ [ScreensNext]_screensVars => ScreensShape'
  BY ScreensShapeKept
<1> QED
  BY <1>1, <1>2, PTL DEF ScreensSpec

(***************************************************************************)
(* What a list holds stays among the values the model counts with: no step *)
(* of the console or the API leaves them, for any tours and columns.       *)
(***************************************************************************)
THEOREM ScreensAreTyped == ScreensSpec => []ScreensTypeOK
<1>1. ScreensShape => ScreensTypeOK
  BY DEF ScreensShape
<1> QED
  BY <1>1, ScreensShapeHolds, PTL

-----------------------------------------------------------------------------
(* What the operator's operations made of a list is shown, or will be *)

\* The API has changed the list and the answer has yet to refresh it.
Due(key) ==
    \E c \in calls : /\ c.state = "done"
                      /\ key \in c.op.changes /\ key \in c.op.refreshes

\* A fetch that was read holds the list as it is now, so does a cache no fetch is
\* to replace, or else a refresh is due; a page not mounted may hold what it has
\* not loaded, or what it knows to be old.
ShownOrDue(key) ==
    /\ query[key].fetch = "read" => query[key].read = held[key] \/ Due(key)
    /\ query[key].fetch = "none" =>
          \/ query[key].data = held[key] \/ Due(key)
          \/ key \notin Mounted(open) /\ (~Loaded(key) \/ query[key].invalid)

ListsAreShownOrDue == \A key \in Lists \ astray : ShownOrDue(key)

LEMMA ShownSuffices ==
    ASSUME ScreensShape, ListsAreShownOrDue
    PROVE  OwnChangesAreShown
<1> SUFFICES ASSUME AtRest, NEW key \in Mounted(open) \ astray
             PROVE  query[key].data = held[key]
  BY DEF OwnChangesAreShown
<1>1. open \in Pages
  BY ToursArePages DEF ScreensShape, ScreensTypeOK
<1>2. key \in Lists
  BY <1>1, PagesAre DEF Mounted
<1>3. ~Due(key) /\ query[key].fetch = "none"
  BY DEF AtRest, Due
<1> QED
  BY <1>2, <1>3 DEF ListsAreShownOrDue, ShownOrDue

LEMMA ListsStartShown ==
    ASSUME ScreensInit
    PROVE  ListsAreShownOrDue
<1> DEFINE first == [key \in Lists |-> IF key \in LayoutLists THEN Fresh(0) ELSE Unread]
<1> SUFFICES ASSUME NEW key \in Lists PROVE ShownOrDue(key)
  BY DEF ListsAreShownOrDue
<1>1. query = Mount(first, Mounted(open), {}) /\ held[key] = 0
  BY DEF ScreensInit
<1>2. /\ first[key].fetch = "none" /\ ~first[key].invalid
      /\ first[key].data = IF key \in LayoutLists THEN 0 ELSE NotLoaded
  BY DEF Fresh, Unread
<1>3. query[key] = IF key \in Mounted(open) /\ first[key].data = NotLoaded
                   THEN Asked(first[key]) ELSE first[key]
  BY <1>1, <1>2 DEF Mount
<1>4. Asked(first[key]).fetch = "asked"
  BY DEF Asked, Fresh, Unread
<1>5. CASE key \in Mounted(open) /\ first[key].data = NotLoaded
  BY <1>3, <1>4, <1>5 DEF ShownOrDue
<1>6. CASE ~(key \in Mounted(open) /\ first[key].data = NotLoaded)
  BY <1>1, <1>2, <1>3, <1>6 DEF ShownOrDue, Loaded
<1> QED
  BY <1>5, <1>6

\* A step of one list's fetch.
LEMMA FetchKeepsShown ==
    ASSUME ScreensShape, ListsAreShownOrDue, NEW key \in Lists,
           ApiReads(key) \/ ListArrives(key) \/ ListFails(key) \/ Poll(key)
    PROVE  ListsAreShownOrDue'
<1>1. UNCHANGED <<open, held, calls>> /\ astray \ {key} \subseteq astray'
  BY DEF ApiReads, ListArrives, ListFails, Poll
<1>2. \A other \in Lists : other # key => query'[other] = query[other]
  BY DEF ApiReads, ListArrives, ListFails, Poll, ScreensShape, ScreensTypeOK
<1>3. ASSUME NEW other \in Lists \ astray', other # key
      PROVE  ShownOrDue(other)'
  <2>1. ShownOrDue(other)
    BY <1>1, <1>3 DEF ListsAreShownOrDue
  <2> QED
    BY <1>1, <1>2, <1>3, <2>1 DEF ShownOrDue, Due, Loaded
<1>4. ASSUME key \notin astray'
      PROVE  ShownOrDue(key)'
  <2>1. query[key] \in Query
    BY DEF ScreensShape, ScreensTypeOK, Query
  <2>2. CASE ApiReads(key)
    <3>1. query'[key].fetch = "read" /\ query'[key].read = held[key]
      BY <2>1, <2>2 DEF ApiReads, Query, ScreensShape, ScreensTypeOK
    <3> QED
      BY <1>1, <3>1 DEF ShownOrDue
  <2>3. CASE ListArrives(key)
    <3>1. query[key].fetch = "read" /\ UNCHANGED astray
      BY <2>3 DEF ListArrives
    <3>2. query[key].read = held[key] \/ Due(key)
      BY <1>4, <3>1 DEF ListsAreShownOrDue, ShownOrDue
    <3>3. query'[key] = Fresh(query[key].read)
      BY <2>3 DEF ListArrives, ScreensShape, ScreensTypeOK
    <3>4. query'[key].fetch = "none" /\ query'[key].data = query[key].read
      BY <3>3 DEF Fresh, Unread
    <3> QED
      BY <1>1, <3>2, <3>4 DEF ShownOrDue, Due
  <2>4. CASE ListFails(key)
    BY <1>4, <2>4 DEF ListFails
  <2>5. CASE Poll(key)
    <3>1. query'[key].fetch = "asked"
      BY <2>1, <2>5 DEF Poll, Asked, Query, ScreensShape, ScreensTypeOK
    <3> QED
      BY <3>1 DEF ShownOrDue
  <2> QED
    BY <2>2, <2>3, <2>4, <2>5
<1> QED
  BY <1>3, <1>4 DEF ListsAreShownOrDue

LEMMA VisitKeepsShown ==
    ASSUME ScreensShape, ListsAreShownOrDue, NEW page \in tour,
           NEW old \in SUBSET ListsOf[page], Visit(page, old)
    PROVE  ListsAreShownOrDue'
<1>1. /\ open' = page /\ UNCHANGED held
      /\ query' = Mount(query, ListsOf[page], old)
      /\ astray' = astray \ Started(query')
      /\ calls' = {[c EXCEPT !.waits = FALSE] : c \in calls}
  BY DEF Visit
<1>2. ASSUME NEW key \in Lists, Due(key)
      PROVE  Due(key)'
  <2>1. PICK c \in calls : c.state = "done" /\ key \in c.op.changes /\ key \in c.op.refreshes
    BY <1>2 DEF Due
  <2>2. /\ [c EXCEPT !.waits = FALSE].state = "done"
        /\ [c EXCEPT !.waits = FALSE].op = c.op
        /\ [c EXCEPT !.waits = FALSE] \in calls'
    BY <1>1, <2>1 DEF ScreensShape, Call
  <2> QED
    BY <2>1, <2>2 DEF Due
<1>3. ASSUME NEW key \in Lists \ astray'
      PROVE  ShownOrDue(key)'
  <2>1. query[key] \in Query
    BY DEF ScreensShape, ScreensTypeOK, Query
  <2>2. CASE query'[key].fetch = "asked"
    BY <2>2 DEF ShownOrDue
  <2>3. CASE query'[key].fetch # "asked"
    <3>1. Asked(query[key]).fetch = "asked"
      BY <2>1 DEF Asked, Query
    <3>2. /\ query'[key] = query[key]
          /\ ~(key \in ListsOf[page] /\ query[key].fetch = "none"
                 /\ (query[key].data = NotLoaded \/ query[key].invalid))
      BY <1>1, <2>3, <3>1 DEF Mount
    <3>3. key \notin astray
      BY <1>1, <2>3 DEF Started
    <3>4. ShownOrDue(key)
      BY <3>3 DEF ListsAreShownOrDue
    <3>5. key \notin Mounted(open) => key \notin LayoutLists
      BY DEF Mounted
    <3> QED
      BY <1>1, <1>2, <3>2, <3>4, <3>5 DEF ShownOrDue, Loaded, Mounted
  <2> QED
    BY <2>2, <2>3
<1> QED
  BY <1>3 DEF ListsAreShownOrDue

LEMMA ApiDoesKeepsShown ==
    ASSUME ScreensShape, ListsAreShownOrDue, NEW c \in calls, ApiDoes(c)
    PROVE  ListsAreShownOrDue'
<1> DEFINE answered == [c EXCEPT !.state = "done"]
<1>1. /\ UNCHANGED <<open, query>> /\ c.state = "sent"
      /\ calls' = (calls \ {c}) \cup {answered}
      /\ astray' = astray \cup GapOf(c.op)
      /\ held' = [key \in Lists |-> IF key \in c.op.changes THEN held[key] + 1 ELSE held[key]]
  BY DEF ApiDoes
<1>2. answered.state = "done" /\ answered.op = c.op
  BY DEF ScreensShape, Call
<1>3. c.op.changes \subseteq c.op.refreshes \cup GapOf(c.op)
  <2>1. PICK page \in Pages : c.op \in OpsOf[page]
    BY DEF ScreensShape, Call, AnyOp
  <2> QED
    BY <2>1, OpsFit DEF OpFits
<1> HIDE DEF answered
<1>4. ASSUME NEW key \in Lists \ astray'
      PROVE  ShownOrDue(key)'
  <2>1. ShownOrDue(key)
    BY <1>1 DEF ListsAreShownOrDue
  <2>2. CASE key \in c.op.changes
    <3>1. key \in c.op.refreshes
      BY <1>1, <1>3, <2>2
    <3>2. Due(key)'
      BY <1>1, <1>2, <2>2, <3>1 DEF Due
    <3> QED
      BY <3>2 DEF ShownOrDue
  <2>3. CASE key \notin c.op.changes
    <3>1. held'[key] = held[key]
      BY <1>1, <2>3
    <3>2. Due(key) => Due(key)'
      BY <1>1 DEF Due
    <3> QED
      BY <1>1, <2>1, <3>1, <3>2 DEF ShownOrDue, Loaded
  <2> QED
    BY <2>2, <2>3
<1> QED
  BY <1>4 DEF ListsAreShownOrDue

LEMMA SucceedsKeepsShown ==
    ASSUME ScreensShape, ListsAreShownOrDue, NEW c \in calls, Succeeds(c)
    PROVE  ListsAreShownOrDue'
<1>1. /\ UNCHANGED <<open, held>> /\ calls' = calls \ {c}
      /\ query' = Invalidate(c.op.refreshes)
      /\ astray' = (astray \ {key \in c.op.refreshes : Restarts(key)})
             \cup {key \in c.op.refreshes : ~Restarts(key) /\ query[key].fetch # "none"}
  BY DEF Succeeds
<1>2. ASSUME NEW key \in Lists \ astray'
      PROVE  ShownOrDue(key)'
  <2>1. query[key] \in Query
    BY DEF ScreensShape, ScreensTypeOK, Query
  <2>2. CASE key \notin c.op.refreshes
    <3>1. query'[key] = query[key] /\ key \notin astray
      BY <1>1, <2>2 DEF Invalidate
    <3>2. Due(key) => Due(key)'
      BY <1>1, <2>2 DEF Due
    <3>3. ShownOrDue(key)
      BY <3>1 DEF ListsAreShownOrDue
    <3> QED
      BY <1>1, <3>1, <3>2, <3>3 DEF ShownOrDue, Loaded
  <2>3. CASE key \in c.op.refreshes /\ Restarts(key)
    <3>1. query'[key] = [Asked(query[key]) EXCEPT !.invalid = TRUE]
      BY <1>1, <2>3 DEF Invalidate
    <3>2. query'[key].fetch = "asked"
      BY <2>1, <3>1 DEF Asked, Query
    <3> QED
      BY <3>2 DEF ShownOrDue
  <2>4. CASE key \in c.op.refreshes /\ ~Restarts(key)
    <3>1. query'[key] = [query[key] EXCEPT !.invalid = TRUE]
      BY <1>1, <2>4 DEF Invalidate
    <3>2. query'[key].invalid /\ query'[key].fetch = query[key].fetch
      BY <2>1, <3>1 DEF Query
    <3>3. query[key].fetch = "none"
      BY <1>1, <2>4
    <3>4. key \notin Mounted(open)
      BY <2>4, <3>3 DEF Restarts
    <3> QED
      BY <1>1, <3>2, <3>3, <3>4 DEF ShownOrDue, Mounted
  <2> QED
    BY <2>2, <2>3, <2>4
<1> QED
  BY <1>2 DEF ListsAreShownOrDue

\* A call that fails, or was refused: lists it changed are astray.
LEMMA FailsKeepsShown ==
    ASSUME ScreensShape, ListsAreShownOrDue, NEW c \in calls, Fails(c) \/ ApiRefuses(c)
    PROVE  ListsAreShownOrDue'
<1>1. /\ UNCHANGED <<open, held, query>> /\ calls \ {c} \subseteq calls'
      /\ astray \subseteq astray'
      /\ c.state = "done" => c.op.changes \subseteq astray'
  BY DEF Fails, ApiRefuses
<1>2. ASSUME NEW key \in Lists \ astray'
      PROVE  ShownOrDue(key)'
  <2>1. ShownOrDue(key)
    BY <1>1 DEF ListsAreShownOrDue
  <2>2. Due(key) => Due(key)'
    BY <1>1 DEF Due
  <2> QED
    BY <1>1, <2>1, <2>2 DEF ShownOrDue, Loaded
<1> QED
  BY <1>2 DEF ListsAreShownOrDue

LEMMA ListsStayShown ==
    ASSUME ScreensShape, ListsAreShownOrDue, [ScreensNext]_screensVars
    PROVE  ListsAreShownOrDue'
<1>1. CASE UNCHANGED screensVars
  BY <1>1 DEF ListsAreShownOrDue, ShownOrDue, Due, Loaded, screensVars
<1>2. ASSUME NEW op \in OpsOf[open], Send(op)
      PROVE  ListsAreShownOrDue'
  <2>1. UNCHANGED <<open, held, query, astray>> /\ calls \subseteq calls'
    BY <1>2 DEF Send
  <2> QED
    BY <2>1 DEF ListsAreShownOrDue, ShownOrDue, Due, Loaded
<1> QED
  BY <1>1, <1>2, FetchKeepsShown, VisitKeepsShown, ApiDoesKeepsShown, SucceedsKeepsShown,
     FailsKeepsShown DEF ScreensNext

(***************************************************************************)
(* When nothing is under way, every list on the screen shows what the      *)
(* operator's operations made of it, but for the lists named `astray`: for *)
(* any columns, any tours between the pages and any number of operations,  *)
(* however answers, fetches, polls and visits cross (the onSuccess of      *)
(* every page's mutations; crm:108-123).                                   *)
(***************************************************************************)
THEOREM ListsShowOwnChanges == ScreensSpec => []OwnChangesAreShown
<1>1. ScreensInit => ListsAreShownOrDue
  BY ListsStartShown
<1>2. ScreensShape /\ ListsAreShownOrDue /\ [ScreensNext]_screensVars => ListsAreShownOrDue'
  BY ListsStayShown
<1>3. ScreensShape /\ ListsAreShownOrDue => OwnChangesAreShown
  BY ShownSuffices
<1> QED
  BY <1>1, <1>2, <1>3, ScreensShapeHolds, PTL DEF ScreensSpec

=============================================================================
