------------------------------ MODULE Screens ------------------------------
(***************************************************************************)
(* The lists of the web console and the operations offered on them.  A     *)
(* page shows what TanStack Query holds of its lists; an operation is sent *)
(* to the API and, once answered, refreshes the lists its onSuccess names. *)
(* What a list holds is the number of operations that changed it; the API  *)
(* is the one the console is written against.  An operation stands for     *)
(* its change to the lists of its own page: other pages read theirs anew   *)
(* when they are opened 30 s later.                                        *)
(***************************************************************************)
EXTENDS Naturals, FiniteSets, Sequences

CONSTANTS
    Columns,     \* stages the pipeline page shows, "WON" among them
    Tours,       \* sets of pages an operator goes to and fro between
    MaxSent,     \* bound: operations in one behaviour
    MaxMisses    \* bound: operations refused or unanswered, lists not loaded

ASSUME ScreensBounds == MaxSent \in Nat \ {0} /\ MaxMisses \in Nat /\ "WON" \in Columns

VARIABLES
    tour,     \* the pages of this behaviour
    open,     \* the page that is mounted
    held,     \* list -> what the API holds of it
    query,    \* list -> what is cached, whether it is invalidated, its fetch
    calls,    \* operations the API has not answered
    sent, misses,
    astray    \* lists whose cache may differ for a reason OwnChangesAreShown names

screensVars == <<tour, open, held, query, calls, sent, misses, astray>>

-----------------------------------------------------------------------------
(* The lists of each page *)

ColumnKey(stage) == "crm-stage-" \o stage

CrmLists == {"crm-summary"} \cup {ColumnKey(stage) : stage \in Columns}
ApprovalLists == {"approval-queue"}
CampaignsLists == {"campaigns"}
LeadsLists == {"leads"}
InboxLists == {"conversations", "settings-senders"}
SuppressionLists == {"suppression"}
SettingsLists == {"settings-senders"}
ImportsLists == {"imports"}
LayoutLists == {"branding"}

ListsOf ==
    [crm |-> CrmLists, approval |-> ApprovalLists, campaigns |-> CampaignsLists,
     leads |-> LeadsLists, inbox |-> InboxLists, suppression |-> SuppressionLists,
     settings |-> SettingsLists \cup LayoutLists, imports |-> ImportsLists]
Pages == DOMAIN ListsOf
Lists == LayoutLists \cup UNION {ListsOf[p] : p \in Pages}

ASSUME ToursArePages == Tours \subseteq SUBSET Pages

Polled == {"approval-queue", "conversations", "imports", "campaigns"}

\* The layout stays mounted around every page, and has loaded.
Mounted(page) == LayoutLists \cup ListsOf[page]

-----------------------------------------------------------------------------
(* The operations: the mutation, whether its button is disabled while it is *)
(* pending, the lists that must have loaded for it to be offered, the lists *)
(* it changes, the lists its onSuccess refreshes                            *)

Op(mutation, once, needs, changes, refreshes) ==
    [mutation |-> mutation, once |-> once, needs |-> needs, changes |-> changes,
     refreshes |-> refreshes]

MoveStage(from, to) ==
    Op("moveStage", FALSE, {"crm-summary", ColumnKey(from)},
       {"crm-summary", ColumnKey(from), ColumnKey(to)}, CrmLists)
\* Mutant: only the figures are refreshed.
RecordRevenueUnshown(from) ==
    Op("recordRevenue", TRUE, {"crm-summary", ColumnKey(from)},
       {"crm-summary", ColumnKey(from), ColumnKey("WON")}, {"crm-summary"})
RecordRevenue(from) ==
    Op("recordRevenue", TRUE, {"crm-summary", ColumnKey(from)},
       {"crm-summary", ColumnKey(from), ColumnKey("WON")},
       {"crm-summary", ColumnKey("WON")})
CardControls(stage) ==
    {MoveStage(stage, to) : to \in Columns \ {stage}}
      \cup (IF stage = "WON" THEN {} ELSE {RecordRevenue(stage)})
CrmOps == UNION {CardControls(stage) : stage \in Columns}

ActOnDraft(once) == Op("approvalAction", once, ApprovalLists, ApprovalLists, ApprovalLists)
ApproveAll ==
    Op("approveAll", TRUE, ApprovalLists, ApprovalLists, ApprovalLists \cup {"campaigns"})
EditDraft == Op("editDraft", TRUE, ApprovalLists, ApprovalLists, ApprovalLists)
ReviewActions == {ActOnDraft(TRUE), ActOnDraft(FALSE)}
EditDialog == {ActOnDraft(FALSE), EditDraft}
ApprovalOps == ReviewActions \cup EditDialog \cup {ApproveAll}

DeleteCampaign == Op("deleteCampaign", TRUE, {"campaigns"}, {"campaigns"}, {"campaigns"})
CreateCampaign == Op("createCampaign", TRUE, {}, {"campaigns"}, {"campaigns"})
ActOnCampaign(once) ==
    Op("campaignAction", once, {"campaigns"}, {"campaigns"}, {"campaigns"})
CampaignControls == {ActOnCampaign(TRUE), ActOnCampaign(FALSE), DeleteCampaign}
CampaignsOps == CampaignControls \cup {CreateCampaign}

SuppressShown == Op("suppressViewed", FALSE, LeadsLists, LeadsLists, LeadsLists)
DiscoverLeads == Op("discover", TRUE, {}, LeadsLists, LeadsLists)
\* It leads to the campaigns page, whose list it changes and does not refresh.
CreateForTicked == Op("createForTicked", TRUE, LeadsLists, {"campaigns"}, {})
LeadsOps == {SuppressShown, DiscoverLeads, CreateForTicked}

SendReply == Op("sendReply", TRUE, {"conversations"}, {"conversations"}, {"conversations"})
ComposeMessage == Op("compose", TRUE, {}, {"conversations"}, {"conversations"})
DeleteConversation ==
    Op("deleteConversation", TRUE, {"conversations"}, {"conversations"}, {"conversations"})
UpdateLeadStage ==
    Op("updateLeadStage", FALSE, {"conversations"}, {"conversations"}, {"conversations"})
SuppressLead ==
    Op("suppressLead", FALSE, {"conversations"}, {"conversations"}, {"conversations"})
ThreadControls == {UpdateLeadStage, SuppressLead, DeleteConversation}
InboxOps == ThreadControls \cup {SendReply, ComposeMessage}

AddSuppression == Op("addSuppression", TRUE, {}, SuppressionLists, SuppressionLists)
RemoveSuppression ==
    Op("removeSuppression", FALSE, SuppressionLists, SuppressionLists, SuppressionLists)
SuppressionOps == {AddSuppression, RemoveSuppression}

SaveBranding == Op("saveBranding", TRUE, {}, {"branding"}, {"branding"})
UploadLogo == Op("logo", TRUE, {}, {"branding"}, {"branding"})
DeleteLogo == Op("logo", TRUE, {"branding"}, {"branding"}, {"branding"})
CreateSender == Op("createSender", TRUE, {}, SettingsLists, SettingsLists)
DeleteSender == Op("deleteSender", FALSE, SettingsLists, SettingsLists, SettingsLists)
ChangePassword == Op("changePassword", TRUE, {}, {}, {})
BrandingOps == {SaveBranding, UploadLogo, DeleteLogo}
SettingsOps == BrandingOps \cup {CreateSender, DeleteSender, ChangePassword}

StartImport == Op("startImport", TRUE, {}, ImportsLists, ImportsLists)

OpsOf ==
    [crm |-> CrmOps, approval |-> ApprovalOps, campaigns |-> CampaignsOps,
     leads |-> LeadsOps, inbox |-> InboxOps, suppression |-> SuppressionOps,
     settings |-> SettingsOps, imports |-> {StartImport}]

-----------------------------------------------------------------------------
(* TanStack Query 5 *)

NotLoaded == MaxSent + 1
Contents == 0 .. MaxSent
Unread == [data |-> NotLoaded, invalid |-> FALSE, fetch |-> "none", read |-> NotLoaded]
Fresh(n) == [Unread EXCEPT !.data = n]
Loaded(key) == query[key].data # NotLoaded

ScreensTypeOK ==
    /\ tour \in Tours /\ open \in tour
    /\ held \in [Lists -> Contents]
    /\ query \in [Lists -> [data : Contents \cup {NotLoaded}, invalid : BOOLEAN,
                           fetch : {"none", "asked", "read"},
                           read : Contents \cup {NotLoaded}]]
    /\ \A c \in calls : c.state \in {"sent", "done", "refused"}
    /\ astray \subseteq Lists

Asked(q) == [q EXCEPT !.fetch = "asked", !.read = NotLoaded]

\* A list that is mounted is fetched when it never loaded or is invalidated, and
\* when it is older than 30 s (`old`); a fetch in flight is shared.
Mount(q, lists, old) ==
    [key \in Lists |->
        IF key \in lists /\ q[key].fetch = "none"
             /\ (q[key].data = NotLoaded \/ q[key].invalid \/ key \in old)
        THEN Asked(q[key]) ELSE q[key]]

\* invalidateQueries starts the fetch of a mounted list again, except a first one,
\* which it joins; a list that is not mounted is only marked.
Restarts(key) == key \in Mounted(open) /\ (Loaded(key) \/ query[key].fetch = "none")

Invalidate(keys) ==
    [key \in Lists |->
        IF key \notin keys THEN query[key]
        ELSE [(IF Restarts(key) THEN Asked(query[key]) ELSE query[key])
                EXCEPT !.invalid = TRUE]]

Started(q) == {key \in Lists : q[key].fetch = "asked" /\ query[key].fetch # "asked"}

-----------------------------------------------------------------------------

ScreensInit ==
    /\ tour \in Tours /\ open \in tour
    /\ held = [key \in Lists |-> 0]
    /\ query = Mount([key \in Lists |-> IF key \in LayoutLists THEN Fresh(0) ELSE Unread],
                     Mounted(open), {})
    /\ calls = {} /\ sent = 0 /\ misses = 0 /\ astray = {}

\* The API reads the list of a fetch; the browser receives it; both tries failed.
ApiReads(key) ==
    /\ query[key].fetch = "asked"
    /\ query' = [query EXCEPT ![key].fetch = "read", ![key].read = held[key]]
    /\ UNCHANGED <<tour, open, held, calls, sent, misses, astray>>

ListArrives(key) ==
    /\ query[key].fetch = "read"
    /\ query' = [query EXCEPT ![key] = Fresh(@.read)]
    /\ UNCHANGED <<tour, open, held, calls, sent, misses, astray>>

ListFails(key) ==
    /\ query[key].fetch # "none" /\ misses < MaxMisses
    /\ query' = [query EXCEPT ![key].fetch = "none", ![key].read = NotLoaded]
    /\ misses' = misses + 1 /\ astray' = astray \cup {key}
    /\ UNCHANGED <<tour, open, held, calls, sent>>

Poll(key) ==
    /\ key \in Polled \cap Mounted(open) /\ query[key].fetch = "none"
    /\ query' = [query EXCEPT ![key] = Asked(@)]
    /\ astray' = astray \ {key}
    /\ UNCHANGED <<tour, open, held, calls, sent, misses>>

\* The page's own lists are mounted, not the layout's; a page mounted again forgets
\* which of its buttons were waiting.
Visit(page, old) ==
    /\ page # open
    /\ open' = page
    /\ query' = Mount(query, ListsOf[page], old)
    /\ astray' = astray \ Started(query')
    /\ calls' = {[c EXCEPT !.waits = FALSE] : c \in calls}
    /\ UNCHANGED <<tour, held, sent, misses>>

Offered(op) ==
    /\ \A key \in op.needs : Loaded(key)
    /\ op.once => ~\E c \in calls : c.op.mutation = op.mutation /\ c.waits

Send(op) ==
    /\ Offered(op) /\ sent < MaxSent
    /\ sent' = sent + 1
    /\ calls' = calls \cup {[id |-> sent', op |-> op, state |-> "sent", waits |-> TRUE]}
    /\ UNCHANGED <<tour, open, held, query, misses, astray>>

\* A payment moves the lead out of the column it was in.
GapOf(op) ==
    CASE op.mutation = "recordRevenue" -> op.changes \ {"crm-summary", ColumnKey("WON")}
      [] op.mutation = "createForTicked" -> {"campaigns"}
      [] OTHER -> {}

ApiDoes(c) ==
    /\ c.state = "sent"
    /\ held' = [key \in Lists |-> IF key \in c.op.changes THEN held[key] + 1 ELSE held[key]]
    /\ calls' = (calls \ {c}) \cup {[c EXCEPT !.state = "done"]}
    /\ astray' = astray \cup GapOf(c.op)
    /\ UNCHANGED <<tour, open, query, sent, misses>>

ApiRefuses(c) ==
    /\ c.state = "sent" /\ misses < MaxMisses
    /\ misses' = misses + 1
    /\ calls' = (calls \ {c}) \cup {[c EXCEPT !.state = "refused"]}
    /\ UNCHANGED <<tour, open, held, query, sent, astray>>

\* onSuccess runs also when the page was left.
Succeeds(c) ==
    /\ c.state = "done"
    /\ calls' = calls \ {c}
    /\ query' = Invalidate(c.op.refreshes)
    /\ astray' = (astray \ {key \in c.op.refreshes : Restarts(key)})
                   \cup {key \in c.op.refreshes : ~Restarts(key) /\ query[key].fetch # "none"}
    /\ UNCHANGED <<tour, open, held, sent, misses>>

\* onError refreshes nothing: the API refused, or did it and the answer was lost.
Fails(c) ==
    /\ c.state = "refused" \/ (c.state = "done" /\ misses < MaxMisses)
    /\ calls' = calls \ {c}
    /\ IF c.state = "done"
       THEN misses' = misses + 1 /\ astray' = astray \cup c.op.changes
       ELSE UNCHANGED <<misses, astray>>
    /\ UNCHANGED <<tour, open, held, query, sent>>

ScreensNext ==
    \/ \E key \in Lists : ApiReads(key) \/ ListArrives(key) \/ ListFails(key) \/ Poll(key)
    \/ \E page \in tour : \E old \in SUBSET ListsOf[page] : Visit(page, old)
    \/ \E op \in OpsOf[open] : Send(op)
    \/ \E c \in calls : ApiDoes(c) \/ ApiRefuses(c) \/ Succeeds(c) \/ Fails(c)

ScreensSpec == ScreensInit /\ [][ScreensNext]_screensVars

-----------------------------------------------------------------------------
(* Properties *)

AtRest == calls = {} /\ \A key \in Mounted(open) : query[key].fetch = "none"

\* When nothing is under way, every list on the screen shows what the operator's
\* operations made of it, however their answers crossed the fetches, polls and
\* changes of page.  The exceptions (`astray`, until the list is fetched again) are
\* the column a paid lead left and the campaign made from the leads page, which no
\* onSuccess refreshes, an answer or a list that did not arrive, and a refresh that
\* joined a fetch begun before the operation (the onSuccess of every page's
\* mutations; crm:108-123).
OwnChangesAreShown ==
    AtRest => \A key \in Mounted(open) \ astray : query[key].data = held[key]

=============================================================================
