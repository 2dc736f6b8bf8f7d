----------------------------- MODULE LeadsPage -----------------------------
(***************************************************************************)
(* The leads page: rows of a filtered, paged table, the leads ticked across *)
(* them, and the campaign created for the ticked ones or after a discovery. *)
(* A campaign posted without ids enrols every lead not yet contacted.       *)
(***************************************************************************)
EXTENDS Naturals, FiniteSets, Sequences

CONSTANTS
    Leads,      \* their numbers, newest first
    FreshLeads, \* those the IMPORTED filter keeps
    PageLength, \* rows of a page: 25
    MaxPosts,   \* bound: discoveries, suppressions and campaigns asked for
    MaxTurns    \* bound: pages turned forward

ASSUME LeadsPageBounds ==
    /\ Leads \subseteq Nat \ {0} /\ FreshLeads \subseteq Leads
    /\ PageLength \in Nat \ {0} /\ {MaxPosts, MaxTurns} \subseteq Nat

VARIABLES
    filter,        \* crmFilter: "ALL" or "IMPORTED"
    cursor,        \* the lead the page begins after, 0 on the first
    history,       \* cursorHistory
    loaded,        \* the rows of this filter and cursor have been answered
    ticked,        \* selectedLeadIds
    viewed,        \* selectedLead, 0 when none
    suppressing,   \* a suppression has been asked for
    discover,      \* the dialog is open; its request runs; its result is shown
    campaign,      \* the dialog is open; its name is not empty; its request runs
    opener,        \* what opened the dialog last: "ticked" or "discover" (history)
    turns, posts,
    created        \* campaigns posted: their leads, and what opened the dialog (history)

leadsPageVars ==
    <<filter, cursor, history, loaded, ticked, viewed, suppressing, discover, campaign, opener,
      turns, posts, created>>

-----------------------------------------------------------------------------

Kept == IF filter = "ALL" THEN Leads ELSE FreshLeads
After(c) == {l \in Kept : l > c}
Rows ==
    IF ~loaded THEN {}
    ELSE {l \in After(cursor) : Cardinality({k \in After(cursor) : k <= l}) <= PageLength}

LeadsPageTypeOK ==
    /\ filter \in {"ALL", "IMPORTED"}
    /\ cursor \in Leads \cup {0} /\ history \in Seq(Leads)
    /\ ticked \subseteq Leads /\ viewed \in Leads \cup {0}
    /\ {loaded, suppressing} \subseteq BOOLEAN
    /\ discover \in [open : BOOLEAN, asked : BOOLEAN, result : BOOLEAN]
    /\ campaign \in [open : BOOLEAN, named : BOOLEAN, asked : BOOLEAN]
    /\ opener \in {"none", "ticked", "discover"}
    /\ created \subseteq [leads : SUBSET Leads, opener : {"ticked", "discover"}]

NoDialog == ~discover.open /\ ~campaign.open /\ viewed = 0

TableStays == UNCHANGED <<filter, cursor, history, loaded, turns>>
DialogsStay == UNCHANGED <<viewed, suppressing, discover, campaign, opener, posts, created>>

LeadsPageInit ==
    /\ filter = "ALL" /\ cursor = 0 /\ history = <<>> /\ loaded = FALSE
    /\ ticked = {} /\ viewed = 0 /\ suppressing = FALSE
    /\ discover = [open |-> FALSE, asked |-> FALSE, result |-> FALSE]
    /\ campaign = [open |-> FALSE, named |-> FALSE, asked |-> FALSE]
    /\ opener = "none" /\ turns = 0 /\ posts = 0 /\ created = {}

-----------------------------------------------------------------------------
(* The table *)

RowsArrive ==
    /\ ~loaded /\ loaded' = TRUE
    /\ UNCHANGED <<filter, cursor, history, turns, ticked>> /\ DialogsStay

\* The first page of the other filter; cursorHistory stays.
SetFilter ==
    /\ NoDialog
    /\ filter' \in {"ALL", "IMPORTED"} \ {filter}
    /\ cursor' = 0 /\ loaded' \in BOOLEAN
    /\ UNCHANGED <<history, turns, ticked>> /\ DialogsStay

HandleNextPage ==
    /\ NoDialog /\ loaded /\ turns < MaxTurns
    /\ After(cursor) # Rows
    /\ history' = IF cursor = 0 THEN history ELSE Append(history, cursor)
    /\ cursor' \in {l \in Rows : \A k \in Rows : k <= l}
    /\ loaded' \in BOOLEAN /\ turns' = turns + 1
    /\ UNCHANGED <<filter, ticked>> /\ DialogsStay

HandlePrevPage ==
    /\ NoDialog /\ (history # <<>> \/ cursor # 0)
    /\ cursor' = IF history = <<>> THEN 0 ELSE history[Len(history)]
    /\ history' = IF history = <<>> THEN <<>> ELSE SubSeq(history, 1, Len(history) - 1)
    /\ loaded' \in BOOLEAN
    /\ UNCHANGED <<filter, turns, ticked>> /\ DialogsStay

\* The box in the header ticks or unticks the page; leads of other pages stay.
TickPage ==
    /\ NoDialog /\ Rows # {}
    /\ ticked' = IF Rows \subseteq ticked THEN ticked \ Rows ELSE ticked \cup Rows
    /\ TableStays /\ DialogsStay

TickLead(l) ==
    /\ NoDialog /\ l \in Rows
    /\ ticked' = IF l \in ticked THEN ticked \ {l} ELSE ticked \cup {l}
    /\ TableStays /\ DialogsStay

ClearSelection ==
    /\ NoDialog /\ ticked # {}
    /\ ticked' = {}
    /\ TableStays /\ DialogsStay

-----------------------------------------------------------------------------
(* One lead, and discovery *)

ViewLead(l) ==
    /\ NoDialog /\ l \in Rows
    /\ viewed' = l
    /\ UNCHANGED <<ticked, suppressing, discover, campaign, opener, posts, created>> /\ TableStays

CloseLead ==
    /\ viewed # 0 /\ viewed' = 0
    /\ UNCHANGED <<ticked, suppressing, discover, campaign, opener, posts, created>> /\ TableStays

SuppressViewed ==
    /\ viewed # 0 /\ ~suppressing /\ posts < MaxPosts
    /\ suppressing' = TRUE /\ posts' = posts + 1
    /\ UNCHANGED <<ticked, viewed, discover, campaign, opener, created>> /\ TableStays

\* Whichever lead is viewed by then is closed; a refusal is not told.  The rows are
\* fetched again.
SuppressAnswered ==
    /\ suppressing /\ suppressing' = FALSE
    /\ viewed' \in {viewed, 0}
    /\ UNCHANGED <<ticked, discover, campaign, opener, posts, created>> /\ TableStays

OpenDiscover ==
    /\ NoDialog
    /\ discover' = [discover EXCEPT !.open = TRUE]
    /\ UNCHANGED <<ticked, viewed, suppressing, campaign, opener, posts, created>> /\ TableStays

\* The Close button drops the result, the overlay does not and works while it runs.
CloseDiscover ==
    /\ discover.open
    /\ \/ discover' = [discover EXCEPT !.open = FALSE]
       \/ ~discover.asked /\ discover' = [discover EXCEPT !.open = FALSE, !.result = FALSE]
    /\ UNCHANGED <<ticked, viewed, suppressing, campaign, opener, posts, created>> /\ TableStays

HandleStartDiscovery ==
    /\ discover.open /\ ~discover.asked /\ posts < MaxPosts
    /\ discover' = [discover EXCEPT !.asked = TRUE, !.result = FALSE]
    /\ posts' = posts + 1
    /\ UNCHANGED <<ticked, viewed, suppressing, campaign, opener, created>> /\ TableStays

DiscoveryAnswered ==
    /\ discover.asked
    /\ \E found \in BOOLEAN :
          discover' = [discover EXCEPT !.asked = FALSE, !.result = found]
    /\ UNCHANGED <<ticked, viewed, suppressing, campaign, opener, posts, created>> /\ TableStays

-----------------------------------------------------------------------------
(* The campaign dialog *)

CampaignForTicked ==
    /\ NoDialog /\ ticked # {}
    /\ campaign' = [campaign EXCEPT !.open = TRUE, !.named = TRUE]
    /\ opener' = "ticked"
    /\ UNCHANGED <<ticked, viewed, suppressing, discover, posts, created>> /\ TableStays

\* What was ticked stays ticked; the leads found are not.
CampaignAfterDiscovery ==
    /\ discover.open /\ discover.result
    /\ discover' = [discover EXCEPT !.open = FALSE]
    /\ campaign' = [campaign EXCEPT !.open = TRUE, !.named = TRUE]
    /\ opener' = "discover"
    /\ filter' = "IMPORTED" /\ loaded' \in BOOLEAN
    /\ UNCHANGED <<cursor, history, turns, ticked, viewed, suppressing, posts, created>>

NameCampaign ==
    /\ campaign.open
    /\ campaign' = [campaign EXCEPT !.named = ~@]
    /\ UNCHANGED <<ticked, viewed, suppressing, discover, opener, posts, created>> /\ TableStays

CloseCampaign ==
    /\ campaign.open
    /\ campaign' = [campaign EXCEPT !.open = FALSE]
    /\ UNCHANGED <<ticked, viewed, suppressing, discover, opener, posts, created>> /\ TableStays

HandleCreateCampaign ==
    /\ campaign.open /\ campaign.named /\ ~campaign.asked /\ posts < MaxPosts
    /\ campaign' = [campaign EXCEPT !.asked = TRUE] /\ posts' = posts + 1
    /\ created' = created \cup {[leads |-> ticked, opener |-> opener]}
    /\ UNCHANGED <<ticked, viewed, suppressing, discover, opener>> /\ TableStays

\* Mutant: the dialog stays open.
CreateSucceedsOpen ==
    /\ campaign.asked
    /\ ticked' = {}
    /\ campaign' = [campaign EXCEPT !.asked = FALSE, !.named = FALSE]
    /\ UNCHANGED <<viewed, suppressing, discover, opener, posts, created>> /\ TableStays

\* The way to /campaigns begins; until it ends the page can still be used.
CreateSucceeds ==
    /\ campaign.asked
    /\ ticked' = {}
    /\ campaign' = [open |-> FALSE, named |-> FALSE, asked |-> FALSE]
    /\ UNCHANGED <<viewed, suppressing, discover, opener, posts, created>> /\ TableStays

CreateFails ==
    /\ campaign.asked
    /\ campaign' = [campaign EXCEPT !.asked = FALSE]
    /\ UNCHANGED <<ticked, viewed, suppressing, discover, opener, posts, created>> /\ TableStays

LeadsPageNext ==
    \/ RowsArrive \/ SetFilter \/ HandleNextPage \/ HandlePrevPage
    \/ TickPage \/ ClearSelection
    \/ \E l \in Leads : TickLead(l) \/ ViewLead(l)
    \/ CloseLead \/ SuppressViewed \/ SuppressAnswered
    \/ OpenDiscover \/ CloseDiscover \/ HandleStartDiscovery \/ DiscoveryAnswered
    \/ CampaignForTicked \/ CampaignAfterDiscovery \/ NameCampaign \/ CloseCampaign
    \/ HandleCreateCampaign \/ CreateSucceeds \/ CreateFails

LeadsPageSpec == LeadsPageInit /\ [][LeadsPageNext]_leadsPageVars

-----------------------------------------------------------------------------
(* Properties *)

\* A campaign made for ticked leads always names some: leadIds is never left out,
\* which would enrol every lead not yet contacted, also when an answer clears the
\* selection while dialogs are opened, closed and sent again (leads page:119-149,
\* 395-412).  After a discovery it may be left out.
TickedCampaignNamesLeads == \A c \in created : c.opener = "ticked" => c.leads # {}

=============================================================================
