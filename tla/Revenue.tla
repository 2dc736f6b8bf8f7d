------------------------------- MODULE Revenue ------------------------------
(***************************************************************************)
(* The CRM service: stages of leads, revenue entries, and the confirmed    *)
(* revenue of a lead, which is a column of its own next to the entries it  *)
(* sums.  No transaction: bookings of one lead interleave.                 *)
(***************************************************************************)
EXTENDS Naturals, FiniteSets, FiniteSetsExt

CONSTANTS
    Clients,      \* leads of the pipeline
    Bookers,      \* requests the API serves at one time
    Amounts,      \* amounts people enter
    MaxBookings   \* bound: requests in one behaviour

ASSUME RevenueBounds ==
    /\ MaxBookings \in Nat /\ Clients # {}
    /\ 0 \notin Amounts /\ Amounts \subseteq Nat
    /\ \E most \in Amounts : \A n \in Amounts : n <= most   \* the column's precision

VARIABLES
    client,    \* lead -> [stage, expected, confirmed]
    booked,    \* lead -> sum of its revenueEntry rows
    booking,   \* request -> the addRevenue it serves
    clashed,   \* leads of which bookings overlapped since one began alone (history)
    byHand,    \* leads whose confirmed revenue a person typed over (history)
    asked      \* requests so far

revenueVars == <<client, booked, booking, clashed, byHand, asked>>

-----------------------------------------------------------------------------
(* Values *)

PipelineStages == {"IMPORTED", "VALIDATED", "CONTACTED", "REPLIED", "INTERESTED",
                   "MEETING_REQUESTED", "PROPOSAL_SENT", "DEPOSIT_PENDING", "WON",
                   "LOST", "SUPPRESSED"}
StageInput == {"IMPORTED", "WON", "LOST"}
NotBooking == [at |-> "idle", of |-> "nobody", sum |-> 0]
MaxTotal == MaxBookings * Max(Amounts)

RevenueTypeOK ==
    /\ client \in [Clients -> [stage : PipelineStages, expected : 0 .. MaxTotal,
                               confirmed : 0 .. MaxTotal]]
    /\ booked \in [Clients -> 0 .. MaxTotal]
    /\ booking \in [Bookers -> [at : {"idle", "sum", "write"},
                                of : Clients \cup {"nobody"}, sum : 0 .. MaxTotal]]

RevenueInit ==
    /\ client = [c \in Clients |-> [stage |-> "IMPORTED", expected |-> 0, confirmed |-> 0]]
    /\ booked = [c \in Clients |-> 0]
    /\ booking = [b \in Bookers |-> NotBooking]
    /\ clashed = {}
    /\ byHand = {}
    /\ asked = 0

-----------------------------------------------------------------------------
(* crm.service *)

AskCrm == asked < MaxBookings /\ asked' = asked + 1

BookingOf(c) == {b \in Bookers : booking[b].of = c}

\* Mutant: the entries are summed before the new one is written.
AddRevenueLate(b, c, amount) ==
    /\ AskCrm
    /\ booking[b] = NotBooking
    /\ booked' = [booked EXCEPT ![c] = @ + amount]
    /\ booking' = [booking EXCEPT ![b] = [at |-> "write", of |-> c, sum |-> booked[c]]]
    /\ clashed' = IF BookingOf(c) = {} THEN clashed \ {c} ELSE clashed \cup {c}
    /\ UNCHANGED <<client, byHand>>

AddRevenue(b, c, amount) ==
    /\ AskCrm
    /\ booking[b] = NotBooking
    /\ booked' = [booked EXCEPT ![c] = @ + amount]
    /\ booking' = [booking EXCEPT ![b] = [at |-> "sum", of |-> c, sum |-> 0]]
    /\ clashed' = IF BookingOf(c) = {} THEN clashed \ {c} ELSE clashed \cup {c}
    /\ UNCHANGED <<client, byHand>>

SumEntries(b) ==
    /\ booking[b].at = "sum"
    /\ booking' = [booking EXCEPT ![b].at = "write", ![b].sum = booked[booking[b].of]]
    /\ UNCHANGED <<client, booked, clashed, byHand, asked>>

\* The sum read before, over what another booking or a person wrote since.
WriteConfirmed(b) ==
    /\ booking[b].at = "write"
    /\ LET c == booking[b].of
       IN  /\ client' = [client EXCEPT ![c].confirmed = booking[b].sum, ![c].stage = "WON"]
           /\ byHand' = byHand \ {c}
    /\ booking' = [booking EXCEPT ![b] = NotBooking]
    /\ UNCHANGED <<booked, clashed, asked>>

\* Both figures may be typed over; a booking resets the confirmed one.
UpdateLeadStage(c, stage, expected, confirmed) ==
    /\ AskCrm
    /\ client' = [client EXCEPT ![c].stage = stage,
                     ![c].expected = IF expected = {} THEN @ ELSE Min(expected),
                     ![c].confirmed = IF confirmed = {} THEN @ ELSE Min(confirmed)]
    /\ byHand' = IF confirmed = {} THEN byHand ELSE byHand \cup {c}
    /\ UNCHANGED <<booked, booking, clashed>>

Total(amount, cs) == FoldSet(LAMBDA c, n : n + amount[c], 0, cs)

\* The summary adds up the stages it lists.
PipelineTotal == Total([c \in Clients |-> client[c].confirmed],
                       {c \in Clients : client[c].stage \in PipelineStages})

\* The dashboard and the analytics page add up the entries.
LedgerTotal == Total(booked, Clients)

-----------------------------------------------------------------------------
(* Specification *)

Optional == {{}} \cup {{n} : n \in Amounts}

RevenueNext ==
    \/ \E b \in Bookers :
          \/ SumEntries(b) \/ WriteConfirmed(b)
          \/ \E c \in Clients, amount \in Amounts : AddRevenue(b, c, amount)
    \/ \E c \in Clients, s \in StageInput, e \in Optional, n \in Optional :
          UpdateLeadStage(c, s, e, n)

RevenueSpec == RevenueInit /\ [][RevenueNext]_revenueVars

-----------------------------------------------------------------------------
(* Properties *)

\* A booking in flight never makes a lead's confirmed revenue exceed its entries.
\* Payments of a lead that overlap may leave it short of them, but the next one
\* made alone sums all entries and repairs it: a lead with none in flight then
\* has the sum of its entries, unless a person typed over it; and once that is
\* true of all, the pipeline and the analytics page report the same revenue
\* (crm.service:131-152, analytics.service:24).
RevenueReportsAgree ==
    /\ \A c \in Clients \ byHand : client[c].confirmed <= booked[c]
    /\ \A c \in Clients \ (clashed \cup byHand) :
          BookingOf(c) = {} => client[c].confirmed = booked[c]
    /\ clashed \cup byHand = {} /\ (\A b \in Bookers : booking[b] = NotBooking)
           => PipelineTotal = LedgerTotal

=============================================================================
